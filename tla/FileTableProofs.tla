--------------------------- MODULE FileTableProofs ---------------------------
(***************************************************************************)
(* Proofs about the tables of open files (FileTable), for any processes,   *)
(* tables, inodes and number of entries: the inductive invariant IInv, and *)
(* from it TablesInv (TablesCorrect) and InodeCountsExact (InodesCorrect). *)
(*                                                                         *)
(* And about the files of the disk (SfsFile), for any inodes, descriptors, *)
(* disk blocks and sizes: the inductive invariant SfsIInv, and from it     *)
(* BlocksInv (BlocksCorrect).                                              *)
(***************************************************************************)
EXTENDS FileTable, SfsFile, FiniteSetTheorems, WellFoundedInduction, TLAPS

-----------------------------------------------------------------------------
(* Counting what tables hold.  F and G are values of files: before and     *)
(* after a step.                                                           *)

TablesOf(F) == {f \in Files : F[f] # NULL}
UsersOf(F, n) == Cardinality({d \in TablesOf(F) \X Fd : F[d[1]].fd_array[d[2]].node = n})
UsersBeside(F, f, n) ==
    Cardinality({d \in TablesOf(F) \X Fd : d[1] # f /\ F[d[1]].fd_array[d[2]].node = n})
PwdsOf(F, n) == Cardinality({f \in TablesOf(F) : F[f].pwd = n})
\* What table f adds to each.
EntriesAt(F, f, n) == IF F[f] = NULL THEN 0 ELSE Entries(F[f].fd_array, n)
PwdAt(F, f, n) == One(F[f] # NULL /\ F[f].pwd = n)

\* There are finitely many descriptors.
LEMMA FdFinite == IsFiniteSet(Fd)
  BY FS_Interval, FileTableAssumption DEF Fd

\* An inode is named by finitely many entries of a table.
LEMMA EntriesType ==
  ASSUME NEW t, NEW n
  PROVE  IsFiniteSet({fd \in Fd : t[fd].node = n}) /\ Entries(t, n) \in Nat
<1>1. IsFiniteSet({fd \in Fd : t[fd].node = n})
  BY FdFinite, FS_Subset
<1>2. QED
  BY <1>1, FS_CardinalityType DEF Entries

\* A column of pairs is as large as the set beside it.
LEMMA ColumnSize ==
  ASSUME NEW f, NEW S, IsFiniteSet(S)
  PROVE  IsFiniteSet({f} \X S) /\ Cardinality({f} \X S) = Cardinality(S)
<1> DEFINE pair == [x \in S |-> <<f, x>>]
<1>1. pair \in Bijection(S, {f} \X S)
  <2>1. pair \in [S -> {f} \X S]
    OBVIOUS
  <2>2. \A x, y \in S : pair[x] = pair[y] => x = y
    OBVIOUS
  <2>3. \A d \in {f} \X S : \E x \in S : pair[x] = d
    OBVIOUS
  <2>4. QED
    BY <2>1, <2>2, <2>3 DEF Bijection, Injection, Surjection, IsInjective
<1>2. ExistsBijection(S, {f} \X S)
  BY <1>1 DEF ExistsBijection
<1>3. QED
  BY <1>2, FS_Bijection

\* The entries that name n are those of one table and those of the others.
LEMMA UsersSplit ==
  ASSUME NEW F, NEW f \in Files, NEW n
  PROVE  /\ UsersBeside(F, f, n) \in Nat
         /\ UsersOf(F, n) = UsersBeside(F, f, n) + EntriesAt(F, f, n)
<1> DEFINE all == {d \in TablesOf(F) \X Fd : F[d[1]].fd_array[d[2]].node = n}
           others == {d \in TablesOf(F) \X Fd : d[1] # f /\ F[d[1]].fd_array[d[2]].node = n}
           mine == {fd \in Fd : F[f].fd_array[fd].node = n}
<1>1. IsFiniteSet(others) /\ Cardinality(others) \in Nat
  <2>1. IsFiniteSet(TablesOf(F) \X Fd)
    BY FdFinite, FileTableAssumption, FS_Subset, FS_Product DEF TablesOf
  <2>2. IsFiniteSet(others)
    BY <2>1, FS_Subset
  <2>3. QED
    BY <2>2, FS_CardinalityType
<1>2. CASE F[f] = NULL
  <2>1. all = others
    BY <1>2 DEF TablesOf
  <2>2. UsersOf(F, n) = Cardinality(all) /\ UsersBeside(F, f, n) = Cardinality(others)
    BY DEF UsersOf, UsersBeside
  <2>3. EntriesAt(F, f, n) = 0
    BY <1>2 DEF EntriesAt
  <2>4. QED
    <3> HIDE DEF all, others, mine
    <3> QED
      BY <1>1, <2>1, <2>2, <2>3
<1>3. CASE F[f] # NULL
  <2>1. all = others \cup ({f} \X mine) /\ others \cap ({f} \X mine) = {}
    BY <1>3 DEF TablesOf
  <2>2. IsFiniteSet(mine) /\ Cardinality(mine) \in Nat
    BY FdFinite, FS_Subset, FS_CardinalityType
  <2>3. IsFiniteSet({f} \X mine) /\ Cardinality({f} \X mine) = Cardinality(mine)
    BY <2>2, ColumnSize
  <2>4. Cardinality(all) = Cardinality(others) + Cardinality(mine) - Cardinality({})
    <3> HIDE DEF all, others, mine
    <3> QED
      BY <1>1, <2>1, <2>3, FS_Union
  <2>5. Cardinality(all) = Cardinality(others) + Cardinality(mine)
    <3> HIDE DEF all, others, mine
    <3> QED
      BY <1>1, <2>2, <2>4, FS_EmptySet
  <2>6. QED
    BY <1>1, <1>3, <2>5 DEF UsersOf, UsersBeside, EntriesAt, Entries
<1>4. QED
  BY <1>2, <1>3

\* When one table changes, the number of entries that name n changes as there.
LEMMA OneTableUsers ==
  ASSUME NEW F, NEW G, NEW f \in Files, \A g \in Files \ {f} : G[g] = F[g], NEW n
  PROVE  /\ UsersOf(F, n) \in Nat /\ EntriesAt(F, f, n) \in Nat /\ EntriesAt(G, f, n) \in Nat
         /\ UsersOf(F, n) >= EntriesAt(F, f, n)
         /\ UsersOf(G, n) = UsersOf(F, n) - EntriesAt(F, f, n) + EntriesAt(G, f, n)
<1>1. UsersBeside(F, f, n) = UsersBeside(G, f, n)
  <2>1. {d \in TablesOf(F) \X Fd : d[1] # f /\ F[d[1]].fd_array[d[2]].node = n}
          = {d \in TablesOf(G) \X Fd : d[1] # f /\ G[d[1]].fd_array[d[2]].node = n}
    BY DEF TablesOf
  <2>2. QED
    BY <2>1 DEF UsersBeside
<1>2. EntriesAt(F, f, n) \in Nat /\ EntriesAt(G, f, n) \in Nat
  BY EntriesType DEF EntriesAt
<1>3. QED
  BY <1>1, <1>2, UsersSplit

\* The same of working directories.
LEMMA OneTablePwds ==
  ASSUME NEW F, NEW G, NEW f \in Files, \A g \in Files \ {f} : G[g] = F[g], NEW n
  PROVE  /\ PwdsOf(F, n) \in Nat /\ PwdAt(F, f, n) \in 0..1 /\ PwdAt(G, f, n) \in 0..1
         /\ PwdsOf(F, n) >= PwdAt(F, f, n)
         /\ PwdsOf(G, n) = PwdsOf(F, n) - PwdAt(F, f, n) + PwdAt(G, f, n)
<1> DEFINE others == {g \in TablesOf(F) \ {f} : F[g].pwd = n}
<1>1. IsFiniteSet(others) /\ Cardinality(others) \in Nat
  BY FileTableAssumption, FS_Subset, FS_CardinalityType DEF TablesOf
<1>2. f \notin others
  OBVIOUS
<1>3. Cardinality(others \cup {f}) = Cardinality(others) + 1
  BY <1>1, <1>2, FS_AddElement
<1>4. {g \in TablesOf(F) : F[g].pwd = n} = IF F[f] # NULL /\ F[f].pwd = n THEN others \cup {f} ELSE others
  BY DEF TablesOf
<1>5. {g \in TablesOf(G) : G[g].pwd = n} = IF G[f] # NULL /\ G[f].pwd = n THEN others \cup {f} ELSE others
  BY DEF TablesOf
<1> HIDE DEF others
<1>6. PwdsOf(F, n) = Cardinality(others) + PwdAt(F, f, n) /\ PwdAt(F, f, n) \in 0..1
  <2>1. CASE F[f] # NULL /\ F[f].pwd = n
    <3>1. PwdsOf(F, n) = Cardinality(others \cup {f})
      BY <1>4, <2>1 DEF PwdsOf
    <3>2. QED
      BY <1>1, <1>3, <2>1, <3>1 DEF PwdAt, One
  <2>2. CASE ~(F[f] # NULL /\ F[f].pwd = n)
    <3>1. PwdsOf(F, n) = Cardinality(others)
      BY <1>4, <2>2 DEF PwdsOf
    <3>2. QED
      BY <1>1, <2>2, <3>1 DEF PwdAt, One
  <2>3. QED
    BY <2>1, <2>2
<1>7. PwdsOf(G, n) = Cardinality(others) + PwdAt(G, f, n) /\ PwdAt(G, f, n) \in 0..1
  <2>1. CASE G[f] # NULL /\ G[f].pwd = n
    <3>1. PwdsOf(G, n) = Cardinality(others \cup {f})
      BY <1>5, <2>1 DEF PwdsOf
    <3>2. QED
      BY <1>1, <1>3, <2>1, <3>1 DEF PwdAt, One
  <2>2. CASE ~(G[f] # NULL /\ G[f].pwd = n)
    <3>1. PwdsOf(G, n) = Cardinality(others)
      BY <1>5, <2>2 DEF PwdsOf
    <3>2. QED
      BY <1>1, <2>2, <3>1 DEF PwdAt, One
  <2>3. QED
    BY <2>1, <2>2
<1>8. QED
  BY <1>1, <1>6, <1>7

-----------------------------------------------------------------------------
(* Entries and tables.                                                     *)

\* The last count frees an entry that is closed; a reader's keeps it, with its inode.
LEMMA CloseEntry ==
  ASSUME NEW e \in Entry, NEW r \in Nat, Counted(e, r), e.status = "FD_OPENED"
  PROVE  /\ fd_array_close(e) \in Entry /\ Counted(fd_array_close(e), r)
         /\ fd_array_close(e).status # "FD_OPENED"
         /\ r = 0 => fd_array_close(e) = None
         /\ r > 0 => fd_array_close(e).node = e.node
<1> DEFINE c == [e EXCEPT !.status = "FD_CLOSED"]
<1>1. e.open_count = r + 1 /\ e.node \in Inode
  BY DEF Entry, None, Counted, One
<1>2. c = [status |-> "FD_CLOSED", open_count |-> r + 1, node |-> e.node]
  BY <1>1 DEF Entry, None
<1>3. CASE r = 0
  <2>1. fd_array_close(e) = None
    BY <1>2, <1>3 DEF fd_array_close, fd_array_release
  <2>2. QED
    BY <1>3, <2>1 DEF Entry, None, Counted, One
<1>4. CASE r > 0
  <2>1. fd_array_close(e) = [status |-> "FD_CLOSED", open_count |-> r, node |-> e.node]
    <3>1. fd_array_close(e) = [c EXCEPT !.open_count = @ - 1]
      BY <1>2, <1>4 DEF fd_array_close, fd_array_release
    <3> HIDE DEF c
    <3>2. [c EXCEPT !.open_count = @ - 1] = [status |-> "FD_CLOSED", open_count |-> (r + 1) - 1, node |-> e.node]
      BY <1>2
    <3>3. QED
      BY <3>1, <3>2
  <2>2. QED
    BY <1>1, <1>4, <2>1 DEF Entry, Counted, One
<1>5. QED
  BY <1>3, <1>4

\* A reader that leaves takes its count.
LEMMA ReleaseEntry ==
  ASSUME NEW e \in Entry, NEW r \in Nat \ {0}, Counted(e, r)
  PROVE  /\ fd_array_release(e) \in Entry /\ Counted(fd_array_release(e), r - 1)
         /\ fd_array_release(e) = None \/ fd_array_release(e).node = e.node
         /\ r > 1 => fd_array_release(e).node = e.node
BY FileTableAssumption DEF fd_array_release, Entry, None, Counted, One

\* One that comes adds his.
LEMMA AcquireEntry ==
  ASSUME NEW e \in Entry, NEW r \in Nat, Counted(e, r), e.status = "FD_OPENED"
  PROVE  LET a == [e EXCEPT !.open_count = @ + 1] IN
         a \in Entry /\ Counted(a, r + 1) /\ a.node = e.node
BY DEF Entry, None, Counted, One

\* Entries of u are those of t, or free.
Keeps(t, u) == \A fd \in Fd : u[fd] = None \/ u[fd].node = t[fd].node

\* The entries that a change frees are what vfs_close takes from an inode.
LEMMA EntriesKept ==
  ASSUME NEW t \in [Fd -> Entry], NEW u \in [Fd -> Entry], Keeps(t, u), NEW n \in Inode
  PROVE  /\ Entries(u, n) \in Nat /\ Entries(t, n) \in Nat /\ vfs_close(t, u, n) \in Nat
         /\ Entries(u, n) = Entries(t, n) - vfs_close(t, u, n)
<1> DEFINE old == {fd \in Fd : t[fd].node = n}
           new == {fd \in Fd : u[fd].node = n}
<1>1. n # NULL /\ None.node = NULL
  BY FileTableAssumption DEF None
<1>2. new = old \ Freed(t, u, n) /\ old \cap Freed(t, u, n) = Freed(t, u, n)
  BY <1>1 DEF Keeps, Freed
<1>3. IsFiniteSet(old) /\ Entries(t, n) \in Nat /\ Entries(u, n) \in Nat
  BY EntriesType
<1>4. IsFiniteSet(Freed(t, u, n)) /\ vfs_close(t, u, n) \in Nat
  BY FdFinite, FS_Subset, FS_CardinalityType DEF Freed, vfs_close
<1>5. Cardinality(old \ Freed(t, u, n)) = Cardinality(old) - Cardinality(old \cap Freed(t, u, n))
  BY <1>3, FS_Difference
<1>6. Entries(t, n) = Cardinality(old) /\ Entries(u, n) = Cardinality(new)
  BY DEF Entries
<1> HIDE DEF old, new
<1>7. QED
  BY <1>2, <1>3, <1>4, <1>5, <1>6 DEF vfs_close

\* A free entry that is opened adds one.
LEMMA EntriesNew ==
  ASSUME NEW t \in [Fd -> Entry], NEW fd \in Fd, t[fd] = None, NEW m \in Inode, NEW n \in Inode
  PROVE  LET u == [t EXCEPT ![fd] = fd_array_open(m)] IN
         u \in [Fd -> Entry] /\ Entries(u, n) = Entries(t, n) + One(m = n)
<1> DEFINE u == [t EXCEPT ![fd] = fd_array_open(m)]
           old == {x \in Fd : t[x].node = n}
           new == {x \in Fd : u[x].node = n}
<1>1. fd_array_open(m) \in Entry /\ fd_array_open(m).node = m
  BY DEF fd_array_open, Entry
<1>2. u \in [Fd -> Entry]
  BY <1>1
<1>3. fd \notin old
  BY FileTableAssumption DEF None
<1>4. IsFiniteSet(old) /\ Cardinality(old) \in Nat
  BY FdFinite, FS_Subset, FS_CardinalityType
<1>5. Cardinality(old \cup {fd}) = Cardinality(old) + 1
  BY <1>3, <1>4, FS_AddElement
<1>6. new = IF m = n THEN old \cup {fd} ELSE old
  BY <1>1, <1>3
<1>7. Entries(t, n) = Cardinality(old) /\ Entries(u, n) = Cardinality(new)
  BY DEF Entries
<1>8. Entries(u, n) = Entries(t, n) + One(m = n)
  <2> HIDE DEF u, old, new
  <2>1. CASE m = n
    BY <1>4, <1>5, <1>6, <1>7, <2>1 DEF One
  <2>2. CASE m # n
    BY <1>4, <1>6, <1>7, <2>2 DEF One
  <2>3. QED
    BY <2>1, <2>2
<1>9. QED
  BY <1>2, <1>8

\* Entries count their opening and their readers.
AllCounted(t, R) == \A fd \in Fd : Counted(t[fd], R[fd])

\* Closing many entries is closing each.
LEMMA CloseMany ==
  ASSUME NEW t \in [Fd -> Entry], NEW R \in [Fd -> Nat], AllCounted(t, R), NEW from \in 0..2
  PROVE  LET u == CloseAll(t, from) IN
         /\ u \in [Fd -> Entry] /\ AllCounted(u, R) /\ Keeps(t, u)
         /\ \A fd \in Fd : R[fd] > 0 => u[fd].node = t[fd].node
         /\ from = 0 => \A fd \in Fd : R[fd] = 0 => u[fd] = None
<1> DEFINE u == CloseAll(t, from)
<1>1. ASSUME NEW fd \in Fd
      PROVE  /\ u[fd] \in Entry /\ Counted(u[fd], R[fd])
             /\ u[fd] = None \/ u[fd].node = t[fd].node
             /\ R[fd] > 0 => u[fd].node = t[fd].node
             /\ from = 0 /\ R[fd] = 0 => u[fd] = None
  <2>1. CASE fd >= from /\ t[fd].status = "FD_OPENED"
    <3>1. u[fd] = fd_array_close(t[fd])
      BY <2>1 DEF CloseAll
    <3>2. t[fd] \in Entry /\ R[fd] \in Nat /\ Counted(t[fd], R[fd])
      BY DEF AllCounted
    <3>3. QED
      BY <2>1, <3>1, <3>2, CloseEntry
  <2>2. CASE ~(fd >= from /\ t[fd].status = "FD_OPENED")
    <3>1. u[fd] = t[fd] /\ t[fd] \in Entry /\ Counted(t[fd], R[fd])
      BY <2>2 DEF CloseAll, AllCounted
    <3>2. ASSUME from = 0, R[fd] = 0 PROVE t[fd] = None
      <4>1. fd >= 0
        BY FileTableAssumption DEF Fd
      <4>2. t[fd].status # "FD_OPENED"
        BY <2>2, <3>2, <4>1
      <4>3. t[fd].open_count = 0
        BY <3>1, <3>2, <4>2 DEF Counted, One
      <4>4. QED
        BY <3>1, <4>3 DEF Entry
    <3>3. QED
      BY <3>1, <3>2
  <2>3. QED
    BY <2>1, <2>2
<1>2. u \in [Fd -> Entry]
  BY <1>1 DEF CloseAll
<1>3. QED
  BY <1>1, <1>2 DEF AllCounted, Keeps

-----------------------------------------------------------------------------
(* The inductive invariant.                                                *)

\* A sleeping read is a living process's, on the keyboard.
ReadersReadStdin ==
    \A p \in Proc : reading[p] # NO_FD => p \in Alive /\ fd_array(p)[reading[p]].node = stdin
\* A table that is not allocated was not left behind either.
UnusedTables == \A f \in Files : files[f] = NULL => orphans[f] = 0

IInv == /\ TypeOK /\ EntryCounts /\ TablesOwned
        /\ InodeCountsExact
        /\ ReadersReadStdin /\ UnusedTables

\* The table of a living process exists.
LEMMA TableFacts ==
  ASSUME IInv, NEW p \in Alive
  PROVE  /\ filesp[p] \in Tables /\ filesp[p] \in Files
         /\ files[filesp[p]] \in FilesStruct
         /\ fd_array(p) \in [Fd -> Entry]
BY DEF IInv, TypeOK, TablesOwned, Tables, FilesStruct, fd_array

\* Owners and readers can be counted.
LEMMA OwnersFinite ==
  ASSUME NEW f, NEW fd
  PROVE  /\ IsFiniteSet(Owners(f)) /\ Cardinality(Owners(f)) \in Nat
         /\ IsFiniteSet(Readers(f, fd)) /\ Cardinality(Readers(f, fd)) \in Nat
         /\ Cardinality(Readers(f, fd)) > 0 <=> Readers(f, fd) # {}
<1>1. Owners(f) \subseteq Proc /\ Readers(f, fd) \subseteq Proc
  BY DEF Owners, Readers, Alive
<1>2. IsFiniteSet(Owners(f)) /\ IsFiniteSet(Readers(f, fd))
  BY <1>1, FileTableAssumption, FS_Subset
<1>3. QED
  BY <1>2, FS_CardinalityType, FS_EmptySet

\* How many readers each descriptor of f has.
ReaderCounts(f) == [fd \in Fd |-> Cardinality(Readers(f, fd))]

(* The sleeping readers account for the counts of the entries of a table.   *)
LEMMA TableCounted ==
  ASSUME IInv, NEW f \in Tables
  PROVE  ReaderCounts(f) \in [Fd -> Nat] /\ AllCounted(files[f].fd_array, ReaderCounts(f))
BY OwnersFinite DEF IInv, EntryCounts, ReaderCounts, AllCounted

\* The counts of the inodes follow a change of one table and of what was lost.
LEMMA InodesStep ==
  ASSUME TypeOK, InodeCountsExact, NEW f \in Files,
         \A g \in Files \ {f} : files'[g] = files[g],
         lost' \in [Inode -> Nat], \A n \in Inode : lost'[n] >= lost[n],
         open_count' = [n \in Inode |-> open_count[n] - EntriesAt(files, f, n)
                                                     + EntriesAt(files', f, n)],
         ref_count' = [n \in Inode |-> ref_count[n]
                          - EntriesAt(files, f, n) + EntriesAt(files', f, n)
                          - PwdAt(files, f, n) + PwdAt(files', f, n) + (lost'[n] - lost[n])]
  PROVE  /\ InodeCountsExact'
         /\ ref_count' \in [Inode -> Nat] /\ open_count' \in [Inode -> Nat]
<1>1. ASSUME NEW n \in Inode
      PROVE  /\ open_count'[n] = Users(n)' /\ Users(n)' \in Nat
             /\ ref_count'[n] = Users(n)' + Cardinality({g \in Tables : files[g].pwd = n})'
                                + Kept(n) + lost'[n]
             /\ ref_count'[n] \in Nat
  <2>1. /\ Users(n) = UsersOf(files, n) /\ Users(n)' = UsersOf(files', n)
        /\ Cardinality({g \in Tables : files[g].pwd = n}) = PwdsOf(files, n)
        /\ Cardinality({g \in Tables : files[g].pwd = n})' = PwdsOf(files', n)
    BY DEF Users, UsersOf, Tables, TablesOf, PwdsOf
  <2>2. /\ UsersOf(files, n) \in Nat /\ EntriesAt(files, f, n) \in Nat
        /\ EntriesAt(files', f, n) \in Nat
        /\ UsersOf(files, n) >= EntriesAt(files, f, n)
        /\ UsersOf(files', n) = UsersOf(files, n) - EntriesAt(files, f, n) + EntriesAt(files', f, n)
    BY OneTableUsers
  <2>3. /\ PwdsOf(files, n) \in Nat /\ PwdAt(files, f, n) \in 0..1 /\ PwdAt(files', f, n) \in 0..1
        /\ PwdsOf(files, n) >= PwdAt(files, f, n)
        /\ PwdsOf(files', n) = PwdsOf(files, n) - PwdAt(files, f, n) + PwdAt(files', f, n)
    BY OneTablePwds
  <2>4. Kept(n) \in Nat /\ lost[n] \in Nat /\ lost'[n] \in Nat
    BY DEF Kept, One, TypeOK
  <2>5. /\ open_count[n] = UsersOf(files, n)
        /\ ref_count[n] = UsersOf(files, n) + PwdsOf(files, n) + Kept(n) + lost[n]
    BY <2>1 DEF InodeCountsExact
  <2>6. /\ open_count'[n] = open_count[n] - EntriesAt(files, f, n) + EntriesAt(files', f, n)
        /\ ref_count'[n] = ref_count[n]
                           - EntriesAt(files, f, n) + EntriesAt(files', f, n)
                           - PwdAt(files, f, n) + PwdAt(files', f, n) + (lost'[n] - lost[n])
    OBVIOUS
  <2>7. UsersOf(files', n) \in Nat /\ open_count'[n] = UsersOf(files', n)
    BY <2>2, <2>5, <2>6
  <2>8. /\ PwdsOf(files', n) \in Nat
        /\ ref_count'[n] = UsersOf(files', n) + PwdsOf(files', n) + Kept(n) + lost'[n]
    BY <2>2, <2>3, <2>4, <2>5, <2>6
  <2>9. UsersOf(files', n) + PwdsOf(files', n) + Kept(n) + lost'[n] \in Nat
    BY <2>4, <2>7, <2>8
  <2>10. QED
    BY <2>1, <2>7, <2>8, <2>9
<1>2. open_count' \in [Inode -> Nat]
  <2>1. \A n \in Inode : open_count'[n] \in Nat
    BY <1>1
  <2>2. QED
    BY <2>1, Zenon
<1>3. ref_count' \in [Inode -> Nat]
  <2>1. \A n \in Inode : ref_count'[n] \in Nat
    BY <1>1
  <2>2. QED
    BY <2>1, Zenon
<1>4. InodeCountsExact'
  BY <1>1 DEF InodeCountsExact
<1>5. QED
  BY <1>2, <1>3, <1>4

\* A step that changes the table f to s, who reads through it, and nothing else of tables.
TableChange(f, s) ==
    /\ files' = [files EXCEPT ![f] = s] /\ s.files_count = files[f].files_count
    /\ UNCHANGED <<life, filesp, orphans>> /\ mm' \in [Proc -> BOOLEAN]
    /\ lost' \in [Inode -> Nat]
    /\ reading' \in [Proc -> Fd \cup {NO_FD}]
    /\ \A p \in Proc : filesp[p] # f => reading'[p] = reading[p]

\* Such a step keeps the invariant if it keeps the counts of the entries and of the inodes.
LEMMA TableStep ==
  ASSUME IInv, NEW f \in Tables, NEW s \in FilesStruct, TableChange(f, s),
         \A fd \in Fd : Counted(s.fd_array[fd], Cardinality(Readers(f, fd)')),
         \A p \in Proc : filesp[p] = f /\ reading'[p] # NO_FD =>
                            p \in Alive /\ s.fd_array[reading'[p]].node = stdin,
         InodeCountsExact', ref_count' \in [Inode -> Nat], open_count' \in [Inode -> Nat]
  PROVE  IInv'
<1> USE DEF TableChange
<1>1. f \in Files /\ files[f] \in FilesStruct /\ files[f] # NULL /\ s # NULL
  BY FileTableAssumption DEF IInv, TypeOK, Tables
<1>2. files' \in [Files -> FilesStruct \cup {NULL}] /\ files'[f] = s
  BY <1>1 DEF IInv, TypeOK
<1>3. \A g \in Files : g # f => files'[g] = files[g]
  BY <1>1 DEF IInv, TypeOK
<1>4. TypeOK'
  BY <1>2 DEF IInv, TypeOK
<1>5. Alive' = Alive /\ Tables' = Tables /\ \A g : Owners(g)' = Owners(g)
  BY <1>1, <1>2, <1>3 DEF Alive, Tables, Owners
<1>6. ASSUME NEW g \in Files, g # f, NEW fd PROVE Readers(g, fd)' = Readers(g, fd)
  BY <1>5, <1>6 DEF Readers, Owners, Alive
<1>7. EntryCounts'
  <2>1. SUFFICES ASSUME NEW g \in Tables', NEW fd \in Fd
                 PROVE  Counted(files'[g].fd_array[fd], Cardinality(Readers(g, fd)'))
    BY DEF EntryCounts, Counted
  <2>2. CASE g = f
    BY <1>2, <2>2
  <2>3. CASE g # f
    <3>1. g \in Tables /\ g \in Files /\ files'[g] = files[g]
      BY <1>3, <1>5, <2>3 DEF Tables
    <3>2. Readers(g, fd)' = Readers(g, fd)
      BY <1>6, <2>3, <3>1
    <3>3. Counted(files[g].fd_array[fd], Cardinality(Readers(g, fd)))
      BY <3>1 DEF IInv, EntryCounts
    <3>4. QED
      BY <3>1, <3>2, <3>3
  <2>4. QED
    BY <2>2, <2>3
<1>8. TablesOwned'
  BY <1>1, <1>2, <1>3, <1>5 DEF IInv, TablesOwned, Tables
<1>9. ReadersReadStdin'
  <2>1. SUFFICES ASSUME NEW p \in Proc, reading'[p] # NO_FD
                 PROVE  p \in Alive' /\ files'[filesp[p]].fd_array[reading'[p]].node = stdin
    BY DEF ReadersReadStdin, fd_array
  <2>2. CASE filesp[p] = f
    BY <1>2, <1>5, <2>1, <2>2
  <2>3. CASE filesp[p] # f
    <3>1. reading'[p] = reading[p] /\ p \in Alive /\ fd_array(p)[reading[p]].node = stdin
      BY <2>1, <2>3 DEF IInv, ReadersReadStdin
    <3>2. filesp[p] \in Files
      BY <3>1, TableFacts
    <3>3. QED
      BY <1>3, <1>5, <2>3, <3>1, <3>2 DEF fd_array
  <2>4. QED
    BY <2>2, <2>3
<1>10. UnusedTables'
  BY <1>1, <1>2, <1>3 DEF IInv, UnusedTables
<1>11. QED
  BY <1>4, <1>7, <1>8, <1>9, <1>10 DEF IInv

-----------------------------------------------------------------------------
(* System calls on files.                                                  *)

\* SetTable gives back what the freed entries had of their inodes.
LEMMA SetTableInodes ==
  ASSUME IInv, NEW f \in Tables, NEW u \in [Fd -> Entry],
         Keeps(files[f].fd_array, u), SetTable(f, u), lost' = lost
  PROVE  /\ InodeCountsExact'
         /\ ref_count' \in [Inode -> Nat] /\ open_count' \in [Inode -> Nat]
<1> DEFINE t == files[f].fd_array
<1>1. f \in Files /\ files[f] \in FilesStruct /\ files[f] # NULL /\ t \in [Fd -> Entry]
  BY DEF IInv, TypeOK, Tables, FilesStruct
<1>2. files' = [files EXCEPT ![f].fd_array = u]
  BY DEF SetTable
<1>3. /\ files'[f] = [files[f] EXCEPT !.fd_array = u] /\ files'[f] \in FilesStruct
      /\ \A g \in Files \ {f} : files'[g] = files[g]
  BY <1>1, <1>2 DEF IInv, TypeOK, FilesStruct
<1>4. files'[f] # NULL /\ files'[f].fd_array = u /\ files'[f].pwd = files[f].pwd
  BY <1>1, <1>3, FileTableAssumption DEF FilesStruct
<1>5. ASSUME NEW n \in Inode
      PROVE  /\ EntriesAt(files, f, n) \in Nat /\ EntriesAt(files', f, n) \in Nat
             /\ PwdAt(files', f, n) = PwdAt(files, f, n) /\ PwdAt(files, f, n) \in Nat
             /\ vfs_close(t, u, n) \in Nat
             /\ EntriesAt(files', f, n) = EntriesAt(files, f, n) - vfs_close(t, u, n)
  <2>1. EntriesAt(files, f, n) = Entries(t, n) /\ EntriesAt(files', f, n) = Entries(u, n)
    BY <1>1, <1>4 DEF EntriesAt
  <2>2. PwdAt(files', f, n) = PwdAt(files, f, n) /\ PwdAt(files, f, n) \in Nat
    BY <1>1, <1>4 DEF PwdAt, One
  <2>3. QED
    BY <1>1, <2>1, <2>2, EntriesKept
<1>6. /\ ref_count' = [n \in Inode |-> ref_count[n] - vfs_close(t, u, n)]
      /\ open_count' = [n \in Inode |-> open_count[n] - vfs_close(t, u, n)]
  BY DEF SetTable, Drop
<1>7. \A n \in Inode : ref_count[n] \in Nat /\ open_count[n] \in Nat /\ lost[n] \in Nat
  BY DEF IInv, TypeOK
<1>8. ref_count' = [n \in Inode |-> ref_count[n]
                      - EntriesAt(files, f, n) + EntriesAt(files', f, n)
                      - PwdAt(files, f, n) + PwdAt(files', f, n) + (lost'[n] - lost[n])]
  <2>1. \A n \in Inode : ref_count[n] - vfs_close(t, u, n) =
           ref_count[n] - EntriesAt(files, f, n) + EntriesAt(files', f, n)
              - PwdAt(files, f, n) + PwdAt(files', f, n) + (lost'[n] - lost[n])
    BY <1>5, <1>7
  <2>2. QED
    BY <1>6, <2>1
<1>9. open_count' = [n \in Inode |-> open_count[n] - EntriesAt(files, f, n)
                                                  + EntriesAt(files', f, n)]
  <2>1. \A n \in Inode : open_count[n] - vfs_close(t, u, n) =
           open_count[n] - EntriesAt(files, f, n) + EntriesAt(files', f, n)
    BY <1>5, <1>7
  <2>2. QED
    BY <1>6, <2>1
<1>10. lost' \in [Inode -> Nat] /\ \A n \in Inode : lost'[n] >= lost[n]
  BY <1>7 DEF IInv, TypeOK
<1>11. TypeOK /\ InodeCountsExact
  BY DEF IInv
<1>12. QED
  BY <1>1, <1>3, <1>8, <1>9, <1>10, <1>11, InodesStep

\* A new entry takes one count of each kind from its inode.
LEMMA NewEntryInodes ==
  ASSUME IInv, NEW p \in Callers, NEW fd \in FreeFds(fd_array(p)), NEW m \in Inode,
         NewEntry(p, fd, m), Count(m), lost' = lost
  PROVE  /\ InodeCountsExact'
         /\ ref_count' \in [Inode -> Nat] /\ open_count' \in [Inode -> Nat]
<1>0. PICK f \in Files : f = filesp[p]
  BY TableFacts DEF Callers, Running
<1> DEFINE t == fd_array(p)
           u == [t EXCEPT ![fd] = fd_array_open(m)]
<1>1. files[f] \in FilesStruct /\ files[f] # NULL /\ t = files[f].fd_array /\ t \in [Fd -> Entry]
  BY <1>0, TableFacts DEF Callers, Running, Tables, fd_array
<1>2. fd \in Fd /\ t[fd] = None
  BY <1>1 DEF FreeFds, Entry
<1>3. files' = [files EXCEPT ![f].fd_array[fd] = fd_array_open(m)]
  BY <1>0 DEF NewEntry
<1>4. u \in [Fd -> Entry]
  BY <1>1, <1>2, EntriesNew
<1>5. /\ files'[f] = [files[f] EXCEPT !.fd_array = u] /\ files'[f] \in FilesStruct
      /\ \A g \in Files \ {f} : files'[g] = files[g]
  BY <1>1, <1>3, <1>4 DEF IInv, TypeOK, FilesStruct
<1>6. files'[f] # NULL /\ files'[f].fd_array = u /\ files'[f].pwd = files[f].pwd
  BY <1>1, <1>5, FileTableAssumption DEF FilesStruct
<1>7. ASSUME NEW n \in Inode
      PROVE  /\ EntriesAt(files, f, n) \in Nat /\ EntriesAt(files', f, n) \in Nat
             /\ PwdAt(files', f, n) = PwdAt(files, f, n) /\ PwdAt(files, f, n) \in Nat
             /\ EntriesAt(files', f, n) = EntriesAt(files, f, n) + One(m = n)
  <2>1. EntriesAt(files, f, n) = Entries(t, n) /\ EntriesAt(files', f, n) = Entries(u, n)
    BY <1>1, <1>6 DEF EntriesAt
  <2>2. PwdAt(files', f, n) = PwdAt(files, f, n) /\ PwdAt(files, f, n) \in Nat
    BY <1>1, <1>6 DEF PwdAt, One
  <2>3. Entries(t, n) \in Nat /\ Entries(u, n) \in Nat
    BY EntriesType
  <2>4. Entries(u, n) = Entries(t, n) + One(m = n)
    BY <1>1, <1>2, EntriesNew
  <2>5. QED
    BY <2>1, <2>2, <2>3, <2>4
<1>8. /\ ref_count' = [ref_count EXCEPT ![m] = @ + 1]
      /\ open_count' = [open_count EXCEPT ![m] = @ + 1]
  BY DEF Count
<1>9. \A n \in Inode : ref_count[n] \in Nat /\ open_count[n] \in Nat /\ lost[n] \in Nat
  BY DEF IInv, TypeOK
<1>10. ref_count' = [n \in Inode |-> ref_count[n]
                      - EntriesAt(files, f, n) + EntriesAt(files', f, n)
                      - PwdAt(files, f, n) + PwdAt(files', f, n) + (lost'[n] - lost[n])]
  <2>1. \A n \in Inode : ref_count'[n] =
           ref_count[n] - EntriesAt(files, f, n) + EntriesAt(files', f, n)
              - PwdAt(files, f, n) + PwdAt(files', f, n) + (lost'[n] - lost[n])
    BY <1>7, <1>8, <1>9 DEF One, IInv, TypeOK
  <2>2. ref_count' = [n \in Inode |-> ref_count'[n]]
    BY <1>8 DEF IInv, TypeOK
  <2>3. QED
    BY <2>1, <2>2
<1>11. open_count' = [n \in Inode |-> open_count[n] - EntriesAt(files, f, n)
                                                  + EntriesAt(files', f, n)]
  <2>1. \A n \in Inode : open_count'[n] =
           open_count[n] - EntriesAt(files, f, n) + EntriesAt(files', f, n)
    BY <1>7, <1>8, <1>9 DEF One, IInv, TypeOK
  <2>2. open_count' = [n \in Inode |-> open_count'[n]]
    BY <1>8 DEF IInv, TypeOK
  <2>3. QED
    BY <2>1, <2>2
<1>12. lost' \in [Inode -> Nat] /\ \A n \in Inode : lost'[n] >= lost[n]
  BY <1>9 DEF IInv, TypeOK
<1>13. TypeOK /\ InodeCountsExact
  BY DEF IInv
<1>14. QED
  BY <1>1, <1>5, <1>10, <1>11, <1>12, <1>13, InodesStep

\* Steps that leave all readers alone change no set of them.
LEMMA SameReaders ==
  ASSUME UNCHANGED <<life, filesp, reading>>
  PROVE  \A f, fd : Readers(f, fd)' = Readers(f, fd)
BY DEF Readers, Owners, Alive

\* Opening and duplicating take a free entry, which nobody reads.
LEMMA NewEntryStep ==
  ASSUME IInv, NEW p \in Callers, NEW fd \in FreeFds(fd_array(p)), NEW m \in Inode,
         NewEntry(p, fd, m), Count(m), UNCHANGED <<procVars, reading, orphans, lost>>
  PROVE  IInv'
<1>0. PICK f \in Files : f = filesp[p]
  BY TableFacts DEF Callers, Running
<1>1. PICK t \in [Fd -> Entry] : t = fd_array(p)
  BY TableFacts DEF Callers, Running
<1>2. PICK s : s = [files[f] EXCEPT !.fd_array = [t EXCEPT ![fd] = fd_array_open(m)]]
  OBVIOUS
<1>3. f \in Tables /\ files[f] \in FilesStruct /\ t = files[f].fd_array
  BY <1>0, <1>1, TableFacts DEF Callers, Running, fd_array
<1>4. fd \in Fd /\ t[fd] = None
  BY <1>1 DEF FreeFds, Entry
<1>5. files' = [files EXCEPT ![f] = s] /\ s \in FilesStruct
  <2>1. [t EXCEPT ![fd] = fd_array_open(m)] \in [Fd -> Entry]
    BY <1>4, EntriesNew
  <2>2. QED
    BY <1>0, <1>2, <1>3, <2>1 DEF NewEntry, FilesStruct, IInv, TypeOK
<1>6. s.files_count = files[f].files_count /\ s.fd_array = [t EXCEPT ![fd] = fd_array_open(m)]
  BY <1>2, <1>3 DEF FilesStruct
<1>7. Cardinality(Readers(f, fd)) = 0 /\ Readers(f, fd) = {}
  <2>1. Counted(None, Cardinality(Readers(f, fd)))
    BY <1>3, <1>4 DEF IInv, EntryCounts
  <2>2. QED
    BY <2>1, OwnersFinite DEF Counted, None, One
<1>8. \A x \in Fd : Counted(s.fd_array[x], Cardinality(Readers(f, x)'))
  <2>1. SUFFICES ASSUME NEW x \in Fd PROVE Counted(s.fd_array[x], Cardinality(Readers(f, x)))
    BY SameReaders DEF procVars
  <2>2. CASE x = fd
    <3>1. s.fd_array[x] = fd_array_open(m)
      BY <1>4, <1>6, <2>2
    <3>2. QED
      BY <1>7, <2>2, <3>1 DEF Counted, fd_array_open, One
  <2>3. CASE x # fd
    <3>1. s.fd_array[x] = files[f].fd_array[x]
      BY <1>3, <1>6, <2>3
    <3>2. QED
      BY <1>3, <3>1 DEF IInv, EntryCounts
  <2>4. QED
    BY <2>2, <2>3
<1>9. ASSUME NEW q \in Proc, filesp[q] = f, reading'[q] # NO_FD
      PROVE  q \in Alive /\ s.fd_array[reading'[q]].node = stdin
  <2>1. q \in Alive /\ t[reading[q]].node = stdin /\ reading[q] \in Fd
    BY <1>3, <1>9 DEF IInv, ReadersReadStdin, TypeOK, fd_array
  <2>2. q \in Readers(f, reading[q])
    BY <1>9, <2>1 DEF Readers, Owners
  <2>3. reading[q] # fd
    BY <1>7, <2>2
  <2>4. QED
    BY <1>6, <2>1, <2>3
<1>10. /\ InodeCountsExact'
       /\ ref_count' \in [Inode -> Nat] /\ open_count' \in [Inode -> Nat]
  BY NewEntryInodes
<1>11. TableChange(f, s)
  BY <1>5, <1>6 DEF TableChange, IInv, TypeOK, procVars
<1>12. s \in FilesStruct /\ f \in Tables
  BY <1>3, <1>5
<1>13. QED
  BY <1>8, <1>9, <1>10, <1>11, <1>12, TableStep

\* A step of SetTable keeps the invariant if it keeps the counts of the entries.
LEMMA SetTableStep ==
  ASSUME IInv, NEW f \in Tables, NEW u \in [Fd -> Entry],
         Keeps(files[f].fd_array, u), SetTable(f, u),
         UNCHANGED <<life, filesp, orphans, lost>>, mm' \in [Proc -> BOOLEAN],
         reading' \in [Proc -> Fd \cup {NO_FD}],
         \A p \in Proc : filesp[p] # f => reading'[p] = reading[p],
         \A fd \in Fd : Counted(u[fd], Cardinality(Readers(f, fd)')),
         \A p \in Proc : filesp[p] = f /\ reading'[p] # NO_FD =>
                            p \in Alive /\ u[reading'[p]].node = stdin
  PROVE  IInv'
<1>1. f \in Files /\ files[f] \in FilesStruct
  BY DEF IInv, TypeOK, Tables
<1>2. PICK s : s = [files[f] EXCEPT !.fd_array = u]
  OBVIOUS
<1>3. /\ s \in FilesStruct /\ s.fd_array = u
      /\ s.files_count = files[f].files_count
  BY <1>1, <1>2 DEF FilesStruct
<1>4. files' = [files EXCEPT ![f] = s]
  BY <1>1, <1>2 DEF SetTable
<1>5. TableChange(f, s)
  BY <1>3, <1>4 DEF TableChange, IInv, TypeOK
<1>6. lost' = lost
  OBVIOUS
<1>7. /\ InodeCountsExact'
      /\ ref_count' \in [Inode -> Nat] /\ open_count' \in [Inode -> Nat]
  BY <1>6, SetTableInodes
<1>8. QED
  BY <1>3, <1>5, <1>7, TableStep

\* The entries of a table and who reads through them.
LEMMA EntryFacts ==
  ASSUME IInv, NEW f \in Tables, NEW fd \in Fd
  PROVE  /\ files[f].fd_array \in [Fd -> Entry]
         /\ files[f].fd_array[fd] \in Entry
         /\ Counted(files[f].fd_array[fd], Cardinality(Readers(f, fd)))
         /\ \A p \in Readers(f, fd) : files[f].fd_array[fd].node = stdin
<1>1. files[f].fd_array \in [Fd -> Entry]
  BY DEF IInv, TypeOK, Tables, FilesStruct
<1>2. files[f].fd_array[fd] \in Entry
  BY <1>1
<1>3. Counted(files[f].fd_array[fd], Cardinality(Readers(f, fd)))
  BY DEF IInv, EntryCounts
<1>4. ASSUME NEW p \in Readers(f, fd) PROVE files[f].fd_array[fd].node = stdin
  <2>1. p \in Proc /\ filesp[p] = f /\ reading[p] = fd /\ fd # NO_FD
    BY FileTableAssumption DEF Readers, Owners, Alive, Fd, NO_FD
  <2>2. QED
    BY <2>1 DEF IInv, ReadersReadStdin, fd_array
<1>5. QED
  BY <1>1, <1>2, <1>3, <1>4

\* close drops the opening; a sleeping reader keeps the entry and its inode.
LEMMA CloseStep ==
  ASSUME IInv, NEW p \in Proc, file_close(p)
  PROVE  IInv'
<1>1. p \in Alive /\ UNCHANGED <<procVars, reading, orphans, lost>>
  BY DEF file_close, Callers, Running
<1>2. PICK f \in Tables : f = filesp[p]
  BY <1>1, TableFacts
<1>3. PICK t \in [Fd -> Entry] : t = files[f].fd_array
  BY <1>1, <1>2, TableFacts DEF fd_array
<1>4. PICK fd \in Fd : /\ t[fd].status = "FD_OPENED"
                       /\ SetTable(f, [t EXCEPT ![fd] = fd_array_close(@)])
  BY <1>2, <1>3 DEF file_close, OpenFds, fd_array
<1>5. PICK u : u = [t EXCEPT ![fd] = fd_array_close(@)]
  OBVIOUS
<1>6. PICK r \in Nat : r = Cardinality(Readers(f, fd))
  BY OwnersFinite
<1>7. /\ fd_array_close(t[fd]) \in Entry /\ Counted(fd_array_close(t[fd]), r)
      /\ r = 0 => fd_array_close(t[fd]) = None
      /\ r > 0 => fd_array_close(t[fd]).node = t[fd].node
  <2>1. Counted(t[fd], r)
    BY <1>3, <1>6, EntryFacts
  <2>2. QED
    BY <1>4, <2>1, CloseEntry
<1>8. u \in [Fd -> Entry] /\ Keeps(files[f].fd_array, u)
  BY <1>3, <1>5, <1>6, <1>7 DEF Keeps
<1>9. \A x, y : Readers(x, y)' = Readers(x, y)
  BY <1>1, SameReaders DEF procVars
<1>10. ASSUME NEW x \in Fd PROVE Counted(u[x], Cardinality(Readers(f, x)'))
  <2>1. CASE x = fd
    BY <1>5, <1>6, <1>7, <1>9, <2>1
  <2>2. CASE x # fd
    BY <1>3, <1>5, <1>9, <2>2, EntryFacts
  <2>3. QED
    BY <2>1, <2>2
<1>11. ASSUME NEW q \in Proc, filesp[q] = f, reading'[q] # NO_FD
       PROVE  q \in Alive /\ u[reading'[q]].node = stdin
  <2>1. q \in Alive /\ reading'[q] = reading[q] /\ reading[q] \in Fd /\ q \in Readers(f, reading[q])
    BY <1>1, <1>11 DEF IInv, ReadersReadStdin, TypeOK, Readers, Owners
  <2>2. t[reading[q]].node = stdin
    BY <1>3, <2>1, EntryFacts
  <2>3. CASE reading[q] = fd
    <3>1. r > 0
      BY <1>6, <2>1, <2>3, OwnersFinite
    <3>2. QED
      BY <1>5, <1>7, <2>1, <2>2, <2>3, <3>1
  <2>4. CASE reading[q] # fd
    BY <1>5, <2>1, <2>2, <2>4
  <2>5. QED
    BY <2>3, <2>4
<1>12. /\ UNCHANGED <<life, filesp, orphans, lost>> /\ mm' \in [Proc -> BOOLEAN]
       /\ reading' \in [Proc -> Fd \cup {NO_FD}]
       /\ \A q \in Proc : filesp[q] # f => reading'[q] = reading[q]
  BY <1>1 DEF procVars, IInv, TypeOK
<1>13. SetTable(f, u)
  BY <1>4, <1>5
<1>14. QED
  BY <1>8, <1>10, <1>11, <1>12, <1>13, SetTableStep

\* A read that is going to sleep adds a reader and a count.
LEMMA AcquireStep ==
  ASSUME IInv, NEW p \in Proc, fd_array_acquire(p)
  PROVE  IInv'
<1>1. p \in Alive /\ reading[p] = NO_FD /\ UNCHANGED <<procVars, orphans, lost>>
  BY DEF fd_array_acquire, Callers, Running
<1>2. PICK f \in Tables : f = filesp[p]
  BY <1>1, TableFacts
<1>3. PICK t \in [Fd -> Entry] : t = files[f].fd_array
  BY <1>1, <1>2, TableFacts DEF fd_array
<1>4. PICK fd \in Fd : /\ t[fd].status = "FD_OPENED" /\ t[fd].node = stdin
                       /\ reading' = [reading EXCEPT ![p] = fd]
                       /\ SetTable(f, [t EXCEPT ![fd].open_count = @ + 1])
  BY <1>2, <1>3 DEF fd_array_acquire, OpenFds, fd_array
<1>5. PICK u : u = [t EXCEPT ![fd].open_count = @ + 1]
  OBVIOUS
<1>6. PICK r \in Nat : r = Cardinality(Readers(f, fd))
  BY OwnersFinite
<1>7. u[fd] \in Entry /\ Counted(u[fd], r + 1) /\ u[fd].node = t[fd].node
  <2>1. Counted(t[fd], r)
    BY <1>3, <1>6, EntryFacts
  <2>2. u[fd] = [t[fd] EXCEPT !.open_count = @ + 1]
    BY <1>5
  <2>3. QED
    BY <1>4, <2>1, <2>2, AcquireEntry
<1>8. u \in [Fd -> Entry] /\ Keeps(files[f].fd_array, u)
  BY <1>3, <1>5, <1>7 DEF Keeps
<1>9. /\ Readers(f, fd)' = Readers(f, fd) \cup {p} /\ p \notin Readers(f, fd)
      /\ \A x \in Fd : x # fd => Readers(f, x)' = Readers(f, x)
  BY <1>1, <1>2, <1>4, FileTableAssumption DEF Readers, Owners, Alive, procVars, IInv, TypeOK, Fd, NO_FD
<1>10. ASSUME NEW x \in Fd PROVE Counted(u[x], Cardinality(Readers(f, x)'))
  <2>1. CASE x = fd
    <3>1. Cardinality(Readers(f, fd) \cup {p}) = r + 1
      BY <1>6, <1>9, OwnersFinite, FS_AddElement
    <3>2. QED
      BY <1>7, <1>9, <2>1, <3>1
  <2>2. CASE x # fd
    BY <1>3, <1>5, <1>9, <2>2, EntryFacts
  <2>3. QED
    BY <2>1, <2>2
<1>11. ASSUME NEW q \in Proc, filesp[q] = f, reading'[q] # NO_FD
       PROVE  q \in Alive /\ u[reading'[q]].node = stdin
  <2>1. CASE q = p
    BY <1>1, <1>4, <1>7, <2>1 DEF IInv, TypeOK
  <2>2. CASE q # p
    <3>1. q \in Alive /\ reading'[q] = reading[q] /\ reading[q] \in Fd /\ q \in Readers(f, reading[q])
      BY <1>4, <1>11, <2>2 DEF IInv, ReadersReadStdin, TypeOK, Readers, Owners
    <3>2. t[reading[q]].node = stdin
      BY <1>3, <3>1, EntryFacts
    <3>3. u[reading[q]].node = t[reading[q]].node
      BY <1>5, <1>7, <3>1
    <3>4. QED
      BY <3>1, <3>2, <3>3
  <2>3. QED
    BY <2>1, <2>2
<1>12. /\ UNCHANGED <<life, filesp, orphans, lost>> /\ mm' \in [Proc -> BOOLEAN]
       /\ reading' \in [Proc -> Fd \cup {NO_FD}]
       /\ \A q \in Proc : filesp[q] # f => reading'[q] = reading[q]
  BY <1>1, <1>2, <1>4 DEF procVars, IInv, TypeOK
<1>13. SetTable(f, u)
  BY <1>4, <1>5
<1>14. QED
  BY <1>8, <1>10, <1>11, <1>12, <1>13, SetTableStep

\* A read that returns takes its reader and its count away; the last of a closed entry frees it.
LEMMA ReadStep ==
  ASSUME IInv, NEW p \in Proc, file_read(p)
  PROVE  IInv'
<1>1. /\ p \in Alive /\ reading[p] \in Fd /\ UNCHANGED <<procVars, orphans, lost>>
      /\ reading' = [reading EXCEPT ![p] = NO_FD]
  BY DEF file_read, IInv, ReadersReadStdin, TypeOK
<1>2. PICK f \in Tables : f = filesp[p]
  BY <1>1, TableFacts
<1>3. PICK t \in [Fd -> Entry] : t = files[f].fd_array
  BY <1>1, <1>2, TableFacts DEF fd_array
<1>4. PICK fd \in Fd : fd = reading[p]
  BY <1>1
<1>5. PICK u : u = [t EXCEPT ![fd] = fd_array_release(@)]
  OBVIOUS
<1>6. PICK r \in Nat \ {0} : r = Cardinality(Readers(f, fd))
  <2>1. p \in Readers(f, fd)
    BY <1>1, <1>2, <1>4 DEF Readers, Owners
  <2>2. QED
    BY <2>1, OwnersFinite
<1>7. /\ fd_array_release(t[fd]) \in Entry /\ Counted(fd_array_release(t[fd]), r - 1)
      /\ fd_array_release(t[fd]) = None \/ fd_array_release(t[fd]).node = t[fd].node
      /\ r > 1 => fd_array_release(t[fd]).node = t[fd].node
  <2>1. Counted(t[fd], r)
    BY <1>3, <1>6, EntryFacts
  <2>2. QED
    BY <2>1, ReleaseEntry
<1>8. u \in [Fd -> Entry] /\ Keeps(files[f].fd_array, u)
  BY <1>3, <1>5, <1>7 DEF Keeps
<1>9. /\ Readers(f, fd)' = Readers(f, fd) \ {p} /\ p \in Readers(f, fd)
      /\ \A x \in Fd : x # fd => Readers(f, x)' = Readers(f, x)
  BY <1>1, <1>2, <1>4, FileTableAssumption DEF Readers, Owners, Alive, procVars, IInv, TypeOK, Fd, NO_FD
<1>10. Cardinality(Readers(f, fd) \ {p}) = r - 1
  BY <1>6, <1>9, OwnersFinite, FS_RemoveElement
<1>11. ASSUME NEW x \in Fd PROVE Counted(u[x], Cardinality(Readers(f, x)'))
  <2>1. CASE x = fd
    BY <1>5, <1>7, <1>9, <1>10, <2>1
  <2>2. CASE x # fd
    BY <1>3, <1>5, <1>9, <2>2, EntryFacts
  <2>3. QED
    BY <2>1, <2>2
<1>12. ASSUME NEW q \in Proc, filesp[q] = f, reading'[q] # NO_FD
       PROVE  q \in Alive /\ u[reading'[q]].node = stdin
  <2>1. q # p
    BY <1>1, <1>12 DEF IInv, TypeOK
  <2>2. q \in Alive /\ reading'[q] = reading[q] /\ reading[q] \in Fd /\ q \in Readers(f, reading[q])
    BY <1>1, <1>12, <2>1 DEF IInv, ReadersReadStdin, TypeOK, Readers, Owners
  <2>3. t[reading[q]].node = stdin
    BY <1>3, <2>2, EntryFacts
  <2>4. CASE reading[q] = fd
    <3>1. q \in Readers(f, fd) \ {p} /\ IsFiniteSet(Readers(f, fd) \ {p})
      BY <2>1, <2>2, <2>4, OwnersFinite, FS_RemoveElement
    <3>2. r - 1 # 0
      BY <1>10, <3>1, FS_EmptySet
    <3>3. QED
      BY <1>5, <1>6, <1>7, <2>2, <2>3, <2>4, <3>2
  <2>5. CASE reading[q] # fd
    BY <1>5, <2>2, <2>3, <2>5
  <2>6. QED
    BY <2>4, <2>5
<1>13. /\ UNCHANGED <<life, filesp, orphans, lost>> /\ mm' \in [Proc -> BOOLEAN]
       /\ reading' \in [Proc -> Fd \cup {NO_FD}]
       /\ \A q \in Proc : filesp[q] # f => reading'[q] = reading[q]
  BY <1>1, <1>2 DEF procVars, IInv, TypeOK
<1>14. SetTable(f, u)
  BY <1>2, <1>3, <1>4, <1>5 DEF file_read, fd_array
<1>15. QED
  BY <1>8, <1>11, <1>12, <1>13, <1>14, SetTableStep

\* A process that changes its directory exchanges one reference for another.
LEMMA ChdirStep ==
  ASSUME IInv, NEW p \in Proc, NEW d \in Dir, vfs_chdir(p, d)
  PROVE  IInv'
<1>1. p \in Alive /\ UNCHANGED <<procVars, reading, open_count, orphans, lost>>
  BY DEF vfs_chdir, Callers, Running
<1>2. PICK f \in Tables : f = filesp[p]
  BY <1>1, TableFacts
<1>3. f \in Files /\ files[f] \in FilesStruct /\ files[f] # NULL
  BY DEF IInv, TypeOK, Tables
<1>4. PICK old \in Dir : old = files[f].pwd
  BY <1>3 DEF FilesStruct
<1>5. /\ d # old /\ files' = [files EXCEPT ![f].pwd = d]
      /\ ref_count' = [ref_count EXCEPT ![old] = @ - 1, ![d] = @ + 1]
  BY <1>2, <1>4 DEF vfs_chdir
<1>6. PICK s : s = [files[f] EXCEPT !.pwd = d]
  OBVIOUS
<1>7. /\ s \in FilesStruct /\ s # NULL /\ s.fd_array = files[f].fd_array /\ s.pwd = d
      /\ s.files_count = files[f].files_count
  BY <1>3, <1>6, FileTableAssumption DEF FilesStruct
<1>8. files' = [files EXCEPT ![f] = s] /\ files'[f] = s /\ \A g \in Files \ {f} : files'[g] = files[g]
  BY <1>3, <1>5, <1>6 DEF IInv, TypeOK
<1>9. ASSUME NEW n \in Inode
      PROVE  /\ EntriesAt(files', f, n) = EntriesAt(files, f, n) /\ EntriesAt(files, f, n) \in Nat
             /\ PwdAt(files, f, n) = One(n = old) /\ PwdAt(files', f, n) = One(n = d)
             /\ ref_count[n] \in Nat /\ open_count[n] \in Nat /\ lost[n] \in Nat
  BY <1>3, <1>4, <1>7, <1>8, EntriesType DEF EntriesAt, PwdAt, One, IInv, TypeOK
<1>10. open_count' = [n \in Inode |-> open_count[n] - EntriesAt(files, f, n)
                                                   + EntriesAt(files', f, n)]
  <2>1. \A n \in Inode : open_count[n] = open_count[n] - EntriesAt(files, f, n)
                                                   + EntriesAt(files', f, n)
    BY <1>9
  <2>2. open_count' = [n \in Inode |-> open_count[n]]
    BY <1>1 DEF IInv, TypeOK
  <2>3. QED
    BY <2>1, <2>2
<1>11. ref_count' = [n \in Inode |-> ref_count[n]
                      - EntriesAt(files, f, n) + EntriesAt(files', f, n)
                      - PwdAt(files, f, n) + PwdAt(files', f, n) + (lost'[n] - lost[n])]
  <2>1. ASSUME NEW n \in Inode
        PROVE  ref_count'[n] = ref_count[n]
                      - EntriesAt(files, f, n) + EntriesAt(files', f, n)
                      - PwdAt(files, f, n) + PwdAt(files', f, n) + (lost'[n] - lost[n])
    <3>1. ref_count'[n] = ref_count[n] - One(n = old) + One(n = d)
      BY <1>5, <1>9 DEF IInv, TypeOK, One, Inode
    <3>2. One(n = old) \in Nat /\ One(n = d) \in Nat /\ lost'[n] = lost[n]
      BY <1>1 DEF One
    <3>3. QED
      BY <1>9, <3>1, <3>2
  <2>2. ref_count' = [n \in Inode |-> ref_count'[n]]
    BY <1>5 DEF IInv, TypeOK
  <2>3. QED
    BY <2>1, <2>2
<1>12. lost' \in [Inode -> Nat] /\ \A n \in Inode : lost'[n] >= lost[n]
  BY <1>1, <1>9 DEF IInv, TypeOK
<1>13. /\ InodeCountsExact'
       /\ ref_count' \in [Inode -> Nat] /\ open_count' \in [Inode -> Nat]
  BY <1>3, <1>8, <1>10, <1>11, <1>12, InodesStep DEF IInv
<1>14. \A x, y : Readers(x, y)' = Readers(x, y)
  BY <1>1, SameReaders DEF procVars
<1>15. \A x \in Fd : Counted(s.fd_array[x], Cardinality(Readers(f, x)'))
  BY <1>7, <1>14, EntryFacts
<1>16. ASSUME NEW q \in Proc, filesp[q] = f, reading'[q] # NO_FD
       PROVE  q \in Alive /\ s.fd_array[reading'[q]].node = stdin
  BY <1>1, <1>7, <1>16 DEF IInv, ReadersReadStdin, fd_array
<1>17. TableChange(f, s)
  BY <1>1, <1>7, <1>8 DEF TableChange, procVars, IInv, TypeOK
<1>18. QED
  BY <1>7, <1>13, <1>15, <1>16, <1>17, TableStep

\* A failed exclusive open takes a reference that it forgets.
LEMMA ExistsStep ==
  ASSUME IInv, NEW p \in Proc, NEW m \in Inode, E_EXISTS(p, m)
  PROVE  IInv'
<1>1. /\ p \in Alive /\ UNCHANGED <<files, procVars, reading, open_count, orphans>>
      /\ ref_count' = [ref_count EXCEPT ![m] = @ + 1]
      /\ lost' = [lost EXCEPT ![m] = @ + 1]
  BY DEF E_EXISTS, Callers, Running
<1>2. \A n \in Inode : ref_count[n] \in Nat /\ lost[n] \in Nat
  BY DEF IInv, TypeOK
<1>3. ref_count' \in [Inode -> Nat] /\ lost' \in [Inode -> Nat] /\ open_count' \in [Inode -> Nat]
  BY <1>1 DEF IInv, TypeOK
<1>4. TypeOK'
  BY <1>1, <1>3 DEF IInv, TypeOK, procVars
<1>5. Alive' = Alive /\ Tables' = Tables /\ \A f : Owners(f)' = Owners(f)
  BY <1>1 DEF Alive, Tables, Owners, procVars
<1>6. \A x, y : Readers(x, y)' = Readers(x, y)
  BY <1>1, SameReaders DEF procVars
<1>7. EntryCounts' /\ TablesOwned' /\ ReadersReadStdin' /\ UnusedTables'
  BY <1>1, <1>5, <1>6 DEF IInv, EntryCounts, TablesOwned, ReadersReadStdin, UnusedTables,
     procVars, fd_array
<1>8. InodeCountsExact'
  <2>1. SUFFICES ASSUME NEW n \in Inode
        PROVE  /\ open_count'[n] = Users(n)'
               /\ ref_count'[n] = Users(n)' + Cardinality({f \in Tables : files[f].pwd = n})'
                                  + Kept(n) + lost'[n]
    BY DEF InodeCountsExact, Kept
  <2>2. /\ Users(n)' = Users(n)
        /\ Cardinality({f \in Tables : files[f].pwd = n})' = Cardinality({f \in Tables : files[f].pwd = n})
    BY <1>1 DEF Users, Tables
  <2>3. ref_count'[n] = ref_count[n] + One(n = m) /\ lost'[n] = lost[n] + One(n = m)
    BY <1>1, <1>2 DEF One, IInv, TypeOK
  <2>4. PICK k : k = Users(n) + Cardinality({f \in Tables : files[f].pwd = n}) + Kept(n)
    OBVIOUS
  <2>5. k \in Int
    <3>1. Users(n) = UsersOf(files, n) /\ Cardinality({f \in Tables : files[f].pwd = n}) = PwdsOf(files, n)
      BY DEF Users, UsersOf, Tables, TablesOf, PwdsOf
    <3>2. PICK f \in Files : TRUE
      BY <1>1, TableFacts
    <3>3. UsersOf(files, n) \in Nat /\ PwdsOf(files, n) \in Nat /\ Kept(n) \in Nat
      BY OneTableUsers, OneTablePwds DEF Kept, One
    <3>4. QED
      BY <2>4, <3>1, <3>3
  <2>6. open_count[n] = Users(n) /\ ref_count[n] = k + lost[n]
    BY <2>4 DEF IInv, InodeCountsExact
  <2>7. One(n = m) \in Nat
    BY DEF One
  <2>8. ref_count'[n] = k + lost'[n]
    BY <1>2, <2>3, <2>5, <2>6, <2>7
  <2>9. QED
    BY <1>1, <2>2, <2>4, <2>6, <2>8
<1>9. QED
  BY <1>4, <1>7, <1>8 DEF IInv

\* open and dup.
LEMMA OpenStep ==
  ASSUME IInv, NEW p \in Proc, NEW n \in Inode, NEW mode, file_open(p, n, mode)
  PROVE  IInv'
<1>1. PICK fd \in FreeFds(fd_array(p)) : NewEntry(p, fd, n)
  BY DEF file_open
<1>2. p \in Callers /\ Count(n) /\ UNCHANGED <<procVars, reading, orphans, lost>>
  BY DEF file_open
<1>3. QED
  BY <1>1, <1>2, NewEntryStep

(* dup keeps the invariant.                                                 *)
LEMMA DupStep ==
  ASSUME IInv, NEW p \in Proc, file_dup(p)
  PROVE  IInv'
<1>1. p \in Callers /\ UNCHANGED <<procVars, reading, orphans, lost>>
  BY DEF file_dup
<1>2. PICK fd1 \in OpenFds(p), fd2 \in FreeFds(fd_array(p)) :
         NewEntry(p, fd2, fd_array(p)[fd1].node) /\ Count(fd_array(p)[fd1].node)
  BY DEF file_dup
<1>3. PICK n : n = fd_array(p)[fd1].node
  OBVIOUS
<1>4. n \in Inode
  <2>1. fd_array(p) \in [Fd -> Entry] /\ fd1 \in Fd /\ fd_array(p)[fd1].status = "FD_OPENED"
    BY <1>1, TableFacts DEF OpenFds, Callers, Running
  <2>2. QED
    BY <1>3, <2>1 DEF Entry, None
<1>5. QED
  BY <1>1, <1>2, <1>3, <1>4, NewEntryStep

-----------------------------------------------------------------------------
(* exec, exit, fork and wait.                                              *)

\* Entries that may take the place of table f's: they count who reads there now.
KeptEntries(f, u) ==
    /\ u \in [Fd -> Entry] /\ Keeps(files[f].fd_array, u)
    /\ \A fd \in Fd : Counted(u[fd], Cardinality(Readers(f, fd)))
    /\ \A fd \in Fd : Readers(f, fd) # {} => u[fd].node = stdin

(* A table that does not change keeps its entries.                          *)
LEMMA SameEntries ==
  ASSUME IInv, NEW f \in Tables
  PROVE  KeptEntries(f, files[f].fd_array)
<1>1. files[f].fd_array \in [Fd -> Entry]
  BY DEF IInv, TypeOK, Tables, FilesStruct
<1>2. QED
  BY <1>1, EntryFacts DEF KeptEntries, Keeps

\* Closing all of them, or all but the first two, keeps those that are read.
LEMMA ClosedEntries ==
  ASSUME IInv, NEW f \in Tables, NEW from \in 0..2
  PROVE  LET u == CloseAll(files[f].fd_array, from) IN
         /\ KeptEntries(f, u)
         /\ from = 0 => \A fd \in Fd : Readers(f, fd) = {} => u[fd] = None
<1>1. PICK t \in [Fd -> Entry] : t = files[f].fd_array
  BY DEF IInv, TypeOK, Tables, FilesStruct
<1>2. PICK R \in [Fd -> Nat] : R = ReaderCounts(f) /\ AllCounted(t, R)
  BY <1>1, TableCounted
<1>3. PICK u : u = CloseAll(t, from)
  OBVIOUS
<1>4. /\ u \in [Fd -> Entry] /\ AllCounted(u, R) /\ Keeps(t, u)
      /\ \A fd \in Fd : R[fd] > 0 => u[fd].node = t[fd].node
      /\ from = 0 => \A fd \in Fd : R[fd] = 0 => u[fd] = None
  BY <1>2, <1>3, CloseMany
<1>5. ASSUME NEW fd \in Fd
      PROVE  /\ R[fd] = Cardinality(Readers(f, fd)) /\ R[fd] \in Nat
             /\ R[fd] > 0 <=> Readers(f, fd) # {}
             /\ Readers(f, fd) # {} => t[fd].node = stdin
  BY <1>1, <1>2, OwnersFinite, EntryFacts DEF ReaderCounts
<1>6. KeptEntries(f, u)
  BY <1>1, <1>4, <1>5 DEF KeptEntries, AllCounted
<1>7. ASSUME from = 0, NEW fd \in Fd, Readers(f, fd) = {} PROVE u[fd] = None
  <2>1. R[fd] = 0
    BY <1>5, <1>7
  <2>2. QED
    BY <1>4, <1>7, <2>1
<1>8. QED
  BY <1>1, <1>3, <1>6, <1>7

\* exec closes all but the first two descriptors.
LEMMA ExecStep ==
  ASSUME IInv, NEW p \in Alive, SetTable(filesp[p], files_closeall(fd_array(p))),
         mm' = [mm EXCEPT ![p] = TRUE], UNCHANGED <<filesp, life, reading, orphans, lost>>
  PROVE  IInv'
<1>1. PICK f \in Tables : f = filesp[p]
  BY TableFacts
<1>2. PICK u : u = CloseAll(files[f].fd_array, 2)
  OBVIOUS
<1>3. SetTable(f, u)
  BY <1>1, <1>2 DEF files_closeall, fd_array
<1>4. KeptEntries(f, u)
  BY <1>2, ClosedEntries
<1>5. \A fd \in Fd : Counted(u[fd], Cardinality(Readers(f, fd)'))
  BY <1>4, SameReaders DEF KeptEntries
<1>6. ASSUME NEW q \in Proc, filesp[q] = f, reading'[q] # NO_FD
      PROVE  q \in Alive /\ u[reading'[q]].node = stdin
  <2>1. q \in Alive /\ reading'[q] = reading[q] /\ reading[q] \in Fd /\ q \in Readers(f, reading[q])
    BY <1>6 DEF IInv, ReadersReadStdin, TypeOK, Readers, Owners
  <2>2. QED
    BY <1>4, <2>1 DEF KeptEntries
<1>7. u \in [Fd -> Entry] /\ Keeps(files[f].fd_array, u)
  BY <1>4 DEF KeptEntries
<1>8. /\ UNCHANGED <<life, filesp, orphans, lost>> /\ mm' \in [Proc -> BOOLEAN]
      /\ reading' \in [Proc -> Fd \cup {NO_FD}]
      /\ \A q \in Proc : filesp[q] # f => reading'[q] = reading[q]
  BY DEF IInv, TypeOK
<1>9. QED
  BY <1>3, <1>5, <1>6, <1>7, <1>8, SetTableStep

\* A step in which p dies and its table f becomes s.
ExitChange(p, f, s) ==
    /\ f = filesp[p] /\ files' = [files EXCEPT ![f] = s]
    /\ life' = [life EXCEPT ![p] = "zombie"] /\ mm' \in [Proc -> BOOLEAN]
    /\ orphans' \in [Files -> Nat] /\ \A g \in Files : g # f => orphans'[g] = orphans[g]
    /\ UNCHANGED <<filesp, reading, lost>>
\* The table goes with its last owner, or counts one owner less.
TableLeft(p, f, s) ==
    \/ s = NULL /\ Owners(f) = {p} /\ orphans'[f] = 0
    \/ /\ s \in FilesStruct /\ KeptEntries(f, s.fd_array)
       /\ s.files_count = Cardinality(Owners(f)) - 1 + orphans'[f]

\* A process that dies takes no reader with it and leaves the tables counted.
LEMMA ExitKeeps ==
  ASSUME IInv, NEW p \in Running, NEW f \in Tables, NEW s,
         ExitChange(p, f, s), TableLeft(p, f, s),
         InodeCountsExact', ref_count' \in [Inode -> Nat], open_count' \in [Inode -> Nat]
  PROVE  IInv'
<1>1. f \in Files /\ files[f] \in FilesStruct /\ files[f] # NULL /\ p \in Proc /\ p \in Alive
  BY DEF IInv, TypeOK, Tables, Running, Alive
<1>2. /\ files'[f] = s /\ s \in FilesStruct \cup {NULL}
      /\ \A g \in Files : g # f => files'[g] = files[g]
  BY <1>1 DEF ExitChange, TableLeft, IInv, TypeOK
<1>3. TypeOK'
  BY <1>2 DEF ExitChange, IInv, TypeOK
<1>4. Alive' = Alive \ {p}
  BY <1>1 DEF ExitChange, Alive, IInv, TypeOK
<1>5. /\ Owners(f)' = Owners(f) \ {p} /\ p \in Owners(f)
      /\ \A g : g # f => Owners(g)' = Owners(g)
  BY <1>1, <1>4 DEF ExitChange, Owners
<1>6. ASSUME NEW g, NEW fd \in Fd PROVE Readers(g, fd)' = Readers(g, fd)
  <2>1. reading[p] # fd
    BY FileTableAssumption DEF Running, Fd, NO_FD
  <2>2. QED
    BY <1>4, <2>1 DEF ExitChange, Readers, Owners
<1>7. ASSUME s = NULL, NEW q \in Alive' PROVE filesp[q] # f
  BY <1>1, <1>2, <1>4, <1>5, <1>7, FileTableAssumption DEF TableLeft, Owners
<1>8. EntryCounts'
  <2>1. SUFFICES ASSUME NEW g \in Tables', NEW fd \in Fd
                 PROVE  Counted(files'[g].fd_array[fd], Cardinality(Readers(g, fd)))
    BY <1>6 DEF EntryCounts, Counted
  <2>2. CASE g = f
    BY <1>2, <2>1, <2>2 DEF TableLeft, KeptEntries, Tables
  <2>3. CASE g # f
    BY <1>2, <2>3 DEF IInv, EntryCounts, Tables
  <2>4. QED
    BY <2>2, <2>3
<1>9. TablesOwned'
  <2>1. ASSUME NEW q \in Alive' PROVE filesp'[q] \in Tables'
    <3>1. filesp'[q] = filesp[q] /\ filesp[q] \in Tables
      BY <1>4 DEF ExitChange, IInv, TablesOwned
    <3>2. QED
      BY <1>2, <1>7, <3>1 DEF Tables
  <2>2. ASSUME NEW g \in Tables' PROVE files'[g].files_count = Cardinality(Owners(g)') + orphans'[g]
    <3>1. CASE g = f
      <4>1. Cardinality(Owners(f) \ {p}) = Cardinality(Owners(f)) - 1
        BY <1>5, OwnersFinite, FS_RemoveElement
      <4>2. s # NULL
        BY <1>2, <3>1 DEF Tables
      <4>3. s.files_count = Cardinality(Owners(f)) - 1 + orphans'[f]
        BY <4>2 DEF TableLeft
      <4>4. QED
        BY <1>2, <1>5, <3>1, <4>1, <4>3
    <3>2. CASE g # f
      BY <1>2, <1>5, <3>2 DEF ExitChange, IInv, TablesOwned, Tables
    <3>3. QED
      BY <3>1, <3>2
  <2>3. QED
    BY <2>1, <2>2 DEF TablesOwned
<1>10. ReadersReadStdin'
  <2>1. SUFFICES ASSUME NEW q \in Proc, reading[q] # NO_FD
                 PROVE  q \in Alive' /\ files'[filesp[q]].fd_array[reading[q]].node = stdin
    BY DEF ReadersReadStdin, fd_array, ExitChange
  <2>2. /\ q \in Alive /\ q \in Alive' /\ reading[q] \in Fd /\ filesp[q] \in Tables
        /\ fd_array(q)[reading[q]].node = stdin
    BY <1>4, <2>1 DEF IInv, ReadersReadStdin, TypeOK, TablesOwned, Running
  <2>3. CASE filesp[q] = f
    <3>1. s # NULL
      BY <1>7, <2>2, <2>3
    <3>2. q \in Readers(f, reading[q])
      BY <2>2, <2>3 DEF Readers, Owners
    <3>3. s.fd_array[reading[q]].node = stdin
      BY <2>2, <3>1, <3>2 DEF TableLeft, KeptEntries
    <3>4. QED
      BY <1>2, <2>2, <2>3, <3>3
  <2>4. CASE filesp[q] # f
    BY <1>2, <2>2, <2>4 DEF fd_array, Tables
  <2>5. QED
    BY <2>3, <2>4
<1>11. UnusedTables'
  <2>1. SUFFICES ASSUME NEW g \in Files, files'[g] = NULL PROVE orphans'[g] = 0
    BY DEF UnusedTables
  <2>2. CASE g = f
    BY <1>2, <2>1, <2>2, FileTableAssumption DEF TableLeft
  <2>3. CASE g # f
    BY <1>2, <2>1, <2>3 DEF ExitChange, IInv, UnusedTables
  <2>4. QED
    BY <2>2, <2>3
<1>12. QED
  BY <1>3, <1>8, <1>9, <1>10, <1>11 DEF IInv

\* What of do_exit does not depend on the table.
Dies(p) == /\ life' = [life EXCEPT ![p] = "zombie"] /\ mm' = [mm EXCEPT ![p] = FALSE]
           /\ UNCHANGED <<filesp, reading, lost>>

\* A process without an address space leaves its table behind, counted as an orphan.
LEMMA LeaveStep ==
  ASSUME IInv, NEW p \in Running, NEW t, KeptEntries(filesp[p], t), LeaveFiles(filesp[p], t), Dies(p)
  PROVE  IInv'
<1>1. PICK f \in Tables : f = filesp[p]
  BY TableFacts DEF Running
<1>2. f \in Files /\ files[f] \in FilesStruct
  BY DEF IInv, TypeOK, Tables
<1>3. /\ t \in [Fd -> Entry] /\ Keeps(files[f].fd_array, t) /\ SetTable(f, t)
      /\ orphans' = [orphans EXCEPT ![f] = @ + 1] /\ lost' = lost
  BY <1>1 DEF KeptEntries, LeaveFiles, Dies
<1>4. /\ InodeCountsExact'
      /\ ref_count' \in [Inode -> Nat] /\ open_count' \in [Inode -> Nat]
  BY <1>3, SetTableInodes
<1>5. PICK s : s = [files[f] EXCEPT !.fd_array = t]
  OBVIOUS
<1>6. files' = [files EXCEPT ![f] = s] /\ s \in FilesStruct /\ s.fd_array = t
      /\ s.files_count = files[f].files_count
  BY <1>2, <1>3, <1>5 DEF SetTable, FilesStruct
<1>7. ExitChange(p, f, s)
  <2>1. orphans' \in [Files -> Nat] /\ \A g \in Files : g # f => orphans'[g] = orphans[g]
    BY <1>2, <1>3 DEF IInv, TypeOK
  <2>2. mm' \in [Proc -> BOOLEAN]
    BY DEF Dies, IInv, TypeOK
  <2>3. QED
    BY <1>1, <1>6, <2>1, <2>2 DEF ExitChange, Dies
<1>8. TableLeft(p, f, s)
  <2>1. files[f].files_count = Cardinality(Owners(f)) + orphans[f]
    BY DEF IInv, TablesOwned
  <2>2. orphans[f] \in Nat /\ orphans'[f] = orphans[f] + 1 /\ Cardinality(Owners(f)) \in Nat
    BY <1>2, <1>3, OwnersFinite DEF IInv, TypeOK
  <2>3. s.files_count = Cardinality(Owners(f)) - 1 + orphans'[f]
    BY <1>6, <2>1, <2>2
  <2>4. QED
    BY <1>1, <1>6, <2>3 DEF TableLeft
<1>9. QED
  BY <1>4, <1>7, <1>8, ExitKeeps

\* The last count is the last owner's, and nobody reads through the table.
LEMMA LastOwner ==
  ASSUME IInv, NEW p \in Running, NEW f \in Tables, f = filesp[p], files[f].files_count = 1
  PROVE  Owners(f) = {p} /\ orphans[f] = 0 /\ \A fd \in Fd : Readers(f, fd) = {}
<1>1. p \in Owners(f)
  BY DEF Owners, Running
<1>2. /\ orphans[f] \in Nat /\ Cardinality(Owners(f)) \in Nat
      /\ Cardinality(Owners(f)) + orphans[f] = 1
  BY OwnersFinite DEF IInv, TypeOK, TablesOwned, Tables
<1>3. IsFiniteSet(Owners(f)) /\ Cardinality(Owners(f) \ {p}) = Cardinality(Owners(f)) - 1
  BY <1>1, OwnersFinite, FS_RemoveElement
<1>4. IsFiniteSet(Owners(f) \ {p}) /\ Cardinality(Owners(f) \ {p}) \in Nat
  BY <1>3, FS_Subset, FS_CardinalityType
<1>5. Cardinality(Owners(f) \ {p}) = 0 /\ orphans[f] = 0
  BY <1>2, <1>3, <1>4
<1>6. Owners(f) \ {p} = {}
  BY <1>4, <1>5, FS_EmptySet
<1>7. Owners(f) = {p}
  BY <1>1, <1>6
<1>8. \A fd \in Fd : Readers(f, fd) = {}
  BY <1>7, FileTableAssumption DEF Readers, Running, Fd, NO_FD
<1>9. QED
  BY <1>5, <1>7, <1>8

\* put_files that is not the last takes the process off the table.
LEMMA PutShared ==
  ASSUME IInv, NEW p \in Running, NEW t, KeptEntries(filesp[p], t), PutFiles(filesp[p], t),
         Dies(p), orphans' = orphans, files[filesp[p]].files_count # 1
  PROVE  IInv'
<1>1. PICK f \in Tables : f = filesp[p]
  BY TableFacts DEF Running
<1>2. f \in Files /\ files[f] \in FilesStruct /\ files[f] # NULL
  BY DEF IInv, TypeOK, Tables
<1>3. t \in [Fd -> Entry] /\ Keeps(files[f].fd_array, t)
  BY <1>1 DEF KeptEntries
<1>4. PICK s : s = [files[f] EXCEPT !.files_count = @ - 1, !.fd_array = t]
  OBVIOUS
<1>5. /\ s \in FilesStruct /\ s.fd_array = t /\ s.pwd = files[f].pwd /\ s # NULL
      /\ s.files_count = files[f].files_count - 1
  <2>1. files[f].files_count \in Nat \ {0} /\ files[f].files_count # 1
    BY <1>1, <1>2 DEF FilesStruct
  <2>2. s = [pwd |-> files[f].pwd, files_count |-> files[f].files_count - 1, fd_array |-> t]
    BY <1>2, <1>4 DEF FilesStruct
  <2>3. files[f].files_count - 1 \in Nat \ {0} /\ files[f].pwd \in Dir
    BY <1>2, <2>1 DEF FilesStruct
  <2>4. s \in FilesStruct
    BY <1>3, <2>2, <2>3 DEF FilesStruct
  <2>5. QED
    BY <2>2, <2>4, FileTableAssumption
<1>6. /\ files' = [files EXCEPT ![f] = s] /\ files'[f] = s
      /\ \A g \in Files \ {f} : files'[g] = files[g]
  BY <1>1, <1>2, <1>4 DEF PutFiles, IInv, TypeOK
<1>7. /\ ref_count' = [n \in Inode |-> ref_count[n] - vfs_close(files[f].fd_array, t, n)
                                       - One(FALSE)]
      /\ open_count' = [n \in Inode |-> open_count[n] - vfs_close(files[f].fd_array, t, n)]
  BY <1>1 DEF PutFiles
<1>8. ASSUME NEW n \in Inode
      PROVE  /\ EntriesAt(files, f, n) \in Nat /\ EntriesAt(files', f, n) \in Nat
             /\ PwdAt(files', f, n) = PwdAt(files, f, n) /\ PwdAt(files, f, n) \in Nat
             /\ vfs_close(files[f].fd_array, t, n) \in Nat
             /\ EntriesAt(files', f, n) = EntriesAt(files, f, n) - vfs_close(files[f].fd_array, t, n)
             /\ ref_count[n] \in Nat /\ open_count[n] \in Nat /\ lost[n] \in Nat /\ lost'[n] = lost[n]
  <2>1. /\ EntriesAt(files, f, n) = Entries(files[f].fd_array, n)
        /\ EntriesAt(files', f, n) = Entries(t, n)
    BY <1>2, <1>5, <1>6 DEF EntriesAt
  <2>2. PwdAt(files', f, n) = PwdAt(files, f, n) /\ PwdAt(files, f, n) \in Nat
    BY <1>2, <1>5, <1>6 DEF PwdAt, One
  <2>3. files[f].fd_array \in [Fd -> Entry]
    BY <1>2 DEF FilesStruct
  <2>4. QED
    BY <1>3, <2>1, <2>2, <2>3, EntriesKept DEF IInv, TypeOK, Dies
<1>9. open_count' = [n \in Inode |-> open_count[n] - EntriesAt(files, f, n)
                                                  + EntriesAt(files', f, n)]
  <2>1. \A n \in Inode : open_count[n] - vfs_close(files[f].fd_array, t, n) =
           open_count[n] - EntriesAt(files, f, n) + EntriesAt(files', f, n)
    BY <1>8
  <2>2. QED
    BY <1>7, <2>1
<1>10. ref_count' = [n \in Inode |-> ref_count[n]
                      - EntriesAt(files, f, n) + EntriesAt(files', f, n)
                      - PwdAt(files, f, n) + PwdAt(files', f, n) + (lost'[n] - lost[n])]
  <2>1. \A n \in Inode : ref_count[n] - vfs_close(files[f].fd_array, t, n) - One(FALSE) =
           ref_count[n] - EntriesAt(files, f, n) + EntriesAt(files', f, n)
              - PwdAt(files, f, n) + PwdAt(files', f, n) + (lost'[n] - lost[n])
    BY <1>8 DEF One
  <2>2. QED
    BY <1>7, <2>1
<1>11. /\ lost' \in [Inode -> Nat] /\ \A n \in Inode : lost'[n] >= lost[n]
       /\ TypeOK /\ InodeCountsExact
  BY <1>8 DEF IInv, TypeOK, Dies
<1>12. /\ InodeCountsExact'
       /\ ref_count' \in [Inode -> Nat] /\ open_count' \in [Inode -> Nat]
  BY <1>2, <1>6, <1>9, <1>10, <1>11, InodesStep
<1>13. ExitChange(p, f, s)
  BY <1>1, <1>2, <1>6 DEF ExitChange, Dies, IInv, TypeOK
<1>14. TableLeft(p, f, s)
  <2>1. /\ files[f].files_count = Cardinality(Owners(f)) + orphans[f]
        /\ orphans[f] \in Nat /\ Cardinality(Owners(f)) \in Nat
    BY <1>2, OwnersFinite DEF IInv, TypeOK, TablesOwned
  <2>2. s.files_count = Cardinality(Owners(f)) - 1 + orphans'[f]
    BY <1>5, <2>1
  <2>3. QED
    BY <1>1, <1>5, <2>2 DEF TableLeft
<1>15. QED
  BY <1>12, <1>13, <1>14, ExitKeeps

\* The last put_files closes every descriptor and drops the directory.
LEMMA PutLast ==
  ASSUME IInv, NEW p \in Running, NEW t, KeptEntries(filesp[p], t), PutFiles(filesp[p], t),
         Dies(p), orphans' = orphans, files[filesp[p]].files_count = 1
  PROVE  IInv'
<1>1. PICK f \in Tables : f = filesp[p]
  BY TableFacts DEF Running
<1>2. f \in Files /\ files[f] \in FilesStruct /\ files[f] # NULL
  BY DEF IInv, TypeOK, Tables
<1>3. Owners(f) = {p} /\ orphans[f] = 0 /\ \A fd \in Fd : Readers(f, fd) = {}
  BY <1>1, LastOwner
<1>4. PICK old \in [Fd -> Entry] : old = files[f].fd_array
  BY <1>2 DEF FilesStruct
<1>5. PICK u : u = CloseAll(t, 0)
  OBVIOUS
<1>6. u \in [Fd -> Entry] /\ \A fd \in Fd : u[fd] = None
  <2> DEFINE R == [fd \in Fd |-> 0]
  <2>1. t \in [Fd -> Entry] /\ R \in [Fd -> Nat]
    BY DEF KeptEntries
  <2>2. AllCounted(t, R)
    BY <1>1, <1>3, FS_EmptySet DEF KeptEntries, AllCounted
  <2>3. QED
    BY <1>5, <2>1, <2>2, CloseMany
<1>7. /\ files' = [files EXCEPT ![f] = NULL] /\ files'[f] = NULL
      /\ \A g \in Files \ {f} : files'[g] = files[g]
  BY <1>1, <1>2 DEF PutFiles, IInv, TypeOK
<1>8. /\ ref_count' = [n \in Inode |-> ref_count[n] - vfs_close(old, u, n) - One(files[f].pwd = n)]
      /\ open_count' = [n \in Inode |-> open_count[n] - vfs_close(old, u, n)]
  BY <1>1, <1>4, <1>5 DEF PutFiles
<1>9. ASSUME NEW n \in Inode
      PROVE  /\ EntriesAt(files, f, n) \in Nat /\ EntriesAt(files', f, n) = 0
             /\ PwdAt(files, f, n) = One(files[f].pwd = n) /\ PwdAt(files', f, n) = 0
             /\ PwdAt(files, f, n) \in Nat
             /\ vfs_close(old, u, n) = EntriesAt(files, f, n)
             /\ ref_count[n] \in Nat /\ open_count[n] \in Nat /\ lost[n] \in Nat /\ lost'[n] = lost[n]
  <2>1. EntriesAt(files, f, n) = Entries(old, n) /\ EntriesAt(files', f, n) = 0
    BY <1>2, <1>4, <1>7 DEF EntriesAt
  <2>2. Freed(old, u, n) = {fd \in Fd : old[fd].node = n}
    BY <1>6, FileTableAssumption DEF Freed, None
  <2>3. vfs_close(old, u, n) = Entries(old, n)
    BY <2>2 DEF vfs_close, Entries
  <2>4. PwdAt(files, f, n) = One(files[f].pwd = n) /\ PwdAt(files', f, n) = 0
    BY <1>2, <1>7 DEF PwdAt, One
  <2>5. Entries(old, n) \in Nat /\ One(files[f].pwd = n) \in Nat
    BY EntriesType DEF One
  <2>6. ref_count[n] \in Nat /\ open_count[n] \in Nat /\ lost[n] \in Nat /\ lost'[n] = lost[n]
    BY DEF IInv, TypeOK, Dies
  <2>7. QED
    BY <2>1, <2>3, <2>4, <2>5, <2>6
<1>10. open_count' = [n \in Inode |-> open_count[n] - EntriesAt(files, f, n)
                                                   + EntriesAt(files', f, n)]
  <2>1. \A n \in Inode : open_count[n] - vfs_close(old, u, n) =
           open_count[n] - EntriesAt(files, f, n) + EntriesAt(files', f, n)
    BY <1>9
  <2>2. QED
    BY <1>8, <2>1
<1>11. ref_count' = [n \in Inode |-> ref_count[n]
                      - EntriesAt(files, f, n) + EntriesAt(files', f, n)
                      - PwdAt(files, f, n) + PwdAt(files', f, n) + (lost'[n] - lost[n])]
  <2>1. \A n \in Inode : ref_count[n] - vfs_close(old, u, n) - One(files[f].pwd = n) =
           ref_count[n] - EntriesAt(files, f, n) + EntriesAt(files', f, n)
              - PwdAt(files, f, n) + PwdAt(files', f, n) + (lost'[n] - lost[n])
    BY <1>9
  <2>2. QED
    BY <1>8, <2>1
<1>12. /\ lost' \in [Inode -> Nat] /\ \A n \in Inode : lost'[n] >= lost[n]
       /\ TypeOK /\ InodeCountsExact
  BY <1>9 DEF IInv, TypeOK, Dies
<1>13. /\ InodeCountsExact'
       /\ ref_count' \in [Inode -> Nat] /\ open_count' \in [Inode -> Nat]
  BY <1>2, <1>7, <1>10, <1>11, <1>12, InodesStep
<1>14. ExitChange(p, f, NULL)
  BY <1>1, <1>2, <1>7 DEF ExitChange, Dies, IInv, TypeOK
<1>15. TableLeft(p, f, NULL)
  BY <1>3 DEF TableLeft
<1>16. QED
  BY <1>13, <1>14, <1>15, ExitKeeps

\* Every way to die keeps the invariant.
LEMMA ExitStep ==
  ASSUME IInv, NEW p \in Running, NEW t, KeptEntries(filesp[p], t), NEW has_mm, Exit(p, t, has_mm)
  PROVE  IInv'
<1>1. Dies(p)
  BY DEF Exit, Dies
<1>2. CASE has_mm
  <2>1. PutFiles(filesp[p], t) /\ orphans' = orphans
    BY <1>2 DEF Exit
  <2>2. QED
    BY <1>1, <2>1, PutShared, PutLast
<1>3. CASE ~has_mm
  <2>1. LeaveFiles(filesp[p], t)
    BY <1>3 DEF Exit
  <2>2. QED
    BY <1>1, <2>1, LeaveStep
<1>4. QED
  BY <1>2, <1>3

(* exit keeps the invariant.                                                *)
LEMMA DoExitStep ==
  ASSUME IInv, NEW p \in Proc, do_exit(p)
  PROVE  IInv'
<1>1. p \in Running /\ Exit(p, fd_array(p), mm[p])
  BY DEF do_exit
<1>2. KeptEntries(filesp[p], fd_array(p))
  BY <1>1, TableFacts, SameEntries DEF Running, fd_array
<1>3. QED
  BY <1>1, <1>2, ExitStep

(* exec keeps the invariant.                                                *)
LEMMA DoExecveStep ==
  ASSUME IInv, NEW p \in Proc, do_execve(p)
  PROVE  IInv'
<1>1. p \in Running /\ p \in Alive
  BY DEF do_execve, Running
<1>2. PICK t : t = files_closeall(fd_array(p))
  OBVIOUS
<1>3. KeptEntries(filesp[p], t)
  BY <1>1, <1>2, TableFacts, ClosedEntries DEF files_closeall, fd_array
<1>4. \/ /\ SetTable(filesp[p], t) /\ mm' = [mm EXCEPT ![p] = TRUE]
         /\ UNCHANGED <<filesp, life, reading, orphans, lost>>
      \/ Exit(p, t, mm[p])
      \/ Exit(p, t, FALSE)
  BY <1>2 DEF do_execve
<1>5. QED
  BY <1>1, <1>2, <1>3, <1>4, ExecStep, ExitStep

\* A step in which q is born with table f, which becomes s.
ForkChange(q, f, s) ==
    /\ life[q] = "free" /\ life' = [life EXCEPT ![q] = "alive"]
    /\ files' = [files EXCEPT ![f] = s] /\ filesp' = [filesp EXCEPT ![q] = f]
    /\ mm' \in [Proc -> BOOLEAN] /\ UNCHANGED <<reading, orphans, lost>>
\* The table counts one owner more and its readers as before.
TableJoined(f, s) ==
    /\ s \in FilesStruct
    /\ s.files_count = Cardinality(Owners(f)) + 1 + orphans[f]
    /\ \A fd \in Fd : Counted(s.fd_array[fd], Cardinality(Readers(f, fd)))
    /\ \A fd \in Fd : Readers(f, fd) # {} => s.fd_array[fd].node = stdin

\* A process that is born reads nothing and is counted by its table.
LEMMA ForkKeeps ==
  ASSUME IInv, NEW q \in Proc, NEW f \in Files, NEW s,
         ForkChange(q, f, s), TableJoined(f, s),
         InodeCountsExact', ref_count' \in [Inode -> Nat], open_count' \in [Inode -> Nat]
  PROVE  IInv'
<1>1. /\ files'[f] = s /\ s \in FilesStruct /\ s # NULL
      /\ \A g \in Files : g # f => files'[g] = files[g]
  BY FileTableAssumption DEF ForkChange, TableJoined, IInv, TypeOK
<1>2. TypeOK'
  BY <1>1 DEF ForkChange, IInv, TypeOK
<1>3. Alive' = Alive \cup {q} /\ q \notin Alive
  BY DEF ForkChange, Alive, IInv, TypeOK
<1>4. reading[q] = NO_FD
  BY <1>3 DEF IInv, ReadersReadStdin
<1>5. filesp'[q] = f /\ \A x \in Proc : x # q => filesp'[x] = filesp[x]
  BY DEF ForkChange, IInv, TypeOK
<1>6. /\ Owners(f)' = Owners(f) \cup {q} /\ q \notin Owners(f)
      /\ \A g : g # f => Owners(g)' = Owners(g)
  BY <1>3, <1>5 DEF Owners, Alive
<1>7. ASSUME NEW g, NEW fd \in Fd PROVE Readers(g, fd)' = Readers(g, fd)
  <2>1. reading[q] # fd /\ reading' = reading
    BY <1>4, FileTableAssumption DEF Fd, NO_FD, ForkChange
  <2>2. Owners(g) \subseteq Owners(g)' /\ Owners(g)' \subseteq Owners(g) \cup {q}
    BY <1>6
  <2>3. QED
    BY <2>1, <2>2 DEF Readers
<1>8. EntryCounts'
  <2>1. SUFFICES ASSUME NEW g \in Tables', NEW fd \in Fd
                 PROVE  Counted(files'[g].fd_array[fd], Cardinality(Readers(g, fd)))
    BY <1>7 DEF EntryCounts, Counted
  <2>2. CASE g = f
    BY <1>1, <2>2 DEF TableJoined
  <2>3. CASE g # f
    BY <1>1, <2>3 DEF IInv, EntryCounts, Tables
  <2>4. QED
    BY <2>2, <2>3
<1>9. TablesOwned'
  <2>1. ASSUME NEW x \in Alive' PROVE filesp'[x] \in Tables'
    <3>1. CASE x = q
      BY <1>1, <1>5, <3>1 DEF Tables
    <3>2. CASE x # q
      <4>1. x \in Alive /\ filesp'[x] = filesp[x] /\ filesp[x] \in Tables
        BY <1>3, <1>5, <3>2 DEF IInv, TablesOwned, Alive
      <4>2. QED
        BY <1>1, <4>1 DEF Tables
    <3>3. QED
      BY <3>1, <3>2
  <2>2. ASSUME NEW g \in Tables' PROVE files'[g].files_count = Cardinality(Owners(g)') + orphans'[g]
    <3>1. CASE g = f
      <4>1. Cardinality(Owners(f) \cup {q}) = Cardinality(Owners(f)) + 1
        BY <1>6, OwnersFinite, FS_AddElement
      <4>2. s.files_count = Cardinality(Owners(f)) + 1 + orphans[f]
        BY DEF TableJoined
      <4>3. QED
        BY <1>1, <1>6, <3>1, <4>1, <4>2 DEF ForkChange
    <3>2. CASE g # f
      BY <1>1, <1>6, <3>2 DEF ForkChange, IInv, TablesOwned, Tables
    <3>3. QED
      BY <3>1, <3>2
  <2>3. QED
    BY <2>1, <2>2 DEF TablesOwned
<1>10. ReadersReadStdin'
  <2>1. SUFFICES ASSUME NEW x \in Proc, reading[x] # NO_FD
                 PROVE  x \in Alive' /\ files'[filesp'[x]].fd_array[reading[x]].node = stdin
    BY DEF ReadersReadStdin, fd_array, ForkChange
  <2>2. /\ x \in Alive /\ x \in Alive' /\ reading[x] \in Fd /\ filesp'[x] = filesp[x]
        /\ fd_array(x)[reading[x]].node = stdin /\ filesp[x] \in Tables
    BY <1>3, <1>4, <1>5, <2>1 DEF IInv, ReadersReadStdin, TypeOK, TablesOwned
  <2>3. CASE filesp[x] = f
    <3>1. x \in Readers(f, reading[x])
      BY <2>2, <2>3 DEF Readers, Owners
    <3>2. s.fd_array[reading[x]].node = stdin
      BY <2>2, <3>1 DEF TableJoined
    <3>3. QED
      BY <1>1, <2>2, <2>3, <3>2
  <2>4. CASE filesp[x] # f
    BY <1>1, <2>2, <2>4 DEF fd_array, Tables
  <2>5. QED
    BY <2>3, <2>4
<1>11. UnusedTables'
  BY <1>1 DEF ForkChange, IInv, UnusedTables
<1>12. QED
  BY <1>2, <1>8, <1>9, <1>10, <1>11 DEF IInv

\* What of do_fork does not depend on the table.
Born(p, q) == /\ life[q] = "free" /\ life' = [life EXCEPT ![q] = "alive"]
              /\ mm' = [mm EXCEPT ![q] = mm[p]]
              /\ UNCHANGED <<reading, orphans, lost>>

\* A child's own copy of the table has the parent's open entries, each with one count.
LEMMA CopyFacts ==
  ASSUME NEW s \in FilesStruct
  PROVE  /\ dup_files(s) \in FilesStruct /\ dup_files(s).files_count = 1
         /\ dup_files(s).pwd = s.pwd
         /\ \A fd \in Fd : Counted(dup_files(s).fd_array[fd], 0)
<1>1. PICK t : t = [fd \in Fd |-> IF s.fd_array[fd].status = "FD_OPENED"
                                  THEN fd_array_open(s.fd_array[fd].node) ELSE None]
  OBVIOUS
<1>2. \A fd \in Fd : t[fd] \in Entry /\ Counted(t[fd], 0)
  <2>1. SUFFICES ASSUME NEW fd \in Fd PROVE t[fd] \in Entry /\ Counted(t[fd], 0)
    OBVIOUS
  <2>2. s.fd_array[fd] \in Entry
    BY DEF FilesStruct
  <2>3. QED
    BY <1>1, <2>2 DEF Entry, None, fd_array_open, Counted, One
<1>3. t \in [Fd -> Entry]
  BY <1>1, <1>2
<1>4. dup_files(s) = [s EXCEPT !.files_count = 1, !.fd_array = t]
  BY <1>1 DEF dup_files
<1>5. dup_files(s) = [pwd |-> s.pwd, files_count |-> 1, fd_array |-> t]
  BY <1>4 DEF FilesStruct
<1>6. QED
  BY <1>2, <1>3, <1>5 DEF FilesStruct

\* A copied table is new, and takes the counts of its entries and its directory.
LEMMA CopyStep ==
  ASSUME IInv, NEW p \in Running, NEW q \in Proc, CopyFiles(p, q), Born(p, q)
  PROVE  IInv'
<1>1. PICK s \in FilesStruct : s = dup_files(files[filesp[p]])
  BY TableFacts, CopyFacts DEF Running
<1>2. PICK f \in Files :
         /\ files[f] = NULL
         /\ files' = [files EXCEPT ![f] = s]
         /\ filesp' = [filesp EXCEPT ![q] = f]
         /\ ref_count' = [n \in Inode |-> ref_count[n] + Entries(s.fd_array, n) + One(n = s.pwd)]
         /\ open_count' = [n \in Inode |-> open_count[n] + Entries(s.fd_array, n)]
  BY <1>1 DEF CopyFiles
<1>3. s.files_count = 1 /\ \A fd \in Fd : Counted(s.fd_array[fd], 0)
  BY <1>1, TableFacts, CopyFacts DEF Running
<1>4. /\ files'[f] = s /\ s # NULL /\ \A g \in Files \ {f} : files'[g] = files[g]
  BY <1>2, FileTableAssumption DEF IInv, TypeOK
<1>5. Owners(f) = {} /\ orphans[f] = 0
  BY <1>2 DEF IInv, TablesOwned, UnusedTables, Owners, Tables
<1>6. Cardinality(Owners(f)) = 0 /\ \A fd \in Fd : Readers(f, fd) = {} /\ Cardinality(Readers(f, fd)) = 0
  BY <1>5, FS_EmptySet DEF Readers
<1>7. TableJoined(f, s)
  BY <1>3, <1>5, <1>6 DEF TableJoined
<1>8. ForkChange(q, f, s)
  BY <1>2 DEF Born, ForkChange, Running, Alive, IInv, TypeOK
<1>9. ASSUME NEW n \in Inode
      PROVE  /\ EntriesAt(files, f, n) = 0 /\ EntriesAt(files', f, n) = Entries(s.fd_array, n)
             /\ PwdAt(files, f, n) = 0 /\ PwdAt(files', f, n) = One(n = s.pwd)
             /\ Entries(s.fd_array, n) \in Nat /\ One(n = s.pwd) \in Nat
             /\ ref_count[n] \in Nat /\ open_count[n] \in Nat /\ lost[n] \in Nat /\ lost'[n] = lost[n]
  <2>1. EntriesAt(files, f, n) = 0 /\ EntriesAt(files', f, n) = Entries(s.fd_array, n)
    BY <1>2, <1>4 DEF EntriesAt
  <2>2. PwdAt(files, f, n) = 0 /\ PwdAt(files', f, n) = One(n = s.pwd)
    BY <1>2, <1>4 DEF PwdAt, One
  <2>3. QED
    BY <2>1, <2>2, EntriesType DEF One, IInv, TypeOK, Born
<1>10. open_count' = [n \in Inode |-> open_count[n] - EntriesAt(files, f, n)
                                                   + EntriesAt(files', f, n)]
  <2>1. \A n \in Inode : open_count[n] + Entries(s.fd_array, n) =
           open_count[n] - EntriesAt(files, f, n) + EntriesAt(files', f, n)
    BY <1>9
  <2>2. QED
    BY <1>2, <2>1
<1>11. ref_count' = [n \in Inode |-> ref_count[n]
                      - EntriesAt(files, f, n) + EntriesAt(files', f, n)
                      - PwdAt(files, f, n) + PwdAt(files', f, n) + (lost'[n] - lost[n])]
  <2>1. \A n \in Inode : ref_count[n] + Entries(s.fd_array, n) + One(n = s.pwd) =
           ref_count[n] - EntriesAt(files, f, n) + EntriesAt(files', f, n)
              - PwdAt(files, f, n) + PwdAt(files', f, n) + (lost'[n] - lost[n])
    BY <1>9
  <2>2. QED
    BY <1>2, <2>1
<1>12. /\ lost' \in [Inode -> Nat] /\ \A n \in Inode : lost'[n] >= lost[n]
       /\ TypeOK /\ InodeCountsExact
  BY <1>9 DEF IInv, TypeOK, Born
<1>13. /\ InodeCountsExact'
       /\ ref_count' \in [Inode -> Nat] /\ open_count' \in [Inode -> Nat]
  BY <1>4, <1>10, <1>11, <1>12, InodesStep
<1>14. QED
  BY <1>7, <1>8, <1>13, ForkKeeps

(* fork keeps the invariant.                                                *)
LEMMA DoForkStep ==
  ASSUME IInv, NEW p \in Proc, NEW q \in Proc, do_fork(p, q)
  PROVE  IInv'
<1>1. p \in Running /\ Born(p, q) /\ CopyFiles(p, q)
  BY DEF do_fork, Born
<1>2. QED
  BY <1>1, CopyStep

\* A zombie owns no table.
LEMMA DoWaitStep ==
  ASSUME IInv, NEW q \in Proc, do_wait(q)
  PROVE  IInv'
<1>1. /\ q \notin Alive /\ Alive' = Alive
      /\ UNCHANGED <<files, mm, reading, countVars, orphans, lost>>
      /\ \A p \in Alive : filesp'[p] = filesp[p]
  BY DEF do_wait, Alive, IInv, TypeOK
<1>2. TypeOK'
  BY <1>1 DEF do_wait, IInv, TypeOK, countVars
<1>3. Tables' = Tables /\ \A f : Owners(f)' = Owners(f)
  BY <1>1 DEF Tables, Owners
<1>4. \A f, fd : Readers(f, fd)' = Readers(f, fd)
  BY <1>1, <1>3 DEF Readers
<1>5. EntryCounts'
  BY <1>1, <1>3, <1>4 DEF IInv, EntryCounts
<1>6. TablesOwned'
  BY <1>1, <1>3 DEF IInv, TablesOwned
<1>7. InodeCountsExact'
  BY <1>1, <1>3 DEF IInv, InodeCountsExact, Users, Kept, countVars
<1>8. ReadersReadStdin' /\ UnusedTables'
  BY <1>1 DEF IInv, ReadersReadStdin, UnusedTables, fd_array
<1>9. QED
  BY <1>2, <1>5, <1>6, <1>7, <1>8 DEF IInv

-----------------------------------------------------------------------------
(* The theorems.                                                           *)

\* After init_main one table of free entries exists, which init owns.
LEMMA InitIInv == ASSUME Init PROVE IInv
<1>1. PICK f \in Files :
         /\ files = [g \in Files |-> IF g = f THEN [pwd |-> root, files_count |-> 1,
                                                    fd_array |-> [fd \in Fd |-> None]]
                                     ELSE NULL]
         /\ filesp = [p \in Proc |-> IF p = initproc THEN f ELSE NULL]
  BY DEF Init
<1>2. /\ life = [p \in Proc |-> IF p = initproc THEN "alive" ELSE "free"]
      /\ mm = [p \in Proc |-> FALSE] /\ reading = [p \in Proc |-> NO_FD]
      /\ ref_count = [n \in Inode |-> Kept(n) + One(n = root)]
      /\ open_count = [n \in Inode |-> 0]
      /\ orphans = [g \in Files |-> 0] /\ lost = [n \in Inode |-> 0]
  BY DEF Init
<1>3. PICK s : s = [pwd |-> root, files_count |-> 1, fd_array |-> [fd \in Fd |-> None]]
  OBVIOUS
<1>4. s \in FilesStruct /\ s # NULL
  BY <1>3, FileTableAssumption DEF FilesStruct, Entry
<1>5. files = [g \in Files |-> IF g = f THEN s ELSE NULL]
  BY <1>1, <1>3
<1>6. TypeOK
  <2>1. files \in [Files -> FilesStruct \cup {NULL}]
    BY <1>4, <1>5
  <2>2. ref_count \in [Inode -> Nat] /\ open_count \in [Inode -> Nat]
    BY <1>2 DEF Kept, One
  <2>3. QED
    BY <1>1, <1>2, <2>1, <2>2 DEF TypeOK
<1>7. Alive = {initproc} /\ Tables = {f} /\ Owners(f) = {initproc}
  BY <1>1, <1>2, <1>4, <1>5, FileTableAssumption DEF Alive, Tables, Owners
<1>8. Cardinality(Owners(f)) = 1
  BY <1>7, FS_Singleton
<1>9. ASSUME NEW fd \in Fd PROVE Cardinality(Readers(f, fd)) = 0
  <2>1. Readers(f, fd) = {}
    BY <1>2, <1>7, FileTableAssumption DEF Readers, Fd, NO_FD
  <2>2. QED
    BY <2>1, FS_EmptySet
<1>10. EntryCounts
  BY <1>3, <1>5, <1>7, <1>9 DEF EntryCounts, Counted, None, One
<1>11. TablesOwned
  <2>1. filesp[initproc] = f
    BY <1>1, FileTableAssumption
  <2>2. files[f].files_count = 1 /\ orphans[f] = 0
    BY <1>2, <1>3, <1>5
  <2>3. QED
    BY <1>7, <1>8, <2>1, <2>2 DEF TablesOwned
<1>12. InodeCountsExact
  <2>1. SUFFICES ASSUME NEW n \in Inode
                 PROVE  /\ open_count[n] = Users(n)
                        /\ ref_count[n] = Users(n) + Cardinality({g \in Tables : files[g].pwd = n})
                                          + Kept(n) + lost[n]
    BY DEF InodeCountsExact
  <2>2. Users(n) = 0
    <3>1. {d \in Tables \X Fd : files[d[1]].fd_array[d[2]].node = n} = {}
      BY <1>3, <1>5, <1>7, FileTableAssumption DEF None
    <3>2. QED
      BY <3>1, FS_EmptySet DEF Users
  <2>3. Cardinality({g \in Tables : files[g].pwd = n}) = One(n = root)
    <3>1. CASE n = root
      <4>1. {g \in Tables : files[g].pwd = n} = {f}
        BY <1>3, <1>5, <1>7, <3>1
      <4>2. QED
        BY <3>1, <4>1, FS_Singleton DEF One
    <3>2. CASE n # root
      <4>1. {g \in Tables : files[g].pwd = n} = {}
        BY <1>3, <1>5, <1>7, <3>2
      <4>2. QED
        BY <3>2, <4>1, FS_EmptySet DEF One
    <3>3. QED
      BY <3>1, <3>2
  <2>4. Kept(n) \in Nat /\ One(n = root) \in Nat
    BY DEF Kept, One
  <2>5. open_count[n] = 0 /\ ref_count[n] = Kept(n) + One(n = root) /\ lost[n] = 0
    BY <1>2
  <2>6. QED
    BY <2>2, <2>3, <2>4, <2>5
<1>13. ReadersReadStdin /\ UnusedTables
  BY <1>2 DEF ReadersReadStdin, UnusedTables
<1>14. QED
  BY <1>6, <1>10, <1>11, <1>12, <1>13 DEF IInv

\* The invariant speaks of the variables only.
LEMMA StutterStep == ASSUME IInv, UNCHANGED vars PROVE IInv'
<1>1. UNCHANGED <<files, filesp, life, mm, reading, ref_count, open_count, orphans, lost>>
  BY DEF vars, procVars, countVars
<1>2. Alive' = Alive /\ Tables' = Tables /\ \A f : Owners(f)' = Owners(f)
  BY <1>1 DEF Alive, Tables, Owners
<1>3. \A f, fd : Readers(f, fd)' = Readers(f, fd)
  BY <1>1, <1>2 DEF Readers
<1>4. TypeOK' /\ EntryCounts' /\ TablesOwned'
  BY <1>1, <1>2, <1>3 DEF IInv, TypeOK, EntryCounts, TablesOwned
<1>5. InodeCountsExact' /\ ReadersReadStdin' /\ UnusedTables'
  BY <1>1, <1>2 DEF IInv, InodeCountsExact, Users, Kept, ReadersReadStdin, UnusedTables, fd_array
<1>6. QED
  BY <1>4, <1>5 DEF IInv

\* Every system call, fork, exec, exit and wait keeps the invariant.
LEMMA NextStep == ASSUME IInv, Next PROVE IInv'
<1>1. CASE \E p \in Proc : file_close(p)
  BY <1>1, CloseStep
<1>2. CASE \E p \in Proc : file_dup(p)
  BY <1>2, DupStep
<1>3. CASE \E p \in Proc : fd_array_acquire(p)
  BY <1>3, AcquireStep
<1>4. CASE \E p \in Proc : file_read(p)
  BY <1>4, ReadStep
<1>5. CASE \E p \in Proc : do_exit(p)
  BY <1>5, DoExitStep
<1>6. CASE \E p \in Proc : do_execve(p)
  BY <1>6, DoExecveStep
<1>7. CASE \E p \in Proc : do_wait(p)
  BY <1>7, DoWaitStep
<1>8. CASE \E p \in Proc, n \in Inode, mode \in {"read", "write", "trunc"} : file_open(p, n, mode)
  BY <1>8, OpenStep
<1>9. CASE \E p \in Proc, n \in Inode : E_EXISTS(p, n)
  BY <1>9, ExistsStep
<1>10. CASE \E p \in Proc, d \in Dir : vfs_chdir(p, d)
  BY <1>10, ChdirStep
<1>11. CASE \E p \in Proc, q \in Proc : do_fork(p, q)
  BY <1>11, DoForkStep
<1>12. QED
  BY <1>1, <1>2, <1>3, <1>4, <1>5, <1>6, <1>7, <1>8, <1>9, <1>10, <1>11 DEF Next

\* IInv holds in every state, whatever processes and sleeping reads share the tables.
THEOREM Invariance == Spec => []IInv
<1>1. Init => IInv
  BY InitIInv
<1>2. IInv /\ [Next]_vars => IInv'
  BY NextStep, StutterStep
<1>3. QED
  BY <1>1, <1>2, PTL DEF Spec

\* A descriptor counts its opening and its sleeping readers, and a table the
\* living processes that share it and the exits that left it behind
\* (fd_array_acquire, fd_array_release and files_count, file.c and proc.c).
THEOREM TablesCorrect == Spec => []TablesInv
<1>1. IInv => TablesInv
  BY DEF IInv, TablesInv
<1>2. QED
  BY <1>1, Invariance, PTL

\* The counts of an inode are those of the descriptors, working directories and
\* lost lookups that name it, through every fork, exec, exit and failed open:
\* vop_open_inc, vop_ref_dec and their like (inode.h) are paired.
THEOREM InodesCorrect == Spec => []InodeCountsExact
<1>1. IInv => InodeCountsExact
  BY DEF IInv
<1>2. QED
  BY <1>1, Invariance, PTL

-----------------------------------------------------------------------------
(***************************************************************************)
(* Files of the disk.                                                      *)
(***************************************************************************)

(* The table of all pointers, as a function of the state.                   *)
Pointer(f, index) == [of |-> f, at |-> index]
Held(s, p) == IF p.at = -1 THEN s.din[p.of].indirect ELSE sfs_bmap_get(s, p.of, p.at)
BlockMap(s) == [p \in Pointers |-> Held(s, p)]

(* Every block is free or has one pointer; count counts the free ones.      *)
Owned(map, free, count) ==
    /\ map \in [Pointers -> Blocks \cup {0}]
    /\ free \subseteq Blocks /\ count = Cardinality(free)
    /\ \A p \in Pointers : map[p] \notin free
    /\ \A p, q \in Pointers : map[p] = map[q] /\ map[p] # 0 => p = q
    /\ \A b \in Blocks \ free : \E p \in Pointers : map[p] = b

Din == [size : 0..SFS_MAX_FILE_SIZE, blocks : 0..(SFS_NDIRECT + SFS_BLK_NENTRY),
        direct : [0..(SFS_NDIRECT - 1) -> Blocks \cup {0}], indirect : Blocks \cup {0}]
Errors == {"OK", "E_NO_MEM"} \cup Panics
CellValue == Blocks \cup {0} \cup Ino
State == [din : [Ino -> Din], dirty : [Ino -> BOOLEAN], free : SUBSET Blocks, unused_blocks : Nat,
          store : [Blocks -> [Cell -> CellValue]], err : Errors]

(* What is on disk of an inode that is not dirty leads to the same blocks.  *)
SavedAs(s, disk, f) ==
    /\ disk[f].direct = s.din[f].direct /\ disk[f].indirect = s.din[f].indirect
    /\ disk[f].size = s.din[f].size /\ disk[f].blocks <= s.din[f].blocks

(* What all the operators on the state keep, those of a call that fails     *)
(* half-way included.                                                       *)
Sound(s, disk) ==
    /\ s \in State /\ disk \in [Ino -> Din]
    /\ Owned(BlockMap(s), s.free, s.unused_blocks)
    /\ \A f \in Ino : \A index \in 0..(s.din[f].blocks - 1) : BlockMap(s)[Pointer(f, index)] # 0
    /\ \A f \in Ino : ~s.dirty[f] => SavedAs(s, disk, f)

SfsIInv ==
    /\ Sound(fs, disk_din) /\ fs.err = "OK"
    /\ file \in [Desc -> Ino \cup {NoFile}]
    /\ pos \in [Desc -> 0..SFS_MAX_FILE_SIZE]
    /\ halted \in Panics \cup {"NO"}
    /\ unsaved \subseteq Ino

-----------------------------------------------------------------------------
(* What the assumption says, taken apart.                                   *)
LEMMA SfsNumbers ==
    /\ SFS_BLKSIZE \in Nat \ {0} /\ SFS_NDIRECT \in Nat \ {0} /\ SFS_MAX_FILE_SIZE \in Nat \ {0}
    /\ MaxIO \in Nat \ {0} /\ SFS_BLK_NENTRY = SFS_BLKSIZE
    /\ 0 \notin Blocks /\ Blocks \subseteq Nat /\ IsFiniteSet(Blocks) /\ NoFile \notin Ino
BY SfsAssumption DEF SFS_BLK_NENTRY

(* A pointer is its file and its place.                                     *)
LEMMA PointerFacts ==
    /\ \A f \in Ino, i \in Slots \cup {-1} :
          Pointer(f, i) \in Pointers /\ Pointer(f, i).of = f /\ Pointer(f, i).at = i
    /\ \A p \in Pointers : p.of \in Ino /\ p.at \in Slots \cup {-1} /\ p = Pointer(p.of, p.at)
    /\ \A f, g \in Ino, i, j \in Slots \cup {-1} : Pointer(f, i) = Pointer(g, j) => f = g /\ i = j
<1>1. ASSUME NEW f \in Ino, NEW i \in Slots \cup {-1}
      PROVE  Pointer(f, i) \in Pointers /\ Pointer(f, i).of = f /\ Pointer(f, i).at = i
  BY DEF Pointer, Pointers
<1>2. ASSUME NEW p \in Pointers
      PROVE  p.of \in Ino /\ p.at \in Slots \cup {-1} /\ p = Pointer(p.of, p.at)
  <2>1. PICK f \in Ino, i \in Slots \cup {-1} : p = Pointer(f, i)
    BY DEF Pointers, Pointer
  <2> QED
    BY <1>1, <2>1
<1>3. ASSUME NEW f \in Ino, NEW g \in Ino, NEW i \in Slots \cup {-1}, NEW j \in Slots \cup {-1},
             Pointer(f, i) = Pointer(g, j)
      PROVE  f = g /\ i = j
  <2>1. Pointer(f, i).of = f /\ Pointer(f, i).at = i
    BY <1>1
  <2>2. Pointer(g, j).of = g /\ Pointer(g, j).at = j
    BY <1>1
  <2> QED
    BY <1>3, <2>1, <2>2
<1> QED
  BY <1>1, <1>2, <1>3, Zenon

(* A free block goes to a pointer that held none, or comes back from one.   *)
LEMMA TakeBlock ==
    ASSUME NEW map, NEW free, NEW count, Owned(map, free, count),
           NEW p \in Pointers, map[p] = 0, NEW b \in free
    PROVE  Owned([map EXCEPT ![p] = b], free \ {b}, count - 1)
<1>1. /\ map \in [Pointers -> Blocks \cup {0}] /\ free \subseteq Blocks /\ count = Cardinality(free)
      /\ \A q \in Pointers : map[q] \notin free
      /\ \A q, r \in Pointers : map[q] = map[r] /\ map[q] # 0 => q = r
      /\ \A c \in Blocks \ free : \E q \in Pointers : map[q] = c
      /\ b \in Blocks /\ b # 0
  BY SfsNumbers DEF Owned
<1>2. Cardinality(free \ {b}) = count - 1
  BY <1>1, SfsNumbers, FS_Subset, FS_RemoveElement
<1>3. PICK m : m = [map EXCEPT ![p] = b]
  OBVIOUS
<1>4. m \in [Pointers -> Blocks \cup {0}] /\ m[p] = b /\ \A q \in Pointers : q # p => m[q] = map[q]
  BY <1>1, <1>3
<1>5. \A q \in Pointers : m[q] \notin free \ {b}
  BY <1>1, <1>4
<1>6. \A q, r \in Pointers : m[q] = m[r] /\ m[q] # 0 => q = r
  BY <1>1, <1>4
<1>7. ASSUME NEW c \in Blocks \ (free \ {b}) PROVE \E q \in Pointers : m[q] = c
  <2>1. CASE c = b
    BY <1>4, <2>1
  <2>2. CASE c # b
    <3>1. PICK q \in Pointers : map[q] = c
      BY <1>1, <2>2
    <3>2. q # p
      BY <3>1, SfsNumbers
    <3> QED
      BY <1>4, <3>1, <3>2
  <2> QED
    BY <2>1, <2>2
<1> QED
  BY <1>1, <1>2, <1>3, <1>4, <1>5, <1>6, <1>7 DEF Owned

(* A pointer that is cleared frees its block.                               *)
LEMMA GiveBlock ==
    ASSUME NEW map, NEW free, NEW count, Owned(map, free, count),
           NEW p \in Pointers, NEW b, b = map[p], b # 0
    PROVE  Owned([map EXCEPT ![p] = 0], free \cup {b}, count + 1)
<1>1. /\ map \in [Pointers -> Blocks \cup {0}] /\ free \subseteq Blocks /\ count = Cardinality(free)
      /\ \A q \in Pointers : map[q] \notin free
      /\ \A q, r \in Pointers : map[q] = map[r] /\ map[q] # 0 => q = r
      /\ \A c \in Blocks \ free : \E q \in Pointers : map[q] = c
      /\ b \in Blocks /\ b \notin free /\ 0 \notin Blocks
  BY SfsNumbers DEF Owned
<1>2. Cardinality(free \cup {b}) = count + 1
  BY <1>1, SfsNumbers, FS_Subset, FS_AddElement
<1>3. PICK m : m = [map EXCEPT ![p] = 0]
  OBVIOUS
<1>4. m \in [Pointers -> Blocks \cup {0}] /\ m[p] = 0 /\ \A q \in Pointers : q # p => m[q] = map[q]
  BY <1>1, <1>3
<1>5. \A q \in Pointers : m[q] \notin free \cup {b}
  BY <1>1, <1>4
<1>6. \A q, r \in Pointers : m[q] = m[r] /\ m[q] # 0 => q = r
  BY <1>1, <1>4
<1>7. \A c \in Blocks \ (free \cup {b}) : \E q \in Pointers : m[q] = c
  BY <1>1, <1>4
<1> QED
  BY <1>1, <1>2, <1>3, <1>4, <1>5, <1>6, <1>7 DEF Owned

(* Min finds a block. *)
LEMMA NewBlockIsFree ==
    ASSUME NEW s \in State, s.free # {}
    PROVE  NewBlock(s) \in s.free /\ NewBlock(s) \in Blocks /\ NewBlock(s) # 0
<1> DEFINE R == {ss \in Nat \X Nat : ss[1] < ss[2]}
           S == s.free
<1>1. IsWellFoundedOn(R, Nat)
  BY NatLessThanWellFounded, Zenon DEF OpToRel
<1>2. S \subseteq Nat /\ S \subseteq Blocks /\ S # {}
  BY SfsNumbers DEF State
<1> HIDE DEF S
<1>3. PICK m \in S : \A y \in S : ~ (<<y, m>> \in R)
  BY <1>1, <1>2, WFMin
<1>4. ASSUME NEW y \in S PROVE m <= y
  <2>1. <<y, m>> \notin R
    BY <1>3, <1>4, Zenon
  <2> QED
    BY <1>2, <2>1
<1>5. Min(S) \in S
  BY <1>4 DEF Min
<1> QED
  BY <1>2, <1>5, SfsNumbers DEF NewBlock, S

(* What a pointer holds. *)
LEMMA MapFacts ==
    ASSUME NEW s \in State
    PROVE  /\ DOMAIN BlockMap(s) = Pointers
           /\ \A f \in Ino : /\ BlockMap(s)[Pointer(f, -1)] = s.din[f].indirect
                             /\ \A i \in 0..(SFS_NDIRECT - 1) :
                                   BlockMap(s)[Pointer(f, i)] = s.din[f].direct[i]
                             /\ \A i \in Slots : i >= SFS_NDIRECT =>
                                   BlockMap(s)[Pointer(f, i)] =
                                      IF s.din[f].indirect = 0 THEN 0
                                      ELSE s.store[s.din[f].indirect][i - SFS_NDIRECT]
                             /\ \A i \in Slots : BlockMap(s)[Pointer(f, i)] = sfs_bmap_get(s, f, i)
<1>1. DOMAIN BlockMap(s) = Pointers /\ \A p \in Pointers : BlockMap(s)[p] = Held(s, p)
  BY DEF BlockMap
<1>2. ASSUME NEW f \in Ino PROVE BlockMap(s)[Pointer(f, -1)] = s.din[f].indirect
  BY <1>1, PointerFacts DEF Held
<1>3. ASSUME NEW f \in Ino, NEW i \in Slots PROVE BlockMap(s)[Pointer(f, i)] = sfs_bmap_get(s, f, i)
  <2>1. i # -1 /\ i \in Slots \cup {-1}
    BY SfsNumbers DEF Slots
  <2> QED
    BY <1>1, <2>1, PointerFacts DEF Held
<1>4. \A i \in 0..(SFS_NDIRECT - 1) : i \in Slots /\ i < SFS_NDIRECT
  BY SfsNumbers DEF Slots
<1>5. \A i \in Slots : i >= SFS_NDIRECT => ~(i < SFS_NDIRECT)
  BY SfsNumbers DEF Slots
<1>6. \A f \in Ino, i \in 0..(SFS_NDIRECT - 1) : BlockMap(s)[Pointer(f, i)] = s.din[f].direct[i]
  BY <1>3, <1>4 DEF sfs_bmap_get
<1>7. \A f \in Ino, i \in Slots : i >= SFS_NDIRECT =>
         BlockMap(s)[Pointer(f, i)] = IF s.din[f].indirect = 0 THEN 0
                                      ELSE s.store[s.din[f].indirect][i - SFS_NDIRECT]
  BY <1>3, <1>5 DEF sfs_bmap_get
<1> QED
  BY <1>1, <1>2, <1>3, <1>6, <1>7

(* Two tables that agree on the three kinds of pointers are one.            *)
LEMMA SameMap ==
    ASSUME NEW m, NEW n, DOMAIN m = Pointers, DOMAIN n = Pointers, m = [p \in Pointers |-> m[p]],
           n = [p \in Pointers |-> n[p]],
           \A f \in Ino : /\ m[Pointer(f, -1)] = n[Pointer(f, -1)]
                          /\ \A i \in Slots : m[Pointer(f, i)] = n[Pointer(f, i)]
    PROVE  m = n
<1>1. ASSUME NEW p \in Pointers PROVE m[p] = n[p]
  <2>1. p.of \in Ino /\ p.at \in Slots \cup {-1} /\ p = Pointer(p.of, p.at)
    BY PointerFacts
  <2> QED
    BY <2>1
<1> QED
  BY <1>1

(* Places of pointers: the direct ones, and those of the indirect block.    *)
LEMMA SlotFacts ==
    /\ \A i \in 0..(SFS_NDIRECT - 1) : i \in Slots /\ i \in Slots \cup {-1} /\ i >= 0 /\ i < SFS_NDIRECT
    /\ \A i \in Slots : /\ i \in Nat /\ i # -1 /\ i \in Slots \cup {-1}
                        /\ i < SFS_NDIRECT + SFS_BLK_NENTRY
                        /\ i < SFS_NDIRECT => i \in 0..(SFS_NDIRECT - 1)
                        /\ i >= SFS_NDIRECT => i - SFS_NDIRECT \in Cell
    /\ \A c \in Cell : c + SFS_NDIRECT \in Slots /\ c \in Int
BY SfsNumbers DEF Slots, Cell

(* A state's parts.                                                         *)
LEMMA StateFacts ==
    ASSUME NEW s \in State
    PROVE  /\ s.din \in [Ino -> Din] /\ s.dirty \in [Ino -> BOOLEAN] /\ s.free \subseteq Blocks
           /\ s.unused_blocks \in Nat /\ s.store \in [Blocks -> [Cell -> CellValue]] /\ s.err \in Errors
           /\ \A f \in Ino : /\ s.din[f] \in Din
                             /\ s.din[f].size \in 0..SFS_MAX_FILE_SIZE
                             /\ s.din[f].blocks \in 0..(SFS_NDIRECT + SFS_BLK_NENTRY)
                             /\ s.din[f].direct \in [0..(SFS_NDIRECT - 1) -> Blocks \cup {0}]
                             /\ s.din[f].indirect \in Blocks \cup {0}
BY DEF State, Din

MakeState(din, dirty, free, count, store, err) ==
    [din |-> din, dirty |-> dirty, free |-> free, unused_blocks |-> count, store |-> store, err |-> err]
WithDin(s, f, w) == [s.din EXCEPT ![f] = w]
WithDirect(v, index, n) == [v EXCEPT !.direct[index] = n]

(* A state is put together from its parts.                                  *)
LEMMA StateIs ==
    ASSUME NEW din \in [Ino -> Din], NEW dirty \in [Ino -> BOOLEAN], NEW free \in SUBSET Blocks,
           NEW count \in Nat, NEW store \in [Blocks -> [Cell -> CellValue]], NEW err \in Errors
    PROVE  LET r == MakeState(din, dirty, free, count, store, err) IN
           /\ r \in State /\ r.din = din /\ r.dirty = dirty /\ r.free = free
           /\ r.unused_blocks = count /\ r.store = store /\ r.err = err
BY DEF State, MakeState

(* One inode is replaced.                                                   *)
LEMMA DinStep ==
    ASSUME NEW s \in State, NEW f \in Ino, NEW w \in Din
    PROVE  /\ WithDin(s, f, w) \in [Ino -> Din] /\ WithDin(s, f, w)[f] = w
           /\ \A g \in Ino : g # f => WithDin(s, f, w)[g] = s.din[g]
<1>1. s.din \in [Ino -> Din]
  BY StateFacts
<1> QED
  BY <1>1 DEF WithDin

(* One direct pointer is replaced.                                          *)
LEMMA DirectStep ==
    ASSUME NEW v \in Din, NEW index \in 0..(SFS_NDIRECT - 1), NEW n \in Blocks \cup {0}
    PROVE  LET w == WithDirect(v, index, n) IN
           /\ w \in Din /\ w.size = v.size /\ w.blocks = v.blocks /\ w.indirect = v.indirect
           /\ w.direct[index] = n
           /\ \A i \in 0..(SFS_NDIRECT - 1) : i # index => w.direct[i] = v.direct[i]
<1>1. PICK d : d = [v.direct EXCEPT ![index] = n]
  OBVIOUS
<1>2. v.direct \in [0..(SFS_NDIRECT - 1) -> Blocks \cup {0}]
  BY DEF Din
<1>3. /\ d \in [0..(SFS_NDIRECT - 1) -> Blocks \cup {0}] /\ d[index] = n
      /\ \A i \in 0..(SFS_NDIRECT - 1) : i # index => d[i] = v.direct[i]
  BY <1>1, <1>2
<1>4. PICK w : w = [v EXCEPT !.direct = d]
  OBVIOUS
<1>5. w \in Din /\ w.size = v.size /\ w.blocks = v.blocks /\ w.indirect = v.indirect /\ w.direct = d
  BY <1>3, <1>4 DEF Din
<1>6. w = WithDirect(v, index, n)
  BY <1>1, <1>4 DEF WithDirect
<1> QED
  BY <1>3, <1>5, <1>6

(* A cleared block.                                                         *)
LEMMA ZerosContent == Zeros \in [Cell -> CellValue] /\ \A c \in Cell : Zeros[c] = 0
BY DEF Zeros, CellValue

(* The count when a block is taken.                                         *)
LEMMA CountTake ==
    ASSUME NEW s \in State, Owned(BlockMap(s), s.free, s.unused_blocks), NEW n \in s.free
    PROVE  s.free \ {n} \subseteq Blocks /\ s.unused_blocks - 1 \in Nat
<1>1. s.unused_blocks = Cardinality(s.free) /\ s.free \subseteq Blocks
  BY DEF Owned
<1>2. IsFiniteSet(s.free)
  BY <1>1, SfsNumbers, FS_Subset
<1>3. IsFiniteSet(s.free \ {n}) /\ Cardinality(s.free \ {n}) = Cardinality(s.free) - 1
  BY <1>2, FS_RemoveElement
<1> QED
  BY <1>1, <1>3, FS_CardinalityType

(* A failure changes nothing but err.                                       *)
LEMMA SoundErr ==
    ASSUME NEW s, NEW disk, Sound(s, disk), NEW e \in Errors
    PROVE  /\ Sound(Fail(s, e), disk) /\ Fail(s, e).err = e /\ Fail(s, e).din = s.din
           /\ Fail(s, e).dirty = s.dirty /\ Fail(s, e).free = s.free /\ Fail(s, e).store = s.store
           /\ BlockMap(Fail(s, e)) = BlockMap(s)
<1>0. PICK r : r = Fail(s, e)
  OBVIOUS
<1>1. /\ r \in State /\ r.err = e /\ r.din = s.din /\ r.dirty = s.dirty /\ r.free = s.free
      /\ r.store = s.store /\ r.unused_blocks = s.unused_blocks
  BY <1>0 DEF Sound, State, Fail
<1>2. BlockMap(r) = BlockMap(s)
  BY <1>1 DEF BlockMap, Held, sfs_bmap_get
<1>3. Sound(r, disk)
  BY <1>1, <1>2 DEF Sound, SavedAs
<1> QED
  BY <1>0, <1>1, <1>2, <1>3

(* A block is added to f at index, which held none.                         *)
LEMMA AddDirectSound ==
    ASSUME NEW s, NEW disk, Sound(s, disk), s.err = "OK", NEW f \in Ino, NEW index \in 0..(SFS_NDIRECT - 1),
           sfs_bmap_get(s, f, index) = 0, NEW r, r = AddDirect(s, f, index)
    PROVE  /\ Sound(r, disk) /\ r.din[f].blocks = s.din[f].blocks
           /\ r.err = "OK" => BlockMap(r)[Pointer(f, index)] # 0 /\ r.dirty[f]
<1>1. CASE s.free = {}
  <2>1. r = Fail(s, "E_NO_MEM")
    <3>1. sfs_block_alloc(s) = Fail(s, "E_NO_MEM")
      BY <1>1 DEF sfs_block_alloc
    <3>2. Fail(s, "E_NO_MEM").err = "E_NO_MEM"
      BY DEF Sound, State, Fail
    <3> QED
      BY <3>1, <3>2 DEF AddDirect
  <2>2. "E_NO_MEM" \in Errors /\ "E_NO_MEM" # "OK"
    BY DEF Errors
  <2>3. Sound(r, disk) /\ r.err = "E_NO_MEM" /\ r.din = s.din
    BY <2>1, <2>2, SoundErr
  <2> QED
    BY <2>2, <2>3
<1>2. CASE s.free # {}
  <2>1. s \in State
    BY DEF Sound
  <2>2. PICK n : n = NewBlock(s)
    OBVIOUS
  <2>3. n \in s.free /\ n \in Blocks /\ n # 0
    BY <1>2, <2>1, <2>2, NewBlockIsFree
  <2>d. PICK din : din = [s.din EXCEPT ![f].direct[index] = n]
    OBVIOUS
  <2>e. PICK dirty : dirty = [s.dirty EXCEPT ![f] = TRUE]
    OBVIOUS
  <2>t. PICK store : store = [s.store EXCEPT ![n] = Zeros]
    OBVIOUS
  <2>4. r = MakeState(din, dirty, s.free \ {n}, s.unused_blocks - 1, store, "OK")
    BY <1>2, <2>1, <2>2, <2>d, <2>e, <2>t DEF MakeState, AddDirect, sfs_block_alloc, State
  <2>5. s.free \ {n} \subseteq Blocks /\ s.unused_blocks - 1 \in Nat
    BY <2>1, <2>3, CountTake DEF Sound
  <2>w. PICK w : w = WithDirect(s.din[f], index, n)
    OBVIOUS
  <2>6. /\ w \in Din /\ w.size = s.din[f].size /\ w.blocks = s.din[f].blocks
        /\ w.indirect = s.din[f].indirect /\ w.direct[index] = n
        /\ \A i \in 0..(SFS_NDIRECT - 1) : i # index => w.direct[i] = s.din[f].direct[i]
    <3>1. s.din[f] \in Din /\ n \in Blocks \cup {0}
      BY <2>1, <2>3, StateFacts
    <3> QED
      BY <2>w, <3>1, DirectStep
  <2>7. din \in [Ino -> Din] /\ din[f] = w /\ \A g \in Ino : g # f => din[g] = s.din[g]
    <3>1. din = WithDin(s, f, w)
      BY <2>w, <2>d DEF WithDin, WithDirect
    <3> QED
      BY <2>1, <2>6, <3>1, DinStep
  <2>8. dirty \in [Ino -> BOOLEAN] /\ store \in [Blocks -> [Cell -> CellValue]]
    BY <2>1, <2>3, <2>e, <2>t, StateFacts, ZerosContent
  <2>9. /\ r \in State /\ r.din = din /\ r.dirty = dirty /\ r.free = s.free \ {n}
        /\ r.unused_blocks = s.unused_blocks - 1 /\ r.store = store /\ r.err = "OK"
    <3>1. "OK" \in Errors
      BY DEF Errors
    <3> QED
      BY <3>1, <2>4, <2>5, <2>7, <2>8, StateIs
  <2>10. /\ \A g \in Ino : /\ r.din[g].indirect = s.din[g].indirect
                           /\ r.din[g].blocks = s.din[g].blocks /\ r.din[g].size = s.din[g].size
                           /\ g # f => r.din[g] = s.din[g] /\ r.dirty[g] = s.dirty[g]
         /\ r.din[f].direct[index] = n /\ r.dirty[f]
         /\ \A i \in 0..(SFS_NDIRECT - 1) : i # index => r.din[f].direct[i] = s.din[f].direct[i]
         /\ \A b \in Blocks : b # n => r.store[b] = s.store[b]
    <3>1. /\ \A g \in Ino : g # f => r.dirty[g] = s.dirty[g]
          /\ r.dirty[f] /\ \A b \in Blocks : b # n => r.store[b] = s.store[b]
      BY <2>1, <2>9, <2>e, <2>t, StateFacts
    <3> QED
      BY <2>6, <2>7, <2>9, <3>1
  <2>11. PICK m : m = [BlockMap(s) EXCEPT ![Pointer(f, index)] = n]
    OBVIOUS
  <2>12. /\ Pointer(f, index) \in Pointers /\ BlockMap(s)[Pointer(f, index)] = 0
         /\ \A g \in Ino : s.din[g].indirect \notin s.free
    <3>1. index \in Slots /\ index \in Slots \cup {-1}
      BY SlotFacts
    <3>2. BlockMap(s)[Pointer(f, index)] = 0
      BY <2>1, <3>1, MapFacts
    <3>3. \A g \in Ino : BlockMap(s)[Pointer(g, -1)] \notin s.free
      BY PointerFacts DEF Sound, Owned
    <3> QED
      BY <2>1, <3>1, <3>2, <3>3, MapFacts, PointerFacts
  <2>13. BlockMap(r) = m
    <3>1. ASSUME NEW g \in Ino PROVE BlockMap(r)[Pointer(g, -1)] = m[Pointer(g, -1)]
      <4>1. Pointer(g, -1) # Pointer(f, index) /\ Pointer(g, -1) \in Pointers
        BY PointerFacts, SlotFacts
      <4>2. m[Pointer(g, -1)] = BlockMap(s)[Pointer(g, -1)]
        BY <2>1, <2>11, <4>1, MapFacts
      <4> QED
        BY <2>1, <2>9, <2>10, <4>2, MapFacts
    <3>2. ASSUME NEW g \in Ino, NEW i \in Slots PROVE BlockMap(r)[Pointer(g, i)] = m[Pointer(g, i)]
      <4>1. Pointer(g, i) \in Pointers /\ (Pointer(g, i) = Pointer(f, index) <=> g = f /\ i = index)
        BY PointerFacts, SlotFacts
      <4>2. m[Pointer(g, i)] = IF g = f /\ i = index THEN n ELSE BlockMap(s)[Pointer(g, i)]
        BY <2>1, <2>11, <4>1, MapFacts
      <4>3. CASE i < SFS_NDIRECT
        <5>1. i \in 0..(SFS_NDIRECT - 1)
          BY <4>3, SlotFacts
        <5>2. r.din[g].direct[i] = IF g = f /\ i = index THEN n ELSE s.din[g].direct[i]
          BY <2>1, <2>10, <5>1, StateFacts
        <5> QED
          BY <2>1, <2>9, <4>2, <5>1, <5>2, MapFacts
      <4>4. CASE ~(i < SFS_NDIRECT)
        <5>1. i >= SFS_NDIRECT /\ i # index
          BY <4>4, SfsNumbers, SlotFacts
        <5>2. s.din[g].indirect # 0 => r.store[s.din[g].indirect] = s.store[s.din[g].indirect]
          BY <2>1, <2>3, <2>10, <2>12, StateFacts
        <5>3. BlockMap(r)[Pointer(g, i)] = BlockMap(s)[Pointer(g, i)]
          <6>1. /\ BlockMap(r)[Pointer(g, i)] = IF r.din[g].indirect = 0 THEN 0
                                                ELSE r.store[r.din[g].indirect][i - SFS_NDIRECT]
                /\ BlockMap(s)[Pointer(g, i)] = IF s.din[g].indirect = 0 THEN 0
                                                ELSE s.store[s.din[g].indirect][i - SFS_NDIRECT]
            BY <2>1, <2>9, <5>1, MapFacts
          <6>2. r.din[g].indirect = s.din[g].indirect
            BY <2>10
          <6> QED
            BY <5>2, <6>1, <6>2
        <5> QED
          BY <4>2, <5>1, <5>3
      <4> QED
        BY <4>3, <4>4
    <3>3. /\ DOMAIN m = Pointers /\ m = [p \in Pointers |-> m[p]]
          /\ DOMAIN BlockMap(r) = Pointers /\ BlockMap(r) = [p \in Pointers |-> BlockMap(r)[p]]
      BY <2>11 DEF BlockMap
    <3> QED
      BY <3>1, <3>2, <3>3, SameMap
  <2>14. Owned(BlockMap(r), r.free, r.unused_blocks)
    <3>1. Owned(m, s.free \ {n}, s.unused_blocks - 1)
      BY <2>3, <2>11, <2>12, TakeBlock DEF Sound
    <3> QED
      BY <2>9, <2>13, <3>1
  <2>15. \A g \in Ino : \A i \in 0..(r.din[g].blocks - 1) : BlockMap(r)[Pointer(g, i)] # 0
    <3>1. \A g \in Ino : \A i \in 0..(s.din[g].blocks - 1) : BlockMap(s)[Pointer(g, i)] # 0
      BY DEF Sound
    <3>2. \A p \in Pointers : m[p] = BlockMap(s)[p] \/ m[p] = n
      BY <2>1, <2>11, MapFacts
    <3>3. \A g \in Ino : \A i \in 0..(s.din[g].blocks - 1) : Pointer(g, i) \in Pointers
      BY <2>1, StateFacts, PointerFacts, SfsNumbers DEF Slots
    <3> QED
      BY <2>3, <2>10, <2>13, <3>1, <3>2, <3>3
  <2>16. \A g \in Ino : ~r.dirty[g] => SavedAs(r, disk, g)
    BY <2>10 DEF Sound, SavedAs
  <2>17. Sound(r, disk)
    BY <2>9, <2>14, <2>15, <2>16 DEF Sound
  <2>18. m[Pointer(f, index)] = n
    BY <2>1, <2>11, <2>12, MapFacts
  <2> QED
    BY <2>3, <2>10, <2>13, <2>17, <2>18
<1> QED
  BY <1>1, <1>2

WithIndirect(v, b) == [v EXCEPT !.indirect = b]
WithBlocks(v, n) == [v EXCEPT !.blocks = n]
WithSize(v, n) == [v EXCEPT !.size = n]
WithEntry(store, b, c, n) == [store EXCEPT ![b][c] = n]
WithBlock(store, b, cells) == [store EXCEPT ![b] = cells]

Entered(a, f, n, slot, b) ==
    [a EXCEPT !.store[n][slot] = b, !.din[f].indirect = n, !.dirty[f] = @ \/ FALSE]
SameInode(din, f, n) == [din EXCEPT ![f].indirect = n] = din
SameMark(dirty, f) == [dirty EXCEPT ![f] = @ \/ FALSE] = dirty

(* An entry is set, and nothing but the entry changes.                      *)
LEMMA EntryMade ==
    ASSUME NEW din, NEW dirty, NEW free, NEW count, NEW store, NEW f, NEW n, NEW slot, NEW b,
           SameInode(din, f, n), SameMark(dirty, f)
    PROVE  Entered(MakeState(din, dirty, free, count, store, "OK"), f, n, slot, b) =
               MakeState(din, dirty, free, count, WithEntry(store, n, slot, b), "OK")
<1>a. PICK a : a = MakeState(din, dirty, free, count, store, "OK")
  OBVIOUS
<1>1. /\ a.din = din /\ a.dirty = dirty /\ a.free = free /\ a.unused_blocks = count /\ a.store = store /\ a.err = "OK"
  BY <1>a DEF MakeState
<1>m. PICK m : m = (dirty[f] \/ FALSE)
  OBVIOUS
<1>d. PICK d : d = [din[f] EXCEPT !.indirect = n]
  OBVIOUS
<1>p. PICK p : p = MakeState(din, dirty, free, count, WithEntry(store, n, slot, b), "OK")
  OBVIOUS
<1>q. PICK q : q = MakeState([din EXCEPT ![f] = d], dirty, free, count, WithEntry(store, n, slot, b), "OK")
  OBVIOUS
<1>2. [a EXCEPT !.store[n][slot] = b, !.din[f] = d, !.dirty[f] = m] =
      MakeState([din EXCEPT ![f] = d], [dirty EXCEPT ![f] = m], free, count,
                WithEntry(store, n, slot, b), "OK")
  <2>1. [a EXCEPT !.store[n][slot] = b] = p
    BY <1>a, <1>p DEF MakeState, WithEntry
  <2>2. [p EXCEPT !.din[f] = d] = q
    BY <1>p, <1>q DEF MakeState
  <2>3. [q EXCEPT !.dirty[f] = m] = MakeState([din EXCEPT ![f] = d], [dirty EXCEPT ![f] = m], free, count,
                WithEntry(store, n, slot, b), "OK")
    BY <1>q DEF MakeState
  <2>4. [a EXCEPT !.store[n][slot] = b, !.din[f] = d, !.dirty[f] = m] =
        [[[a EXCEPT !.store[n][slot] = b] EXCEPT !.din[f] = d] EXCEPT !.dirty[f] = m]
    BY <1>1 DEF MakeState
  <2> QED
    BY <2>1, <2>2, <2>3, <2>4
<1>3. [dirty EXCEPT ![f] = m] = dirty
  BY <1>m DEF SameMark
<1>4. [din EXCEPT ![f] = d] = din
  BY <1>d DEF SameInode
<1>5. [a EXCEPT !.store[n][slot] = b, !.din[f].indirect = n, !.dirty[f] = @ \/ FALSE] =
      [a EXCEPT !.store[n][slot] = b, !.din[f] = d, !.dirty[f] = m]
  BY <1>1, <1>m, <1>d
<1> QED
  BY <1>a, <1>2, <1>3, <1>4, <1>5 DEF Entered

(* One field of an inode is replaced.                                       *)
LEMMA DinSteps ==
    ASSUME NEW v \in Din
    PROVE  /\ \A b \in Blocks \cup {0} :
                 LET w == WithIndirect(v, b) IN
                 w \in Din /\ w.indirect = b /\ w.size = v.size /\ w.blocks = v.blocks /\ w.direct = v.direct
           /\ \A n \in 0..(SFS_NDIRECT + SFS_BLK_NENTRY) :
                 LET w == WithBlocks(v, n) IN
                 w \in Din /\ w.blocks = n /\ w.size = v.size /\ w.indirect = v.indirect /\ w.direct = v.direct
           /\ \A n \in 0..SFS_MAX_FILE_SIZE :
                 LET w == WithSize(v, n) IN
                 w \in Din /\ w.size = n /\ w.blocks = v.blocks /\ w.indirect = v.indirect /\ w.direct = v.direct
BY DEF Din, WithIndirect, WithBlocks, WithSize

(* One block on disk is replaced, or one cell of it.                        *)
LEMMA BlockStep ==
    ASSUME NEW store \in [Blocks -> [Cell -> CellValue]], NEW b \in Blocks, NEW cells \in [Cell -> CellValue]
    PROVE  /\ WithBlock(store, b, cells) \in [Blocks -> [Cell -> CellValue]]
           /\ WithBlock(store, b, cells)[b] = cells
           /\ \A d \in Blocks : d # b => WithBlock(store, b, cells)[d] = store[d]
BY DEF WithBlock

(* Writing an entry of an indirect block changes that entry only.           *)
LEMMA EntryStep ==
    ASSUME NEW store \in [Blocks -> [Cell -> CellValue]], NEW b \in Blocks, NEW c \in Cell,
           NEW n \in CellValue
    PROVE  /\ WithEntry(store, b, c, n) \in [Blocks -> [Cell -> CellValue]]
           /\ WithEntry(store, b, c, n)[b][c] = n
           /\ \A d \in Cell : d # c => WithEntry(store, b, c, n)[b][d] = store[b][d]
           /\ \A d \in Blocks : d # b => WithEntry(store, b, c, n)[d] = store[d]
<1>1. PICK cells : cells = [store[b] EXCEPT ![c] = n]
  OBVIOUS
<1>2. /\ cells \in [Cell -> CellValue] /\ cells[c] = n
      /\ \A d \in Cell : d # c => cells[d] = store[b][d]
  BY <1>1
<1>3. WithEntry(store, b, c, n) = WithBlock(store, b, cells)
  BY <1>1 DEF WithEntry, WithBlock
<1> QED
  BY <1>2, <1>3, BlockStep

(* One mark is replaced.                                                    *)
LEMMA CloseIno ==
    ASSUME NEW s \in State, NEW f \in Ino, NEW c
    PROVE  /\ [s.dirty EXCEPT ![f] = TRUE] \in [Ino -> BOOLEAN]
           /\ [s.dirty EXCEPT ![f] = TRUE][f]
           /\ \A g \in Ino : g # f => [s.dirty EXCEPT ![f] = TRUE][g] = s.dirty[g]
           /\ [s.dirty EXCEPT ![f] = FALSE] \in [Ino -> BOOLEAN]
           /\ ~[s.dirty EXCEPT ![f] = FALSE][f]
           /\ \A g \in Ino : g # f => [s.dirty EXCEPT ![f] = FALSE][g] = s.dirty[g]
BY StateFacts

(* Distinct pointers hold distinct blocks, none of them free.               *)
LEMMA OwnedFacts ==
    ASSUME NEW s, NEW disk, Sound(s, disk)
    PROVE  /\ s \in State /\ disk \in [Ino -> Din]
           /\ s.free \subseteq Blocks /\ s.unused_blocks = Cardinality(s.free) /\ IsFiniteSet(s.free)
           /\ \A f \in Ino : s.din[f].indirect \notin s.free
           /\ \A f, g \in Ino : s.din[f].indirect = s.din[g].indirect /\ s.din[f].indirect # 0 => f = g
           /\ \A f, g \in Ino : \A i \in Slots :
                 BlockMap(s)[Pointer(f, i)] # 0 => BlockMap(s)[Pointer(f, i)] # s.din[g].indirect
           /\ \A f \in Ino : \A i \in Slots : /\ BlockMap(s)[Pointer(f, i)] \in Blocks \cup {0}
                                              /\ BlockMap(s)[Pointer(f, i)] \notin s.free
<1>1. /\ s \in State /\ disk \in [Ino -> Din] /\ s.free \subseteq Blocks /\ s.unused_blocks = Cardinality(s.free)
      /\ \A p \in Pointers : BlockMap(s)[p] \notin s.free
      /\ \A p, q \in Pointers : BlockMap(s)[p] = BlockMap(s)[q] /\ BlockMap(s)[p] # 0 => p = q
      /\ BlockMap(s) \in [Pointers -> Blocks \cup {0}]
  BY DEF Sound, Owned
<1>2. \A f \in Ino : Pointer(f, -1) \in Pointers /\ BlockMap(s)[Pointer(f, -1)] = s.din[f].indirect
  BY <1>1, MapFacts, PointerFacts
<1>3. \A f \in Ino : \A i \in Slots : Pointer(f, i) \in Pointers
  BY PointerFacts, SlotFacts
<1>4. \A f, g \in Ino : \A i \in Slots : Pointer(f, i) # Pointer(g, -1)
  BY PointerFacts, SlotFacts
<1>5. IsFiniteSet(s.free)
  BY <1>1, SfsNumbers, FS_Subset
<1>6. ASSUME NEW f \in Ino, NEW g \in Ino, s.din[f].indirect = s.din[g].indirect, s.din[f].indirect # 0
      PROVE  f = g
  <2>1. Pointer(f, -1) = Pointer(g, -1)
    BY <1>1, <1>2, <1>6
  <2> QED
    BY <2>1, PointerFacts
<1> QED
  BY <1>1, <1>2, <1>3, <1>4, <1>5, <1>6

(* A free block becomes an entry of f's indirect block, which there is.     *)
LEMMA AddEntrySound ==
    ASSUME NEW s, NEW disk, Sound(s, disk), s.err = "OK", NEW f \in Ino, NEW slot \in Cell,
           sfs_bmap_get(s, f, slot + SFS_NDIRECT) = 0, s.din[f].indirect # 0,
           NEW r, r = AddIndirect(s, f, slot)
    PROVE  /\ Sound(r, disk) /\ r.din[f].blocks = s.din[f].blocks
           /\ r.err = "OK" => BlockMap(r)[Pointer(f, slot + SFS_NDIRECT)] # 0
<1>0. s \in State
  BY DEF Sound
<1>1. CASE s.free = {}
  <2>0. sfs_block_alloc(s) = Fail(s, "E_NO_MEM")
    BY <1>1 DEF sfs_block_alloc
  <2>1. r = Fail(s, "E_NO_MEM")
    <3>2. Fail(s, "E_NO_MEM").err = "E_NO_MEM"
      BY DEF Sound, State, Fail
    <3> QED
      BY <2>0, <3>2 DEF AddIndirect
  <2>2. "E_NO_MEM" \in Errors /\ "E_NO_MEM" # "OK"
    BY DEF Errors
  <2> QED
    BY <2>1, <2>2, SoundErr
<1>2. CASE s.free # {}
  <2>2. PICK n, ent : n = NewBlock(s) /\ ent = s.din[f].indirect
    OBVIOUS
  <2>3. /\ n \in s.free /\ n \in Blocks /\ n # 0 /\ n \in CellValue
        /\ ent \in Blocks /\ ent # n /\ ent # 0
    BY <1>0, <1>2, <2>2, NewBlockIsFree, OwnedFacts, StateFacts DEF CellValue
  <2>t. PICK store : store = WithEntry(WithBlock(s.store, n, Zeros), ent, slot, n)
    OBVIOUS
  <2>a. sfs_block_alloc(s) = MakeState(s.din, s.dirty, s.free \ {n}, s.unused_blocks - 1,
                                       WithBlock(s.store, n, Zeros), "OK")
    BY <1>0, <1>2, <2>2 DEF sfs_block_alloc, MakeState, WithBlock, State
  <2>4. r = MakeState(s.din, s.dirty, s.free \ {n}, s.unused_blocks - 1, store, "OK")
    <3>1. PICK a : a = MakeState(s.din, s.dirty, s.free \ {n}, s.unused_blocks - 1,
                                 WithBlock(s.store, n, Zeros), "OK")
      OBVIOUS
    <3>2. r = [a EXCEPT !.store[ent][slot] = n, !.din[f].indirect = ent, !.dirty[f] = @ \/ FALSE]
      <4>1. a.err = "OK"
        BY <3>1 DEF MakeState
      <4> QED
        BY <2>2, <2>a, <3>1, <4>1 DEF AddIndirect
    <3>3. [s.din EXCEPT ![f].indirect = ent] = s.din
      <4>1. [s.din[f] EXCEPT !.indirect = ent] = s.din[f]
        BY <1>0, <2>2, StateFacts DEF Din
      <4> QED
        BY <1>0, <4>1, StateFacts
    <3>4. [s.dirty EXCEPT ![f] = s.dirty[f] \/ FALSE] = s.dirty
      <4>1. (s.dirty[f] \/ FALSE) = s.dirty[f]
        <5>1. s.dirty[f] \in BOOLEAN
          BY <1>0, StateFacts
        <5> QED
          BY <5>1, Zenon
      <4>2. [s.dirty EXCEPT ![f] = s.dirty[f]] = s.dirty
        BY <1>0, StateFacts
      <4> QED
        BY <4>1, <4>2, Zenon
    <3> QED
      <4>1. [s.dirty EXCEPT ![f] = @ \/ FALSE] = s.dirty
        BY <3>4
      <4> QED
        <5>1. r = Entered(a, f, ent, slot, n)
          BY <3>2 DEF Entered
        <5>2. Entered(MakeState(s.din, s.dirty, s.free \ {n}, s.unused_blocks - 1,
                                WithBlock(s.store, n, Zeros), "OK"), f, ent, slot, n) =
                 MakeState(s.din, s.dirty, s.free \ {n}, s.unused_blocks - 1,
                           WithEntry(WithBlock(s.store, n, Zeros), ent, slot, n), "OK")
          <6>1. SameInode(s.din, f, ent) /\ SameMark(s.dirty, f)
            BY <3>3, <4>1 DEF SameInode, SameMark
          <6> QED
            BY <6>1, EntryMade
        <5> QED
          BY <2>t, <3>1, <5>1, <5>2
  <2>5. s.free \ {n} \in SUBSET Blocks /\ s.unused_blocks - 1 \in Nat
    BY <1>0, <2>3, CountTake DEF Sound
  <2>6. /\ store \in [Blocks -> [Cell -> CellValue]]
        /\ store[ent][slot] = n
        /\ \A c \in Cell : c # slot => store[ent][c] = s.store[ent][c]
        /\ \A b \in Blocks : b # n /\ b # ent => store[b] = s.store[b]
    <3>1. PICK t : t = WithBlock(s.store, n, Zeros)
      OBVIOUS
    <3>2. t \in [Blocks -> [Cell -> CellValue]] /\ \A b \in Blocks : b # n => t[b] = s.store[b]
      <4>1. s.store \in [Blocks -> [Cell -> CellValue]] /\ Zeros \in [Cell -> CellValue]
        BY <1>0, StateFacts, ZerosContent
      <4> QED
        BY <2>3, <3>1, <4>1, BlockStep
    <3>3. /\ store \in [Blocks -> [Cell -> CellValue]] /\ store[ent][slot] = n
          /\ \A c \in Cell : c # slot => store[ent][c] = t[ent][c]
          /\ \A b \in Blocks : b # ent => store[b] = t[b]
      <4>1. store = WithEntry(t, ent, slot, n)
        BY <2>t, <3>1, Zenon
      <4>2. /\ WithEntry(t, ent, slot, n) \in [Blocks -> [Cell -> CellValue]]
            /\ WithEntry(t, ent, slot, n)[ent][slot] = n
            /\ \A d \in Cell : d # slot => WithEntry(t, ent, slot, n)[ent][d] = t[ent][d]
            /\ \A d \in Blocks : d # ent => WithEntry(t, ent, slot, n)[d] = t[d]
        BY <2>3, <3>2, EntryStep
      <4> QED
        BY <4>1, <4>2, Zenon
    <3> QED
      BY <2>3, <3>2, <3>3
  <2>9. /\ r \in State /\ r.din = s.din /\ r.dirty = s.dirty /\ r.free = s.free \ {n}
        /\ r.unused_blocks = s.unused_blocks - 1 /\ r.store = store /\ r.err = "OK"
    <3>1. "OK" \in Errors
      BY DEF Errors
    <3> QED
      <4>1. s.din \in [Ino -> Din] /\ s.dirty \in [Ino -> BOOLEAN]
        BY <1>0, StateFacts
      <4>2. store \in [Blocks -> [Cell -> CellValue]]
        BY <2>6
      <4> QED
        BY <2>4, <2>5, <3>1, <4>1, <4>2, StateIs
  <2>10. PICK index : index = slot + SFS_NDIRECT
    OBVIOUS
  <2>11. PICK m : m = [BlockMap(s) EXCEPT ![Pointer(f, index)] = n]
    OBVIOUS
  <2>12. /\ index \in Slots /\ index >= SFS_NDIRECT /\ index - SFS_NDIRECT = slot
         /\ Pointer(f, index) \in Pointers /\ BlockMap(s)[Pointer(f, index)] = 0
    <3>1. index \in Slots /\ index \in Slots \cup {-1} /\ index >= SFS_NDIRECT /\ index - SFS_NDIRECT = slot
      BY <2>10, SlotFacts, SfsNumbers DEF Cell
    <3>2. BlockMap(s)[Pointer(f, index)] = 0
      BY <1>0, <2>10, <3>1, MapFacts
    <3> QED
      BY <3>1, <3>2, PointerFacts
  <2>13. BlockMap(r) = m
    <3>1. ASSUME NEW g \in Ino PROVE BlockMap(r)[Pointer(g, -1)] = m[Pointer(g, -1)]
      <4>1. Pointer(g, -1) # Pointer(f, index) /\ Pointer(g, -1) \in Pointers
        BY <2>12, PointerFacts, SlotFacts
      <4>2. m[Pointer(g, -1)] = BlockMap(s)[Pointer(g, -1)]
        BY <1>0, <2>11, <4>1, MapFacts
      <4> QED
        BY <1>0, <2>9, <4>2, MapFacts
    <3>2. ASSUME NEW g \in Ino, NEW i \in Slots PROVE BlockMap(r)[Pointer(g, i)] = m[Pointer(g, i)]
      <4>1. Pointer(g, i) \in Pointers /\ (Pointer(g, i) = Pointer(f, index) <=> g = f /\ i = index)
        BY <2>12, PointerFacts, SlotFacts
      <4>2. m[Pointer(g, i)] = IF g = f /\ i = index THEN n ELSE BlockMap(s)[Pointer(g, i)]
        BY <1>0, <2>11, <4>1, MapFacts
      <4>3. CASE i < SFS_NDIRECT
        <5>1. i \in 0..(SFS_NDIRECT - 1) /\ i # index
          BY <2>12, <4>3, SlotFacts, SfsNumbers
        <5> QED
          BY <1>0, <2>9, <4>2, <5>1, MapFacts
      <4>4. CASE ~(i < SFS_NDIRECT)
        <5>1. i >= SFS_NDIRECT /\ i - SFS_NDIRECT \in Cell /\ (i - SFS_NDIRECT = slot <=> i = index)
          BY <2>12, <4>4, SfsNumbers, SlotFacts
        <5>2. PICK x : x = s.din[g].indirect
          OBVIOUS
        <5>3. /\ x \in Blocks \cup {0} /\ x # n /\ (x = ent <=> g = f)
          BY <1>0, <2>2, <2>3, <5>2, OwnedFacts, StateFacts
        <5>4. x # 0 => store[x][i - SFS_NDIRECT] =
                         IF g = f /\ i = index THEN n ELSE s.store[x][i - SFS_NDIRECT]
          BY <2>6, <5>1, <5>3
        <5>5. BlockMap(r)[Pointer(g, i)] = IF x = 0 THEN 0 ELSE store[x][i - SFS_NDIRECT]
          BY <2>9, <5>1, <5>2, MapFacts
        <5>6. BlockMap(s)[Pointer(g, i)] = IF x = 0 THEN 0 ELSE s.store[x][i - SFS_NDIRECT]
          BY <1>0, <5>1, <5>2, MapFacts
        <5> QED
          BY <2>3, <4>2, <5>3, <5>4, <5>5, <5>6
      <4> QED
        BY <4>3, <4>4
    <3>3. /\ DOMAIN m = Pointers /\ m = [p \in Pointers |-> m[p]]
          /\ DOMAIN BlockMap(r) = Pointers /\ BlockMap(r) = [p \in Pointers |-> BlockMap(r)[p]]
      BY <2>11 DEF BlockMap
    <3> QED
      BY <3>1, <3>2, <3>3, SameMap
  <2>14. Owned(BlockMap(r), r.free, r.unused_blocks)
    <3>1. Owned(m, s.free \ {n}, s.unused_blocks - 1)
      BY <2>3, <2>11, <2>12, TakeBlock DEF Sound
    <3> QED
      BY <2>9, <2>13, <3>1
  <2>15. \A g \in Ino : \A i \in 0..(r.din[g].blocks - 1) : BlockMap(r)[Pointer(g, i)] # 0
    <3>1. \A g \in Ino : \A i \in 0..(s.din[g].blocks - 1) : BlockMap(s)[Pointer(g, i)] # 0
      BY DEF Sound
    <3>2. \A p \in Pointers : m[p] = BlockMap(s)[p] \/ m[p] = n
      BY <1>0, <2>11, MapFacts
    <3>3. \A g \in Ino : \A i \in 0..(s.din[g].blocks - 1) : Pointer(g, i) \in Pointers
      BY <1>0, StateFacts, PointerFacts, SfsNumbers DEF Slots
    <3> QED
      BY <2>3, <2>9, <2>13, <3>1, <3>2, <3>3
  <2>16. \A g \in Ino : ~r.dirty[g] => SavedAs(r, disk, g)
    BY <2>9 DEF Sound, SavedAs
  <2>17. Sound(r, disk)
    BY <2>9, <2>14, <2>15, <2>16 DEF Sound
  <2>18. m[Pointer(f, index)] = n
    BY <1>0, <2>11, <2>12, MapFacts
  <2> QED
    BY <2>3, <2>9, <2>10, <2>13, <2>17, <2>18
<1> QED
  BY <1>1, <1>2

(* f with an empty indirect block n.                                        *)
WithEntries(s, f, n) ==
    MakeState(WithDin(s, f, WithIndirect(s.din[f], n)), [s.dirty EXCEPT ![f] = TRUE], s.free \ {n},
              s.unused_blocks - 1, WithBlock(s.store, n, Zeros), "OK")

(* A new indirect block has entries that name no block.                     *)
LEMMA WithEntriesSound ==
    ASSUME NEW s, NEW disk, Sound(s, disk), NEW f \in Ino, s.din[f].indirect = 0,
           NEW n \in s.free, NEW r, r = WithEntries(s, f, n)
    PROVE  /\ Sound(r, disk) /\ r.err = "OK" /\ r.din[f].indirect = n /\ r.din[f].blocks = s.din[f].blocks
           /\ \A c \in Cell : sfs_bmap_get(r, f, c + SFS_NDIRECT) = 0
           /\ r.free = s.free \ {n} /\ r.store = WithBlock(s.store, n, Zeros)
           /\ r.din = WithDin(s, f, WithIndirect(s.din[f], n))
           /\ r.dirty = [s.dirty EXCEPT ![f] = TRUE] /\ r.unused_blocks = s.unused_blocks - 1
<1>0. s \in State /\ n \in Blocks /\ n # 0
  BY SfsNumbers DEF Sound, State
<1>v. PICK v : v = s.din[f]
  OBVIOUS
<1>w. PICK w : w = WithIndirect(v, n)
  OBVIOUS
<1>1. w \in Din /\ w.indirect = n /\ w.size = v.size /\ w.blocks = v.blocks /\ w.direct = v.direct
  <2>1. v \in Din /\ n \in Blocks \cup {0}
    BY <1>0, <1>v, StateFacts
  <2> QED
    BY <1>w, <2>1, DinSteps
<1>d. PICK din : din = WithDin(s, f, w)
  OBVIOUS
<1>2. din \in [Ino -> Din] /\ din[f] = w /\ \A g \in Ino : g # f => din[g] = s.din[g]
  BY <1>0, <1>1, <1>d, DinStep
<1>t. PICK store : store = WithBlock(s.store, n, Zeros)
  OBVIOUS
<1>3. /\ store \in [Blocks -> [Cell -> CellValue]] /\ store[n] = Zeros
      /\ \A b \in Blocks : b # n => store[b] = s.store[b]
  <2>1. s.store \in [Blocks -> [Cell -> CellValue]] /\ Zeros \in [Cell -> CellValue]
    BY <1>0, StateFacts, ZerosContent
  <2> QED
    BY <1>0, <1>t, <2>1, BlockStep
<1>e. PICK dirty : dirty = [s.dirty EXCEPT ![f] = TRUE]
  OBVIOUS
<1>4. dirty \in [Ino -> BOOLEAN] /\ dirty[f] /\ \A g \in Ino : g # f => dirty[g] = s.dirty[g]
  BY <1>0, <1>e, CloseIno
<1>5. s.free \ {n} \in SUBSET Blocks /\ s.unused_blocks - 1 \in Nat
  BY <1>0, CountTake DEF Sound
<1>6. /\ r \in State /\ r.din = din /\ r.dirty = dirty /\ r.free = s.free \ {n}
      /\ r.unused_blocks = s.unused_blocks - 1 /\ r.store = store /\ r.err = "OK"
  <2>1. r = MakeState(din, dirty, s.free \ {n}, s.unused_blocks - 1, store, "OK")
    BY <1>v, <1>w, <1>d, <1>t, <1>e DEF WithEntries
  <2>2. "OK" \in Errors
    BY DEF Errors
  <2> QED
    BY <1>2, <1>3, <1>4, <1>5, <2>1, <2>2, StateIs
<1>7. PICK m : m = [BlockMap(s) EXCEPT ![Pointer(f, -1)] = n]
  OBVIOUS
<1>8. /\ Pointer(f, -1) \in Pointers /\ BlockMap(s)[Pointer(f, -1)] = 0
      /\ \A g \in Ino : s.din[g].indirect # n
  <2>1. Pointer(f, -1) \in Pointers
    BY PointerFacts
  <2>2. BlockMap(s)[Pointer(f, -1)] = 0
    BY <1>0, MapFacts
  <2> QED
    BY <2>1, <2>2, OwnedFacts
<1>9. BlockMap(r) = m
  <2>1. ASSUME NEW g \in Ino PROVE BlockMap(r)[Pointer(g, -1)] = m[Pointer(g, -1)]
    <3>1. Pointer(g, -1) \in Pointers /\ (Pointer(g, -1) = Pointer(f, -1) <=> g = f)
      BY PointerFacts
    <3>2. m[Pointer(g, -1)] = IF g = f THEN n ELSE BlockMap(s)[Pointer(g, -1)]
      BY <1>0, <1>7, <3>1, MapFacts
    <3>3. r.din[g].indirect = IF g = f THEN n ELSE s.din[g].indirect
      BY <1>1, <1>2, <1>6
    <3> QED
      BY <1>0, <1>6, <3>2, <3>3, MapFacts
  <2>2. ASSUME NEW g \in Ino, NEW i \in Slots PROVE BlockMap(r)[Pointer(g, i)] = m[Pointer(g, i)]
    <3>1. Pointer(g, i) \in Pointers /\ Pointer(g, i) # Pointer(f, -1)
      BY PointerFacts, SlotFacts
    <3>2. m[Pointer(g, i)] = BlockMap(s)[Pointer(g, i)]
      BY <1>0, <1>7, <3>1, MapFacts
    <3>3. CASE i < SFS_NDIRECT
      <4>1. i \in 0..(SFS_NDIRECT - 1) /\ r.din[g].direct = s.din[g].direct
        BY <1>1, <1>2, <1>6, <1>v, <3>3, SlotFacts
      <4> QED
        BY <1>0, <1>6, <3>2, <4>1, MapFacts
    <3>4. CASE ~(i < SFS_NDIRECT)
      <4>1. i >= SFS_NDIRECT /\ i - SFS_NDIRECT \in Cell
        BY <3>4, SfsNumbers, SlotFacts
      <4>2. PICK x, y : x = s.din[g].indirect /\ y = r.din[g].indirect
        OBVIOUS
      <4>3. /\ x \in Blocks \cup {0} /\ x # n
            /\ IF g = f THEN x = 0 /\ y = n ELSE y = x
        BY <1>0, <1>1, <1>2, <1>6, <1>8, <4>2, StateFacts
      <4>4. BlockMap(r)[Pointer(g, i)] = IF y = 0 THEN 0 ELSE store[y][i - SFS_NDIRECT]
        BY <1>6, <4>1, <4>2, MapFacts
      <4>5. BlockMap(s)[Pointer(g, i)] = IF x = 0 THEN 0 ELSE s.store[x][i - SFS_NDIRECT]
        BY <1>0, <4>1, <4>2, MapFacts
      <4>6. x # 0 => store[x] = s.store[x]
        BY <1>3, <4>3
      <4>7. store[n][i - SFS_NDIRECT] = 0
        BY <1>3, <4>1, ZerosContent
      <4> QED
        BY <3>2, <4>3, <4>4, <4>5, <4>6, <4>7
    <3> QED
      BY <3>3, <3>4
  <2>3. /\ DOMAIN m = Pointers /\ m = [p \in Pointers |-> m[p]]
        /\ DOMAIN BlockMap(r) = Pointers /\ BlockMap(r) = [p \in Pointers |-> BlockMap(r)[p]]
    BY <1>7 DEF BlockMap
  <2> QED
    BY <2>1, <2>2, <2>3, SameMap
<1>10. Owned(BlockMap(r), r.free, r.unused_blocks)
  <2>1. Owned(m, s.free \ {n}, s.unused_blocks - 1)
    BY <1>7, <1>8, TakeBlock DEF Sound
  <2> QED
    BY <1>6, <1>9, <2>1
<1>11. \A g \in Ino : r.din[g].blocks = s.din[g].blocks
  BY <1>1, <1>2, <1>6, <1>v
<1>12. \A g \in Ino : \A i \in 0..(r.din[g].blocks - 1) : BlockMap(r)[Pointer(g, i)] # 0
  <2>1. \A g \in Ino : \A i \in 0..(s.din[g].blocks - 1) : BlockMap(s)[Pointer(g, i)] # 0
    BY DEF Sound
  <2>2. \A p \in Pointers : m[p] = BlockMap(s)[p] \/ m[p] = n
    BY <1>0, <1>7, MapFacts
  <2>3. \A g \in Ino : \A i \in 0..(s.din[g].blocks - 1) : Pointer(g, i) \in Pointers
    BY <1>0, StateFacts, PointerFacts, SfsNumbers DEF Slots
  <2> QED
    BY <1>0, <1>9, <1>11, <2>1, <2>2, <2>3
<1>13. \A g \in Ino : ~r.dirty[g] => SavedAs(r, disk, g)
  BY <1>2, <1>4, <1>6 DEF Sound, SavedAs
<1>14. Sound(r, disk)
  BY <1>6, <1>10, <1>12, <1>13 DEF Sound
<1>15. ASSUME NEW c \in Cell PROVE sfs_bmap_get(r, f, c + SFS_NDIRECT) = 0
  <2>1. ~(c + SFS_NDIRECT < SFS_NDIRECT) /\ (c + SFS_NDIRECT) - SFS_NDIRECT = c
    BY SfsNumbers DEF Cell
  <2>2. r.din[f].indirect = n /\ r.store[n][c] = 0
    BY <1>1, <1>2, <1>3, <1>6, ZerosContent
  <2> QED
    BY <2>1, <2>2 DEF sfs_bmap_get
<1> QED
  BY <1>1, <1>2, <1>6, <1>11, <1>14, <1>15, <1>v, <1>w, <1>d, <1>t, <1>e

(* sfs_bmap_get_sub_nolock, with an indirect block or without.              *)
LEMMA AddIndirectSound ==
    ASSUME NEW s, NEW disk, Sound(s, disk), s.err = "OK", NEW f \in Ino, NEW slot \in Cell,
           sfs_bmap_get(s, f, slot + SFS_NDIRECT) = 0, NEW r, r = AddIndirect(s, f, slot)
    PROVE  /\ Sound(r, disk) /\ r.din[f].blocks = s.din[f].blocks
           /\ r.err = "OK" => BlockMap(r)[Pointer(f, slot + SFS_NDIRECT)] # 0
<1>0. s \in State /\ "E_NO_MEM" \in Errors /\ "E_NO_MEM" # "OK"
  BY DEF Sound, Errors
<1>f. ASSUME r = Fail(s, "E_NO_MEM")
      PROVE  Sound(r, disk) /\ r.din[f].blocks = s.din[f].blocks /\ r.err # "OK"
  BY <1>0, <1>f, SoundErr
<1>1. CASE s.din[f].indirect # 0
  BY <1>1, AddEntrySound
<1>2. CASE s.din[f].indirect = 0 /\ s.free = {}
  <2>1. sfs_block_alloc(s) = Fail(s, "E_NO_MEM")
    BY <1>2 DEF sfs_block_alloc
  <2>2. Fail(s, "E_NO_MEM").err = "E_NO_MEM"
    BY <1>0, SoundErr
  <2>3. r = Fail(s, "E_NO_MEM")
    BY <1>0, <1>2, <2>1, <2>2 DEF AddIndirect
  <2> QED
    BY <1>f, <2>3
<1>3. CASE s.din[f].indirect = 0 /\ s.free # {}
  <2>n. PICK n : n = NewBlock(s)
    OBVIOUS
  <2>1. n \in s.free /\ n \in Blocks /\ n # 0
    BY <1>0, <1>3, <2>n, NewBlockIsFree
  <2>u. PICK u : u = WithEntries(s, f, n)
    OBVIOUS
  <2>2. /\ Sound(u, disk) /\ u.err = "OK" /\ u.din[f].indirect = n /\ u.din[f].blocks = s.din[f].blocks
        /\ \A c \in Cell : sfs_bmap_get(u, f, c + SFS_NDIRECT) = 0
        /\ u.free = s.free \ {n} /\ u.store = WithBlock(s.store, n, Zeros)
        /\ u.din = WithDin(s, f, WithIndirect(s.din[f], n))
        /\ u.dirty = [s.dirty EXCEPT ![f] = TRUE] /\ u.unused_blocks = s.unused_blocks - 1
    BY <1>3, <2>1, <2>u, WithEntriesSound
  <2>e. PICK e : e = sfs_block_alloc(s)
    OBVIOUS
  <2>3. e = MakeState(s.din, s.dirty, u.free, u.unused_blocks, u.store, "OK")
    BY <1>0, <1>3, <2>n, <2>2, <2>e DEF sfs_block_alloc, MakeState, WithBlock, State
  <2>4. e.err = "OK" /\ e.free = u.free
    BY <2>3 DEF MakeState
  <2>5. r = IF sfs_block_alloc(e).err # "OK" THEN Fail(s, sfs_block_alloc(e).err)
            ELSE [sfs_block_alloc(e) EXCEPT !.store[n][slot] = NewBlock(e), !.din[f].indirect = n,
                                            !.dirty[f] = @ \/ TRUE]
    BY <1>3, <2>n, <2>e, <2>4 DEF AddIndirect
  <2>6. CASE u.free = {}
    <3>1. sfs_block_alloc(e) = Fail(e, "E_NO_MEM")
      BY <2>4, <2>6 DEF sfs_block_alloc
    <3>2. Fail(e, "E_NO_MEM").err = "E_NO_MEM"
      BY <2>3 DEF MakeState, Fail
    <3>3. r = Fail(s, "E_NO_MEM")
      BY <1>0, <2>5, <3>1, <3>2
    <3> QED
      BY <1>f, <3>3
  <2>7. CASE u.free # {}
    <3>b. PICK b : b = NewBlock(e)
      OBVIOUS
    <3>1. b = NewBlock(u)
      BY <2>4, <3>b DEF NewBlock
    <3>a. PICK a : a = sfs_block_alloc(e)
      OBVIOUS
    <3>2. a = MakeState(s.din, s.dirty, u.free \ {b}, u.unused_blocks - 1, WithBlock(u.store, b, Zeros), "OK")
      BY <2>3, <2>4, <2>7, <3>a, <3>b DEF sfs_block_alloc, MakeState, WithBlock
    <3>3. a.err = "OK"
      BY <3>2 DEF MakeState
    <3>4. r = [a EXCEPT !.store[n][slot] = b, !.din[f].indirect = n, !.dirty[f] = @ \/ TRUE]
      BY <2>5, <3>a, <3>b, <3>3
    <3>5. r = MakeState(WithDin(s, f, WithIndirect(s.din[f], n)), [s.dirty EXCEPT ![f] = TRUE], u.free \ {b},
                        u.unused_blocks - 1, WithEntry(WithBlock(u.store, b, Zeros), n, slot, b), "OK")
      <4>1. [s.dirty EXCEPT ![f] = @ \/ TRUE] = [s.dirty EXCEPT ![f] = TRUE]
        OBVIOUS
      <4> QED
        BY <3>2, <3>4, <4>1 DEF MakeState, WithDin, WithIndirect, WithEntry
    <3>6. r = AddIndirect(u, f, slot)
      <4>0. u \in State
        BY <2>2 DEF Sound
      <4>c. PICK c : c = sfs_block_alloc(u)
        OBVIOUS
      <4>1. c = MakeState(u.din, u.dirty, u.free \ {b}, u.unused_blocks - 1, WithBlock(u.store, b, Zeros), "OK")
        BY <2>2, <2>7, <3>1, <4>0, <4>c DEF sfs_block_alloc, MakeState, WithBlock, State
      <4>2. c.err = "OK"
        BY <4>1 DEF MakeState
      <4>3. AddIndirect(u, f, slot) = [c EXCEPT !.store[n][slot] = b, !.din[f].indirect = n,
                                                !.dirty[f] = @ \/ FALSE]
        BY <2>1, <2>2, <3>1, <4>c, <4>2 DEF AddIndirect
      <4>4. [u.din EXCEPT ![f].indirect = n] = u.din
        <5>1. [u.din[f] EXCEPT !.indirect = n] = u.din[f]
          BY <2>2, <4>0, StateFacts DEF Din
        <5> QED
          BY <4>0, <5>1, StateFacts
      <4>5. [u.dirty EXCEPT ![f] = @ \/ FALSE] = u.dirty
        <5>1. (u.dirty[f] \/ FALSE) = u.dirty[f]
          <6>1. u.dirty[f] \in BOOLEAN
            BY <4>0, StateFacts
          <6> QED
            BY <6>1, Zenon
        <5>2. [u.dirty EXCEPT ![f] = u.dirty[f]] = u.dirty
          BY <4>0, StateFacts
        <5> QED
          BY <5>1, <5>2, Zenon
      <4>6. AddIndirect(u, f, slot) =
               MakeState(u.din, u.dirty, u.free \ {b}, u.unused_blocks - 1,
                         WithEntry(WithBlock(u.store, b, Zeros), n, slot, b), "OK")
        <5>1. AddIndirect(u, f, slot) = Entered(c, f, n, slot, b)
          BY <4>3 DEF Entered
        <5>2. Entered(MakeState(u.din, u.dirty, u.free \ {b}, u.unused_blocks - 1,
                                WithBlock(u.store, b, Zeros), "OK"), f, n, slot, b) =
                 MakeState(u.din, u.dirty, u.free \ {b}, u.unused_blocks - 1,
                           WithEntry(WithBlock(u.store, b, Zeros), n, slot, b), "OK")
          <6>1. SameInode(u.din, f, n) /\ SameMark(u.dirty, f)
            BY <4>4, <4>5 DEF SameInode, SameMark
          <6> QED
            BY <6>1, EntryMade
        <5> QED
          BY <4>1, <5>1, <5>2
      <4> QED
        BY <2>2, <3>5, <4>6
    <3>7. /\ Sound(r, disk) /\ r.din[f].blocks = u.din[f].blocks
          /\ r.err = "OK" => BlockMap(r)[Pointer(f, slot + SFS_NDIRECT)] # 0
      BY <2>1, <2>2, <3>6, AddEntrySound
    <3> QED
      BY <2>2, <3>7
  <2> QED
    BY <2>6, <2>7
<1> QED
  BY <1>1, <1>2, <1>3

(* The inode of f is w, marked dirty or not.                                *)
SetDin(s, f, w, mark) ==
    MakeState(WithDin(s, f, w), [s.dirty EXCEPT ![f] = mark], s.free, s.unused_blocks, s.store, s.err)

(* Nothing but sizes and marks changes: the blocks stay where they are.     *)
LEMMA SetDinSound ==
    ASSUME NEW s, NEW disk, Sound(s, disk), NEW f \in Ino, NEW w \in Din, NEW mark \in BOOLEAN,
           w.direct = s.din[f].direct, w.indirect = s.din[f].indirect,
           \A i \in 0..(w.blocks - 1) : BlockMap(s)[Pointer(f, i)] # 0,
           NEW new \in [Ino -> Din], \A g \in Ino : g # f => new[g] = disk[g],
           ~mark => /\ new[f].direct = w.direct /\ new[f].indirect = w.indirect
                    /\ new[f].size = w.size /\ new[f].blocks <= w.blocks,
           NEW r, r = SetDin(s, f, w, mark)
    PROVE  /\ Sound(r, new) /\ BlockMap(r) = BlockMap(s) /\ r.err = s.err /\ r.din[f] = w
           /\ r.dirty[f] = mark /\ r.store = s.store /\ r.free = s.free
           /\ \A g \in Ino : g # f => r.din[g] = s.din[g] /\ r.dirty[g] = s.dirty[g]
<1>0. s \in State
  BY DEF Sound
<1>d. PICK din : din = WithDin(s, f, w)
  OBVIOUS
<1>e. PICK dirty : dirty = [s.dirty EXCEPT ![f] = mark]
  OBVIOUS
<1>1. din \in [Ino -> Din] /\ din[f] = w /\ \A g \in Ino : g # f => din[g] = s.din[g]
  BY <1>0, <1>d, DinStep
<1>2. dirty \in [Ino -> BOOLEAN] /\ dirty[f] = mark /\ \A g \in Ino : g # f => dirty[g] = s.dirty[g]
  BY <1>0, <1>e, StateFacts
<1>3. /\ r \in State /\ r.din = din /\ r.dirty = dirty /\ r.free = s.free
      /\ r.unused_blocks = s.unused_blocks /\ r.store = s.store /\ r.err = s.err
  <2>1. r = MakeState(din, dirty, s.free, s.unused_blocks, s.store, s.err)
    BY <1>d, <1>e DEF SetDin
  <2>2. /\ s.free \in SUBSET Blocks /\ s.unused_blocks \in Nat
        /\ s.store \in [Blocks -> [Cell -> CellValue]] /\ s.err \in Errors
    BY <1>0, StateFacts
  <2> QED
    BY <1>1, <1>2, <2>1, <2>2, StateIs
<1>4. \A g \in Ino : r.din[g].direct = s.din[g].direct /\ r.din[g].indirect = s.din[g].indirect
  BY <1>1, <1>3
<1>5. BlockMap(r) = BlockMap(s)
  <2>1. ASSUME NEW p \in Pointers PROVE Held(r, p) = Held(s, p)
    <3>1. p.of \in Ino
      BY PointerFacts
    <3> QED
      BY <1>3, <1>4, <3>1 DEF Held, sfs_bmap_get
  <2> QED
    BY <2>1 DEF BlockMap
<1>6. \A g \in Ino : \A i \in 0..(r.din[g].blocks - 1) : BlockMap(r)[Pointer(g, i)] # 0
  BY <1>1, <1>3, <1>5 DEF Sound
<1>7. \A g \in Ino : ~r.dirty[g] => SavedAs(r, new, g)
  BY <1>1, <1>2, <1>3 DEF Sound, SavedAs
<1>8. Sound(r, new)
  BY <1>3, <1>5, <1>6, <1>7 DEF Sound
<1> QED
  BY <1>1, <1>2, <1>3, <1>5, <1>8

(* sfs_bmap_load_nolock: afterwards the block is one of f's, or the call    *)
(* has failed.                                                              *)
LEMMA LoadSound ==
    ASSUME NEW s, NEW disk, Sound(s, disk), NEW f \in Ino, NEW index \in Nat,
           NEW r, r = sfs_bmap_load(s, f, index)
    PROVE  /\ Sound(r, disk)
           /\ r.err = "OK" => index < r.din[f].blocks
<1>0. /\ s \in State /\ s.din[f] \in Din
      /\ s.din[f].blocks \in 0..(SFS_NDIRECT + SFS_BLK_NENTRY)
  BY StateFacts DEF Sound
<1>b. PICK blocks : blocks = s.din[f].blocks
  OBVIOUS
<1>g. PICK got : got = IF index < blocks \/ sfs_bmap_get(s, f, index) # 0 THEN s
                       ELSE IF index < SFS_NDIRECT THEN AddDirect(s, f, index)
                       ELSE AddIndirect(s, f, index - SFS_NDIRECT)
  OBVIOUS
<1>r. r = IF s.err # "OK" THEN s
          ELSE IF index > blocks THEN Fail(s, "index <= din->blocks")
          ELSE IF index >= SFS_NDIRECT + SFS_BLK_NENTRY THEN Fail(s, "index out of range")
          ELSE IF got.err # "OK" \/ index < blocks THEN got
          ELSE [got EXCEPT !.din[f].blocks = @ + 1]
  BY <1>b, <1>g DEF sfs_bmap_load
<1>1. CASE s.err # "OK"
  BY <1>r, <1>1
<1>2. CASE s.err = "OK" /\ index > blocks
  <2>1. "index <= din->blocks" \in Errors /\ "index <= din->blocks" # "OK"
    BY DEF Errors, Panics
  <2> QED
    BY <1>r, <1>2, <2>1, SoundErr
<1>3. CASE s.err = "OK" /\ ~(index > blocks) /\ index >= SFS_NDIRECT + SFS_BLK_NENTRY
  <2>1. "index out of range" \in Errors /\ "index out of range" # "OK"
    BY DEF Errors, Panics
  <2> QED
    BY <1>r, <1>3, <2>1, SoundErr
<1>4. CASE s.err = "OK" /\ index < blocks /\ ~(index >= SFS_NDIRECT + SFS_BLK_NENTRY)
  <2>1. ~(index > blocks)
    BY <1>0, <1>b, <1>4
  <2>2. r = s
    BY <1>g, <1>r, <1>4, <2>1
  <2> QED
    BY <1>b, <1>4, <2>2
<1>5. CASE s.err = "OK" /\ index = blocks /\ ~(index >= SFS_NDIRECT + SFS_BLK_NENTRY)
  <2>0. ~(index < blocks) /\ ~(index > blocks) /\ index \in Slots
    BY <1>0, <1>b, <1>5, SfsNumbers DEF Slots
  <2>1. /\ Sound(got, disk) /\ got.din[f].blocks = blocks
        /\ got.err = "OK" => BlockMap(got)[Pointer(f, index)] # 0
    <3>1. CASE sfs_bmap_get(s, f, index) # 0
      <4>1. got = s
        BY <1>g, <3>1
      <4>2. BlockMap(s)[Pointer(f, index)] = sfs_bmap_get(s, f, index)
        BY <1>0, <2>0, MapFacts
      <4> QED
        BY <1>b, <3>1, <4>1, <4>2
    <3>2. CASE sfs_bmap_get(s, f, index) = 0 /\ index < SFS_NDIRECT
      <4>1. got = AddDirect(s, f, index) /\ index \in 0..(SFS_NDIRECT - 1)
        BY <1>g, <2>0, <3>2, SlotFacts
      <4> QED
        BY <1>b, <1>5, <3>2, <4>1, AddDirectSound
    <3>3. CASE sfs_bmap_get(s, f, index) = 0 /\ ~(index < SFS_NDIRECT)
      <4>1. got = AddIndirect(s, f, index - SFS_NDIRECT)
        BY <1>g, <2>0, <3>3
      <4>s. PICK slot : slot = index - SFS_NDIRECT
        OBVIOUS
      <4>2. slot \in Cell /\ slot + SFS_NDIRECT = index
        BY <2>0, <3>3, <4>s, SfsNumbers, SlotFacts
      <4>3. got = AddIndirect(s, f, slot) /\ sfs_bmap_get(s, f, slot + SFS_NDIRECT) = 0
        BY <3>3, <4>1, <4>2, <4>s
      <4>4. /\ Sound(got, disk) /\ got.din[f].blocks = s.din[f].blocks
            /\ got.err = "OK" => BlockMap(got)[Pointer(f, slot + SFS_NDIRECT)] # 0
        BY <1>5, <4>2, <4>3, AddIndirectSound
      <4> QED
        BY <1>b, <4>2, <4>4
    <3> QED
      BY <3>1, <3>2, <3>3
  <2>2. CASE got.err # "OK"
    <3>1. r = got
      BY <1>r, <1>5, <2>0, <2>2
    <3> QED
      BY <2>1, <2>2, <3>1
  <2>3. CASE got.err = "OK"
    <3>1. r = [got EXCEPT !.din[f].blocks = @ + 1]
      BY <1>r, <1>5, <2>0, <2>3
    <3>2. got \in State /\ got.din[f] \in Din /\ disk \in [Ino -> Din]
      BY <2>1, StateFacts DEF Sound
    <3>w. PICK w : w = WithBlocks(got.din[f], index + 1)
      OBVIOUS
    <3>3. w \in Din /\ w.blocks = index + 1 /\ w.size = got.din[f].size
          /\ w.indirect = got.din[f].indirect /\ w.direct = got.din[f].direct
      <4>1. index + 1 \in 0..(SFS_NDIRECT + SFS_BLK_NENTRY)
        BY <1>5, SfsNumbers
      <4> QED
        BY <3>2, <3>w, <4>1, DinSteps
    <3>m. PICK mark : mark = got.dirty[f]
      OBVIOUS
    <3>4. r = SetDin(got, f, w, mark)
      <4>1. [got.dirty EXCEPT ![f] = mark] = got.dirty
        BY <3>2, <3>m, StateFacts
      <4>2. [got.din EXCEPT ![f].blocks = @ + 1] = WithDin(got, f, w)
        BY <1>5, <2>1, <3>w DEF WithDin, WithBlocks
      <4>3. r = [got EXCEPT !.din = WithDin(got, f, w)]
        BY <3>1, <3>2, <4>2 DEF State
      <4> QED
        BY <3>2, <4>1, <4>3 DEF SetDin, MakeState, State
    <3>5. \A i \in 0..(w.blocks - 1) : BlockMap(got)[Pointer(f, i)] # 0
      <4>1. \A i \in 0..(w.blocks - 1) : i \in 0..(got.din[f].blocks - 1) \/ i = index
        BY <1>5, <2>1, <3>3
      <4> QED
        BY <2>1, <2>3, <4>1 DEF Sound
    <3>6. ~mark => /\ disk[f].direct = w.direct /\ disk[f].indirect = w.indirect
                   /\ disk[f].size = w.size /\ disk[f].blocks <= w.blocks
      <4>1. ~mark => /\ disk[f].direct = w.direct /\ disk[f].indirect = w.indirect
                     /\ disk[f].size = w.size /\ disk[f].blocks <= index
        BY <1>5, <2>1, <3>3, <3>m DEF Sound, SavedAs
      <4>2. disk[f].blocks \in Nat
        BY <3>2 DEF Din
      <4> QED
        BY <3>3, <4>1, <4>2
    <3>7. mark \in BOOLEAN /\ \A g \in Ino : g # f => disk[g] = disk[g]
      BY <3>2, <3>m, StateFacts
    <3>8. Sound(r, disk) /\ r.din[f] = w
      BY <2>1, <3>2, <3>3, <3>4, <3>5, <3>6, <3>7, SetDinSound
    <3> QED
      BY <3>3, <3>8
  <2> QED
    BY <2>2, <2>3
<1> QED
  BY <1>0, <1>b, <1>1, <1>2, <1>3, <1>4, <1>5

(* sfs_bmap_free_nolock of a block behind the ones the inode counts.        *)
LEMMA FreeSound ==
    ASSUME NEW s, NEW disk, Sound(s, disk), NEW f \in Ino, NEW index \in Slots,
           index >= s.din[f].blocks, s.dirty[f], BlockMap(s)[Pointer(f, index)] # 0,
           NEW r, r = sfs_bmap_free(s, f, index)
    PROVE  Sound(r, disk) /\ r.err = s.err /\ r.din[f].blocks = s.din[f].blocks
<1>0. /\ s \in State /\ s.free \subseteq Blocks /\ s.unused_blocks = Cardinality(s.free)
      /\ s.unused_blocks \in Nat /\ s.err \in Errors /\ s.dirty \in [Ino -> BOOLEAN]
      /\ s.store \in [Blocks -> [Cell -> CellValue]] /\ s.din \in [Ino -> Din] /\ s.din[f] \in Din
      /\ 0 \in CellValue /\ 0 \in Blocks \cup {0}
  BY OwnedFacts, StateFacts DEF CellValue
<1>b. PICK b : b = sfs_bmap_get(s, f, index)
  OBVIOUS
<1>1. /\ b = BlockMap(s)[Pointer(f, index)] /\ b \in Blocks /\ b # 0 /\ b \notin s.free
      /\ Pointer(f, index) \in Pointers
      /\ \A g \in Ino : s.din[g].indirect # b
  <2>1. b = BlockMap(s)[Pointer(f, index)]
    BY <1>0, <1>b, MapFacts
  <2>2. Pointer(f, index) \in Pointers
    BY PointerFacts, SlotFacts
  <2> QED
    BY <2>1, <2>2, OwnedFacts
<1>2. s.free \cup {b} \in SUBSET Blocks /\ s.unused_blocks + 1 \in Nat
  BY <1>0, <1>1
<1>m. PICK m : m = [BlockMap(s) EXCEPT ![Pointer(f, index)] = 0]
  OBVIOUS
<1>3. Owned(m, s.free \cup {b}, s.unused_blocks + 1)
  BY <1>1, <1>m, GiveBlock DEF Sound
<1>4. \A p \in Pointers : m[p] = IF p = Pointer(f, index) THEN 0 ELSE BlockMap(s)[p]
  BY <1>0, <1>1, <1>m, MapFacts
<1>5. ASSUME r \in State, r.free = s.free \cup {b}, r.unused_blocks = s.unused_blocks + 1, r.dirty = s.dirty,
             \A g \in Ino : /\ r.din[g].blocks = s.din[g].blocks
                            /\ g # f => r.din[g] = s.din[g],
             \A g \in Ino : BlockMap(r)[Pointer(g, -1)] = m[Pointer(g, -1)],
             \A g \in Ino : \A i \in Slots : BlockMap(r)[Pointer(g, i)] = m[Pointer(g, i)]
      PROVE  Sound(r, disk)
  <2>1. /\ DOMAIN m = Pointers /\ m = [p \in Pointers |-> m[p]]
        /\ DOMAIN BlockMap(r) = Pointers /\ BlockMap(r) = [p \in Pointers |-> BlockMap(r)[p]]
    BY <1>m DEF BlockMap
  <2>2. BlockMap(r) = m
    BY <1>5, <2>1, SameMap
  <2>3. \A g \in Ino : \A i \in 0..(r.din[g].blocks - 1) : BlockMap(r)[Pointer(g, i)] # 0
    <3> SUFFICES ASSUME NEW g \in Ino, NEW i \in 0..(s.din[g].blocks - 1)
                 PROVE  m[Pointer(g, i)] # 0
      BY <1>5, <2>2
    <3>1. BlockMap(s)[Pointer(g, i)] # 0
      BY DEF Sound
    <3>2. s.din[g].blocks \in 0..(SFS_NDIRECT + SFS_BLK_NENTRY)
      BY <1>0, StateFacts
    <3>3. i \in Slots /\ (g = f => i < index)
      BY <3>2, SfsNumbers, SlotFacts DEF Slots
    <3>4. Pointer(g, i) \in Pointers /\ Pointer(g, i) # Pointer(f, index)
      BY <3>3, PointerFacts, SlotFacts
    <3> QED
      BY <1>4, <3>1, <3>4
  <2>4. \A g \in Ino : ~r.dirty[g] => SavedAs(r, disk, g)
    BY <1>5 DEF Sound, SavedAs
  <2>5. Owned(BlockMap(r), r.free, r.unused_blocks)
    BY <1>3, <1>5, <2>2
  <2>6. disk \in [Ino -> Din]
    BY DEF Sound
  <2> QED
    BY <1>5, <2>3, <2>4, <2>5, <2>6 DEF Sound
<1>6. CASE index < SFS_NDIRECT
  <2>1. index \in 0..(SFS_NDIRECT - 1)
    BY <1>6, SlotFacts
  <2>w. PICK w : w = WithDirect(s.din[f], index, 0)
    OBVIOUS
  <2>2. /\ w \in Din /\ w.size = s.din[f].size /\ w.blocks = s.din[f].blocks
        /\ w.indirect = s.din[f].indirect /\ w.direct[index] = 0
        /\ \A i \in 0..(SFS_NDIRECT - 1) : i # index => w.direct[i] = s.din[f].direct[i]
    BY <1>0, <2>1, <2>w, DirectStep
  <2>d. PICK din : din = WithDin(s, f, w)
    OBVIOUS
  <2>3. din \in [Ino -> Din] /\ din[f] = w /\ \A g \in Ino : g # f => din[g] = s.din[g]
    BY <1>0, <2>2, <2>d, DinStep
  <2>4. r = MakeState(din, s.dirty, s.free \cup {b}, s.unused_blocks + 1, s.store, s.err)
    BY <1>0, <1>1, <1>6, <1>b, <2>d, <2>w
       DEF sfs_bmap_free, sfs_block_free, MakeState, WithDin, WithDirect, State
  <2>5. /\ r \in State /\ r.din = din /\ r.dirty = s.dirty /\ r.free = s.free \cup {b}
        /\ r.unused_blocks = s.unused_blocks + 1 /\ r.store = s.store /\ r.err = s.err
    BY <1>0, <1>2, <2>3, <2>4, StateIs
  <2>6. ASSUME NEW g \in Ino PROVE BlockMap(r)[Pointer(g, -1)] = m[Pointer(g, -1)]
    <3>1. Pointer(g, -1) \in Pointers /\ Pointer(g, -1) # Pointer(f, index)
      BY PointerFacts, SlotFacts
    <3>2. r.din[g].indirect = s.din[g].indirect
      BY <2>2, <2>3, <2>5
    <3> QED
      BY <1>0, <1>4, <2>5, <3>1, <3>2, MapFacts
  <2>7. ASSUME NEW g \in Ino, NEW i \in Slots PROVE BlockMap(r)[Pointer(g, i)] = m[Pointer(g, i)]
    <3>1. Pointer(g, i) \in Pointers /\ (Pointer(g, i) = Pointer(f, index) <=> g = f /\ i = index)
      BY PointerFacts, SlotFacts
    <3>2. m[Pointer(g, i)] = IF g = f /\ i = index THEN 0 ELSE BlockMap(s)[Pointer(g, i)]
      BY <1>4, <3>1
    <3>3. CASE i < SFS_NDIRECT
      <4>1. i \in 0..(SFS_NDIRECT - 1)
        BY <3>3, SlotFacts
      <4>2. r.din[g].direct[i] = IF g = f /\ i = index THEN 0 ELSE s.din[g].direct[i]
        BY <2>2, <2>3, <2>5, <4>1
      <4> QED
        BY <1>0, <2>5, <3>2, <4>1, <4>2, MapFacts
    <3>4. CASE ~(i < SFS_NDIRECT)
      <4>1. i >= SFS_NDIRECT /\ i # index
        BY <1>6, <3>4, SfsNumbers, SlotFacts
      <4>2. r.din[g].indirect = s.din[g].indirect
        BY <2>2, <2>3, <2>5
      <4> QED
        BY <1>0, <2>5, <3>2, <4>1, <4>2, MapFacts
    <3> QED
      BY <3>3, <3>4
  <2>8. \A g \in Ino : r.din[g].blocks = s.din[g].blocks /\ (g # f => r.din[g] = s.din[g])
    BY <2>2, <2>3, <2>5
  <2>9. Sound(r, disk)
    BY <1>5, <2>5, <2>6, <2>7, <2>8
  <2> QED
    BY <2>5, <2>8, <2>9
<1>7. CASE ~(index < SFS_NDIRECT)
  <2>x. PICK x, slot : x = s.din[f].indirect /\ slot = index - SFS_NDIRECT
    OBVIOUS
  <2>1. /\ slot \in Cell /\ index >= SFS_NDIRECT /\ x \in Blocks /\ x # 0
        /\ b = s.store[x][slot]
    <3>1. slot \in Cell /\ index >= SFS_NDIRECT
      BY <1>7, <2>x, SfsNumbers, SlotFacts
    <3>2. b = IF x = 0 THEN 0 ELSE s.store[x][slot]
      BY <1>7, <1>b, <2>x DEF sfs_bmap_get
    <3>3. x \in Blocks \cup {0}
      BY <1>0, <2>x, StateFacts
    <3> QED
      BY <1>1, <3>1, <3>2, <3>3
  <2>t. PICK store : store = WithEntry(s.store, x, slot, 0)
    OBVIOUS
  <2>3. /\ store \in [Blocks -> [Cell -> CellValue]] /\ store[x][slot] = 0
        /\ \A c \in Cell : c # slot => store[x][c] = s.store[x][c]
        /\ \A d \in Blocks : d # x => store[d] = s.store[d]
    <3>1. /\ WithEntry(s.store, x, slot, 0) \in [Blocks -> [Cell -> CellValue]]
          /\ WithEntry(s.store, x, slot, 0)[x][slot] = 0
          /\ \A d \in Cell : d # slot => WithEntry(s.store, x, slot, 0)[x][d] = s.store[x][d]
          /\ \A d \in Blocks : d # x => WithEntry(s.store, x, slot, 0)[d] = s.store[d]
      BY <1>0, <2>1, EntryStep
    <3> QED
      BY <2>t, <3>1, Zenon
  <2>4. r = MakeState(s.din, s.dirty, s.free \cup {b}, s.unused_blocks + 1, store, s.err)
    BY <1>0, <1>1, <1>7, <1>b, <2>t, <2>x
       DEF sfs_bmap_free, sfs_block_free, MakeState, WithEntry, State
  <2>5. /\ r \in State /\ r.din = s.din /\ r.dirty = s.dirty /\ r.free = s.free \cup {b}
        /\ r.unused_blocks = s.unused_blocks + 1 /\ r.store = store /\ r.err = s.err
    <3>1. /\ s.din \in [Ino -> Din] /\ s.dirty \in [Ino -> BOOLEAN] /\ s.err \in Errors
      BY <1>0
    <3>2. store \in [Blocks -> [Cell -> CellValue]]
      BY <2>3
    <3> QED
      BY <1>2, <2>4, <3>1, <3>2, StateIs
  <2>6. ASSUME NEW g \in Ino PROVE BlockMap(r)[Pointer(g, -1)] = m[Pointer(g, -1)]
    <3>1. Pointer(g, -1) \in Pointers /\ Pointer(g, -1) # Pointer(f, index)
      BY PointerFacts, SlotFacts
    <3> QED
      BY <1>0, <1>4, <2>5, <3>1, MapFacts
  <2>7. ASSUME NEW g \in Ino, NEW i \in Slots PROVE BlockMap(r)[Pointer(g, i)] = m[Pointer(g, i)]
    <3>1. Pointer(g, i) \in Pointers /\ (Pointer(g, i) = Pointer(f, index) <=> g = f /\ i = index)
      BY PointerFacts, SlotFacts
    <3>2. m[Pointer(g, i)] = IF g = f /\ i = index THEN 0 ELSE BlockMap(s)[Pointer(g, i)]
      BY <1>4, <3>1
    <3>3. CASE i < SFS_NDIRECT
      <4>1. i \in 0..(SFS_NDIRECT - 1) /\ i # index
        BY <1>7, <3>3, SlotFacts
      <4> QED
        BY <1>0, <2>5, <3>2, <4>1, MapFacts
    <3>4. CASE ~(i < SFS_NDIRECT)
      <4>1. i >= SFS_NDIRECT /\ i - SFS_NDIRECT \in Cell /\ (i - SFS_NDIRECT = slot <=> i = index)
        BY <2>x, <3>4, SfsNumbers, SlotFacts
      <4>y. PICK y : y = s.din[g].indirect
        OBVIOUS
      <4>2. y \in Blocks \cup {0} /\ (y = x <=> g = f)
        BY <1>0, <2>1, <2>x, <4>y, OwnedFacts, StateFacts
      <4>3. y # 0 => store[y][i - SFS_NDIRECT] =
                       IF g = f /\ i = index THEN 0 ELSE s.store[y][i - SFS_NDIRECT]
        BY <2>3, <4>1, <4>2
      <4>4. BlockMap(r)[Pointer(g, i)] = IF y = 0 THEN 0 ELSE store[y][i - SFS_NDIRECT]
        BY <2>5, <4>1, <4>y, MapFacts
      <4>5. BlockMap(s)[Pointer(g, i)] = IF y = 0 THEN 0 ELSE s.store[y][i - SFS_NDIRECT]
        BY <1>0, <4>1, <4>y, MapFacts
      <4> QED
        BY <2>1, <3>2, <4>2, <4>3, <4>4, <4>5
    <3> QED
      BY <3>3, <3>4
  <2>9. Sound(r, disk)
    BY <1>5, <2>5, <2>6, <2>7
  <2> QED
    BY <2>5, <2>9
<1> QED
  BY <1>6, <1>7

(* sfs_bmap_truncate_nolock.                                                *)
LEMMA TruncateSound ==
    ASSUME NEW s, NEW disk, Sound(s, disk), NEW f \in Ino, s.din[f].blocks >= 1,
           NEW r, r = sfs_bmap_truncate(s, f)
    PROVE  Sound(r, disk) /\ r.err = s.err /\ r.din[f].blocks = s.din[f].blocks - 1
<1>0. /\ s \in State /\ s.din[f] \in Din /\ s.din \in [Ino -> Din] /\ disk \in [Ino -> Din]
      /\ s.din[f].blocks \in 0..(SFS_NDIRECT + SFS_BLK_NENTRY)
  BY StateFacts DEF Sound
<1>i. PICK index : index = s.din[f].blocks - 1
  OBVIOUS
<1>1. /\ index \in Slots /\ index \in 0..(SFS_NDIRECT + SFS_BLK_NENTRY)
      /\ index \in 0..(s.din[f].blocks - 1)
  BY <1>0, <1>i, SfsNumbers DEF Slots
<1>2. BlockMap(s)[Pointer(f, index)] # 0 /\ sfs_bmap_get(s, f, index) = BlockMap(s)[Pointer(f, index)]
  BY <1>0, <1>1, MapFacts DEF Sound
<1>w. PICK w : w = WithBlocks(s.din[f], index)
  OBVIOUS
<1>3. w \in Din /\ w.blocks = index /\ w.size = s.din[f].size
      /\ w.indirect = s.din[f].indirect /\ w.direct = s.din[f].direct
  BY <1>0, <1>1, <1>w, DinSteps
<1>u. PICK u : u = SetDin(s, f, w, TRUE)
  OBVIOUS
<1>4. /\ Sound(u, disk) /\ BlockMap(u) = BlockMap(s) /\ u.err = s.err /\ u.din[f] = w /\ u.dirty[f] = TRUE
      /\ u.store = s.store /\ u.free = s.free
  <2>1. \A i \in 0..(w.blocks - 1) : BlockMap(s)[Pointer(f, i)] # 0
    BY <1>0, <1>1, <1>3, <1>i DEF Sound
  <2>m. PICK mark : mark = TRUE
    OBVIOUS
  <2>2. mark \in BOOLEAN /\ \A g \in Ino : g # f => disk[g] = disk[g]
    BY <2>m
  <2>3. ~mark => /\ disk[f].direct = w.direct /\ disk[f].indirect = w.indirect
                 /\ disk[f].size = w.size /\ disk[f].blocks <= w.blocks
    BY <2>m
  <2>4. u = SetDin(s, f, w, mark)
    BY <1>u, <2>m
  <2> QED
    <3>1. /\ w \in Din /\ w.direct = s.din[f].direct /\ w.indirect = s.din[f].indirect
          /\ disk \in [Ino -> Din]
      BY <1>0, <1>3
    <3> QED
      <4>1. /\ Sound(u, disk) /\ BlockMap(u) = BlockMap(s) /\ u.err = s.err /\ u.din[f] = w
            /\ u.dirty[f] = mark /\ u.store = s.store /\ u.free = s.free
        BY <2>1, <2>2, <2>3, <2>4, <3>1, SetDinSound
      <4> QED
        BY <2>m, <4>1
<1>5. u \in State
  BY <1>4 DEF Sound
<1>6. r = sfs_bmap_free(u, f, index)
  <2>b. PICK b : b = sfs_bmap_get(s, f, index)
    OBVIOUS
  <2>1. sfs_bmap_get(u, f, index) = b /\ b # 0
    <3>1. BlockMap(u)[Pointer(f, index)] = sfs_bmap_get(u, f, index)
      BY <1>1, <1>5, MapFacts
    <3> QED
      BY <1>2, <1>4, <2>b, <3>1
  <2>2. u = MakeState(WithDin(s, f, w), [s.dirty EXCEPT ![f] = TRUE], s.free, s.unused_blocks, s.store, s.err)
    BY <1>u DEF SetDin
  <2>3. CASE index < SFS_NDIRECT
    <3>x. PICK x : x = [s.din[f].direct EXCEPT ![index] = 0]
      OBVIOUS
    <3>1. sfs_bmap_free(s, f, index) =
             MakeState([s.din EXCEPT ![f].direct = x], s.dirty, s.free \cup {b}, s.unused_blocks + 1,
                       s.store, s.err)
      BY <1>0, <2>1, <2>3, <2>b, <3>x DEF sfs_bmap_free, sfs_block_free, MakeState, State
    <3>2. r = MakeState([s.din EXCEPT ![f] = [s.din[f] EXCEPT !.direct = x, !.blocks = index]],
                        [s.dirty EXCEPT ![f] = TRUE], s.free \cup {b}, s.unused_blocks + 1, s.store, s.err)
      <4>1. r = [sfs_bmap_free(s, f, index) EXCEPT !.din[f].blocks = index, !.dirty[f] = TRUE]
        BY <1>i DEF sfs_bmap_truncate
      <4>d. PICK d : d = [s.din EXCEPT ![f].direct = x]
        OBVIOUS
      <4>2. r = MakeState([d EXCEPT ![f].blocks = index], [s.dirty EXCEPT ![f] = TRUE],
                          s.free \cup {b}, s.unused_blocks + 1, s.store, s.err)
        <5>q. PICK q : q = sfs_bmap_free(s, f, index)
          OBVIOUS
        <5>1. q = MakeState(d, s.dirty, s.free \cup {b}, s.unused_blocks + 1, s.store, s.err)
          BY <3>1, <4>d, <5>q
        <5>2. r = [q EXCEPT !.din[f].blocks = index, !.dirty[f] = TRUE]
          BY <4>1, <5>q
        <5> QED
          BY <5>1, <5>2 DEF MakeState
      <4>3. [d EXCEPT ![f].blocks = index] = [s.din EXCEPT ![f] = [s.din[f] EXCEPT !.direct = x, !.blocks = index]]
        BY <1>0, <4>d
      <4> QED
        BY <4>2, <4>3
    <3>3. sfs_bmap_free(u, f, index) =
             MakeState([WithDin(s, f, w) EXCEPT ![f].direct[index] = 0], [s.dirty EXCEPT ![f] = TRUE],
                       s.free \cup {b}, s.unused_blocks + 1, s.store, s.err)
      BY <2>1, <2>2, <2>3 DEF sfs_bmap_free, sfs_block_free, MakeState
    <3>4. [WithDin(s, f, w) EXCEPT ![f].direct[index] = 0] =
             [s.din EXCEPT ![f] = [s.din[f] EXCEPT !.direct = x, !.blocks = index]]
      <4>1. [w EXCEPT !.direct[index] = 0] = [s.din[f] EXCEPT !.direct = x, !.blocks = index]
        BY <1>0, <1>3, <1>w, <3>x DEF WithBlocks, Din
      <4>2. [WithDin(s, f, w) EXCEPT ![f].direct[index] = 0] = [s.din EXCEPT ![f] = [w EXCEPT !.direct[index] = 0]]
        BY <1>0 DEF WithDin
      <4> QED
        BY <4>1, <4>2
    <3> QED
      BY <3>2, <3>3, <3>4
  <2>4. CASE ~(index < SFS_NDIRECT)
    <3>x. PICK x : x = s.din[f].indirect
      OBVIOUS
    <3>1. sfs_bmap_free(s, f, index) =
             MakeState(s.din, s.dirty, s.free \cup {b}, s.unused_blocks + 1,
                       [s.store EXCEPT ![x][index - SFS_NDIRECT] = 0], s.err)
      BY <1>0, <2>1, <2>4, <2>b, <3>x DEF sfs_bmap_free, sfs_block_free, MakeState, State
    <3>2. r = MakeState(WithDin(s, f, w), [s.dirty EXCEPT ![f] = TRUE], s.free \cup {b}, s.unused_blocks + 1,
                        [s.store EXCEPT ![x][index - SFS_NDIRECT] = 0], s.err)
      <4>1. r = [sfs_bmap_free(s, f, index) EXCEPT !.din[f].blocks = index, !.dirty[f] = TRUE]
        BY <1>i DEF sfs_bmap_truncate
      <4>2. [s.din EXCEPT ![f].blocks = index] = WithDin(s, f, w)
        BY <1>w DEF WithDin, WithBlocks
      <4> QED
        <5>q. PICK q : q = sfs_bmap_free(s, f, index)
          OBVIOUS
        <5>t. PICK t : t = [s.store EXCEPT ![x][index - SFS_NDIRECT] = 0]
          OBVIOUS
        <5>1. q = MakeState(s.din, s.dirty, s.free \cup {b}, s.unused_blocks + 1, t, s.err)
          BY <3>1, <5>q, <5>t
        <5>2. r = [q EXCEPT !.din[f].blocks = index, !.dirty[f] = TRUE]
          BY <4>1, <5>q
        <5>3. r = MakeState([s.din EXCEPT ![f].blocks = index], [s.dirty EXCEPT ![f] = TRUE], s.free \cup {b},
                            s.unused_blocks + 1, t, s.err)
          BY <5>1, <5>2 DEF MakeState
        <5> QED
          BY <4>2, <5>3, <5>t
    <3>3. u.din[f].indirect = x
      BY <1>3, <1>4, <3>x
    <3>4. sfs_bmap_free(u, f, index) =
             MakeState(WithDin(s, f, w), [s.dirty EXCEPT ![f] = TRUE], s.free \cup {b}, s.unused_blocks + 1,
                       [s.store EXCEPT ![x][index - SFS_NDIRECT] = 0], s.err)
      <4>1. sfs_bmap_free(u, f, index) = [sfs_block_free(u, b) EXCEPT !.store[x][index - SFS_NDIRECT] = 0]
        BY <2>1, <2>4, <3>3 DEF sfs_bmap_free
      <4> QED
        BY <2>2, <4>1 DEF sfs_block_free, MakeState
    <3> QED
      BY <3>2, <3>4
  <2> QED
    BY <2>3, <2>4
<1>7. Sound(r, disk) /\ r.err = u.err /\ r.din[f].blocks = u.din[f].blocks
  <2>1. index >= u.din[f].blocks /\ u.dirty[f] /\ BlockMap(u)[Pointer(f, index)] # 0
    BY <1>1, <1>2, <1>3, <1>4
  <2> QED
    BY <1>1, <1>4, <1>6, <2>1, FreeSound
<1> QED
  BY <1>3, <1>4, <1>7, <1>i

(* Induction: steps that never lead from inside B to outside stay in B.     *)
LEMMA StaysInside ==
    ASSUME NEW n \in Nat, NEW B, 0 \in B, \A i \in 1..n : i - 1 \in B => i \in B
    PROVE  \A i \in 0..n : i \in B
<1> DEFINE Out == {i \in 0..n : i \notin B}
           R == {ss \in Nat \X Nat : ss[1] < ss[2]}
<1>1. SUFFICES ASSUME Out # {} PROVE FALSE
  OBVIOUS
<1>2. Out \subseteq Nat
  OBVIOUS
<1>3. IsWellFoundedOn(R, Nat)
  BY NatLessThanWellFounded, Zenon DEF OpToRel
<1>4. PICK m \in Out : \A y \in Out : ~ (<<y, m>> \in R)
  BY <1>1, <1>2, <1>3, WFMin
<1>5. m \in 1..n /\ m \notin B /\ m - 1 \in 0..n
  BY <1>4
<1>6. m - 1 \notin Out
  <2>1. <<m - 1, m>> \in R
    BY <1>5
  <2> QED
    BY <1>4, <2>1, Zenon
<1> QED
  BY <1>5, <1>6

(* A loop of n rounds exists: after k rounds it is in S[k].                 *)
IsLoop(g, n, start, step, S) ==
    /\ DOMAIN g = 0..n /\ g = [k \in 0..n |-> g[k]]
    /\ g[0] = start /\ \A k \in 1..n : g[k] = step[k][g[k - 1]]
    /\ \A k \in 0..n : g[k] \in S[k]

(* A loop of n rounds leads somewhere, its state staying in the set of each *)
(* round.                                                                   *)
LEMMA LoopExists ==
    ASSUME NEW n \in Nat, NEW S, NEW start \in S[0], NEW step,
           \A k \in 1..n : \A u \in S[k - 1] : step[k][u] \in S[k]
    PROVE  \E g : IsLoop(g, n, start, step, S)
<1> DEFINE B == {m \in 0..n : \E g : IsLoop(g, m, start, step, S)}
<1>1. 0 \in B
  <2> DEFINE one == [i \in 0..0 |-> start]
  <2>1. /\ DOMAIN one = 0..0 /\ one = [k \in 0..0 |-> one[k]] /\ one[0] = start /\ 1..0 = {}
        /\ \A k \in 0..0 : one[k] \in S[k]
    OBVIOUS
  <2>2. IsLoop(one, 0, start, step, S)
    BY <2>1, Zenon DEF IsLoop
  <2>3. 0 \in 0..n
    OBVIOUS
  <2> QED
    BY <2>2, <2>3, Zenon
<1>2. ASSUME NEW m \in 1..n, m - 1 \in B PROVE m \in B
  <2>1. PICK g : IsLoop(g, m - 1, start, step, S)
    BY <1>2
  <2>l. PICK longer : longer = [i \in 0..m |-> IF i = m THEN step[m][g[m - 1]] ELSE g[i]]
    OBVIOUS
  <2>2. /\ g[0] = start /\ \A k \in 1..(m - 1) : g[k] = step[k][g[k - 1]]
        /\ \A k \in 0..(m - 1) : g[k] \in S[k]
    BY <2>1 DEF IsLoop
  <2>3. DOMAIN longer = 0..m /\ longer = [k \in 0..m |-> longer[k]]
    BY <2>l
  <2>4. longer[m] = step[m][g[m - 1]] /\ \A k \in 0..(m - 1) : longer[k] = g[k]
    BY <2>l
  <2>5. longer[0] = start
    BY <2>2, <2>4
  <2>6. ASSUME NEW k \in 1..m PROVE longer[k] = step[k][longer[k - 1]]
    <3>1. k - 1 \in 0..(m - 1) /\ longer[k - 1] = g[k - 1]
      BY <2>4
    <3>2. CASE k = m
      BY <2>4, <3>1, <3>2
    <3>3. CASE k # m
      <4>1. k \in 1..(m - 1) /\ k \in 0..(m - 1)
        BY <3>3
      <4> QED
        BY <2>2, <2>4, <3>1, <4>1
    <3> QED
      BY <3>2, <3>3
  <2>7. ASSUME NEW k \in 0..m PROVE longer[k] \in S[k]
    <3>1. CASE k = m
      <4>1. m - 1 \in 0..(m - 1) /\ g[m - 1] \in S[m - 1]
        BY <2>2
      <4> QED
        BY <2>4, <3>1, <4>1
    <3>2. CASE k # m
      BY <2>2, <2>4, <3>2
    <3> QED
      BY <3>1, <3>2
  <2>8. IsLoop(longer, m, start, step, S)
    BY <2>3, <2>5, <2>6, <2>7, Zenon DEF IsLoop
  <2>9. m \in 0..n
    OBVIOUS
  <2> QED
    BY <2>8, <2>9, Zenon
<1>3. \A m \in 0..n : m \in B
  <2> HIDE DEF B
  <2> QED
    BY <1>1, <1>2, StaysInside
<1>4. n \in B
  BY <1>3
<1> QED
  BY <1>4

SoundStates(disk) == {u \in State : Sound(u, disk)}

(* The first loop of sfs_truncfile.                                         *)
LEMMA EnlargedSound ==
    ASSUME NEW s, NEW disk, Sound(s, disk), NEW f \in Ino, NEW new \in Nat, s.din[f].blocks <= new
    PROVE  Sound(Enlarged(s, f, new), disk)
<1>0. s \in State /\ s.din[f].blocks \in Nat
  BY StateFacts DEF Sound
<1>o. PICK old, n : old = s.din[f].blocks /\ n = new - old
  OBVIOUS
<1>1. old \in Nat /\ n \in Nat
  BY <1>0, <1>o
<1>S. PICK S : S = [k \in 0..n |-> SoundStates(disk)]
  OBVIOUS
<1>t. PICK step : step = [k \in 1..n |-> [u \in SoundStates(disk) |-> sfs_bmap_load(u, f, old + k - 1)]]
  OBVIOUS
<1>2. ASSUME NEW k \in 1..n, NEW u \in SoundStates(disk)
      PROVE  sfs_bmap_load(u, f, old + k - 1) \in SoundStates(disk)
  <2>r. PICK r, i : r = sfs_bmap_load(u, f, i) /\ i = old + k - 1
    OBVIOUS
  <2>1. Sound(u, disk) /\ i \in Nat
    BY <1>1, <2>r DEF SoundStates
  <2>2. Sound(r, disk)
    BY <2>r, <2>1, LoadSound
  <2>3. r \in SoundStates(disk)
    BY <2>2 DEF SoundStates, Sound
  <2> QED
    BY <2>r, <2>3
<1>3. s \in S[0] /\ \A k \in 1..n : \A u \in S[k - 1] : step[k][u] \in S[k]
  BY <1>0, <1>1, <1>2, <1>S, <1>t DEF SoundStates
<1>4. PICK g : IsLoop(g, n, s, step, S)
  BY <1>1, <1>3, LoopExists
<1>5. /\ g = [k \in 0..n |-> g[k]] /\ g[0] = s /\ \A k \in 1..n : g[k] = step[k][g[k - 1]]
      /\ \A k \in 0..n : g[k] \in SoundStates(disk)
  BY <1>4, <1>S DEF IsLoop
<1>6. \A k \in 1..n : g[k] = sfs_bmap_load(g[k - 1], f, old + k - 1)
  <2> SUFFICES ASSUME NEW k \in 1..n PROVE g[k] = sfs_bmap_load(g[k - 1], f, old + k - 1)
    OBVIOUS
  <2>0. g[k] = step[k][g[k - 1]]
    BY <1>5
  <2>1. k - 1 \in 0..n
    BY <1>1
  <2>2. step[k] = [u \in SoundStates(disk) |-> sfs_bmap_load(u, f, old + k - 1)]
    BY <1>t
  <2> QED
    BY <1>5, <2>0, <2>1, <2>2
<1> DEFINE rec(h) == [k \in 0..n |-> IF k = 0 THEN s ELSE sfs_bmap_load(h[k - 1], f, old + k - 1)]
<1>7. g = rec(g)
  <2>1. \A k \in 0..n : g[k] = IF k = 0 THEN s ELSE sfs_bmap_load(g[k - 1], f, old + k - 1)
    <3> TAKE k \in 0..n
    <3>1. CASE k = 0
      BY <1>5, <3>1
    <3>2. CASE k # 0
      <4>1. k \in 1..n
        BY <1>1, <3>2
      <4> QED
        BY <1>6, <3>2, <4>1
    <3> QED
      BY <3>1, <3>2
  <2> QED
    BY <1>5, <2>1, Zenon
<1>c. PICK After : After = CHOOSE h : h = rec(h)
  OBVIOUS
<1>8. After = rec(After)
  <2> HIDE DEF rec
  <2> QED
    BY <1>7, <1>c
<1>9. After[n] = Enlarged(s, f, new)
  BY <1>c, <1>o DEF Enlarged
<1>10. \A k \in 0..n : After[k] \in SoundStates(disk)
  <2> DEFINE B == {k \in 0..n : After[k] \in SoundStates(disk)}
  <2>1. After[0] = s /\ \A k \in 1..n : After[k] = sfs_bmap_load(After[k - 1], f, old + k - 1)
    BY <1>1, <1>8
  <2>2. 0 \in B
    BY <1>1, <1>5, <2>1
  <2>3. \A k \in 1..n : k - 1 \in B => k \in B
    BY <1>2, <2>1
  <2>4. \A k \in 0..n : k \in B
    <3> HIDE DEF B
    <3> QED
      BY <1>1, <2>2, <2>3, StaysInside
  <2> QED
    BY <2>4
<1>11. After[n] \in SoundStates(disk)
  BY <1>1, <1>10
<1> QED
  BY <1>9, <1>11 DEF SoundStates

(* The second loop of sfs_truncfile.                                        *)
LEMMA CutSound ==
    ASSUME NEW s, NEW disk, Sound(s, disk), NEW f \in Ino, NEW new \in Nat, new <= s.din[f].blocks
    PROVE  Sound(Cut(s, f, new), disk)
<1>0. s \in State /\ s.din[f].blocks \in Nat
  BY StateFacts DEF Sound
<1>o. PICK old, n : old = s.din[f].blocks /\ n = old - new
  OBVIOUS
<1>1. old \in Nat /\ n \in Nat /\ n <= old
  BY <1>0, <1>o
<1>S. PICK S : S = [k \in 0..n |-> {u \in SoundStates(disk) : u.din[f].blocks = old - k}]
  OBVIOUS
<1>t. PICK step : step = [k \in 1..n |-> [u \in S[k - 1] |-> sfs_bmap_truncate(u, f)]]
  OBVIOUS
<1>2. ASSUME NEW k \in 1..n, NEW u \in S[k - 1] PROVE sfs_bmap_truncate(u, f) \in S[k]
  <2>r. PICK r : r = sfs_bmap_truncate(u, f)
    OBVIOUS
  <2>1. k - 1 \in 0..n /\ k \in 0..n
    BY <1>1
  <2>2. Sound(u, disk) /\ u.din[f].blocks = old - (k - 1)
    BY <1>S, <2>1 DEF SoundStates
  <2>3. u.din[f].blocks >= 1
    BY <1>1, <2>2
  <2>4. Sound(r, disk) /\ r.din[f].blocks = u.din[f].blocks - 1
    BY <2>2, <2>3, <2>r, TruncateSound
  <2>5. r \in SoundStates(disk) /\ r.din[f].blocks = old - k
    BY <1>1, <2>2, <2>4 DEF SoundStates, Sound
  <2>6. S[k] = {v \in SoundStates(disk) : v.din[f].blocks = old - k}
    BY <1>S, <2>1
  <2> QED
    BY <2>r, <2>5, <2>6
<1>3. s \in S[0] /\ \A k \in 1..n : \A u \in S[k - 1] : step[k][u] \in S[k]
  <2>1. s \in S[0]
    BY <1>0, <1>1, <1>o, <1>S DEF SoundStates
  <2>2. ASSUME NEW k \in 1..n, NEW u \in S[k - 1] PROVE step[k][u] \in S[k]
    <3>1. step[k] = [v \in S[k - 1] |-> sfs_bmap_truncate(v, f)]
      BY <1>t
    <3> QED
      BY <1>2, <3>1
  <2> QED
    BY <2>1, <2>2
<1>4. PICK g : IsLoop(g, n, s, step, S)
  BY <1>1, <1>3, LoopExists
<1>5. /\ g = [k \in 0..n |-> g[k]] /\ g[0] = s /\ \A k \in 1..n : g[k] = step[k][g[k - 1]]
      /\ \A k \in 0..n : g[k] \in S[k]
  BY <1>4 DEF IsLoop
<1>6. \A k \in 1..n : g[k] = sfs_bmap_truncate(g[k - 1], f)
  <2> SUFFICES ASSUME NEW k \in 1..n PROVE g[k] = sfs_bmap_truncate(g[k - 1], f)
    OBVIOUS
  <2>0. g[k] = step[k][g[k - 1]]
    BY <1>5
  <2>1. k - 1 \in 0..n
    BY <1>1
  <2>2. step[k] = [u \in S[k - 1] |-> sfs_bmap_truncate(u, f)]
    BY <1>t
  <2> QED
    BY <1>5, <2>0, <2>1, <2>2
<1> DEFINE rec(h) == [k \in 0..n |-> IF k = 0 THEN s ELSE sfs_bmap_truncate(h[k - 1], f)]
<1>7. g = rec(g)
  <2>1. \A k \in 0..n : g[k] = IF k = 0 THEN s ELSE sfs_bmap_truncate(g[k - 1], f)
    <3> TAKE k \in 0..n
    <3>1. CASE k = 0
      BY <1>5, <3>1
    <3>2. CASE k # 0
      <4>1. k \in 1..n
        BY <1>1, <3>2
      <4> QED
        BY <1>6, <3>2, <4>1
    <3> QED
      BY <3>1, <3>2
  <2> QED
    BY <1>5, <2>1, Zenon
<1>c. PICK After : After = CHOOSE h : h = rec(h)
  OBVIOUS
<1>8. After = rec(After)
  <2> HIDE DEF rec
  <2> QED
    BY <1>7, <1>c
<1>9. After[n] = Cut(s, f, new)
  BY <1>c, <1>o DEF Cut
<1>10. \A k \in 0..n : After[k] \in S[k]
  <2> DEFINE B == {k \in 0..n : After[k] \in S[k]}
  <2>1. After[0] = s /\ \A k \in 1..n : After[k] = sfs_bmap_truncate(After[k - 1], f)
    BY <1>1, <1>8
  <2>2. 0 \in B
    BY <1>1, <1>3, <2>1
  <2>3. \A k \in 1..n : k - 1 \in B => k \in B
    BY <1>2, <2>1
  <2>4. \A k \in 0..n : k \in B
    <3> HIDE DEF B
    <3> QED
      BY <1>1, <2>2, <2>3, StaysInside
  <2> QED
    BY <2>4
<1>11. After[n] \in SoundStates(disk)
  BY <1>1, <1>10, <1>S
<1> QED
  BY <1>9, <1>11 DEF SoundStates

(* Block numbers of offsets grow with them.                                 *)
LEMMA Division ==
    /\ \A n \in Nat : n \div SFS_BLKSIZE \in Nat /\ NBlocks(n) \in Nat
    /\ \A m, n \in Nat : m <= n => m \div SFS_BLKSIZE <= n \div SFS_BLKSIZE
<1>0. SFS_BLKSIZE \in Nat /\ SFS_BLKSIZE > 0
  BY SfsNumbers
<1>1. \A n \in Nat : n \div SFS_BLKSIZE \in Nat
  BY <1>0
<1>2. \A n \in Nat : NBlocks(n) \in Nat
  <2> TAKE n \in Nat
  <2>1. n + SFS_BLKSIZE - 1 \in Nat
    BY <1>0
  <2> QED
    BY <1>1, <2>1 DEF NBlocks
<1>3. ASSUME NEW m \in Nat, NEW n \in Nat, m <= n PROVE m \div SFS_BLKSIZE <= n \div SFS_BLKSIZE
  BY <1>0, <1>1, <1>3
<1> QED
  BY <1>1, <1>2, <1>3

(* Data is written to a block of f.                                         *)
LEMMA WriteSound ==
    ASSUME NEW s, NEW disk, Sound(s, disk), NEW f \in Ino, NEW index \in Nat, index < s.din[f].blocks,
           NEW b, b = sfs_bmap_get(s, f, index), NEW inside,
           NEW r, r = [s EXCEPT !.store[b] = [i \in Cell |-> IF i \in inside THEN f ELSE @[i]]]
    PROVE  Sound(r, disk)
<1>0. /\ s \in State /\ s.store \in [Blocks -> [Cell -> CellValue]] /\ f \in CellValue
      /\ s.din[f].blocks \in 0..(SFS_NDIRECT + SFS_BLK_NENTRY) /\ s.din \in [Ino -> Din]
      /\ s.dirty \in [Ino -> BOOLEAN] /\ s.free \in SUBSET Blocks /\ s.unused_blocks \in Nat
      /\ s.err \in Errors
  BY StateFacts DEF Sound, CellValue
<1>1. index \in Slots /\ index \in 0..(s.din[f].blocks - 1)
  BY <1>0, SfsNumbers DEF Slots
<1>2. b = BlockMap(s)[Pointer(f, index)] /\ b # 0
  BY <1>0, <1>1, MapFacts DEF Sound
<1>3. b \in Blocks /\ \A g \in Ino : s.din[g].indirect # b
  BY <1>1, <1>2, OwnedFacts
<1>c. PICK cells : cells = [i \in Cell |-> IF i \in inside THEN f ELSE s.store[b][i]]
  OBVIOUS
<1>4. cells \in [Cell -> CellValue]
  BY <1>0, <1>3, <1>c
<1>t. PICK store : store = WithBlock(s.store, b, cells)
  OBVIOUS
<1>5. store \in [Blocks -> [Cell -> CellValue]] /\ \A d \in Blocks : d # b => store[d] = s.store[d]
  BY <1>0, <1>3, <1>4, <1>t, BlockStep
<1>6. r = [s EXCEPT !.store = store]
  BY <1>0, <1>c, <1>t DEF WithBlock, State
<1>7. /\ r \in State /\ r.din = s.din /\ r.dirty = s.dirty /\ r.free = s.free
      /\ r.unused_blocks = s.unused_blocks /\ r.store = store /\ r.err = s.err
  BY <1>0, <1>5, <1>6 DEF State
<1>8. BlockMap(r) = BlockMap(s)
  <2>1. ASSUME NEW p \in Pointers PROVE Held(r, p) = Held(s, p)
    <3>1. p.of \in Ino
      BY PointerFacts
    <3>2. s.din[p.of].indirect # 0 => store[s.din[p.of].indirect] = s.store[s.din[p.of].indirect]
      <4>1. s.din[p.of].indirect \in Blocks \cup {0}
        BY <1>0, <3>1, StateFacts
      <4> QED
        BY <1>3, <1>5, <3>1, <4>1
    <3>x. PICK x : x = s.din[p.of].indirect
      OBVIOUS
    <3>4. ASSUME NEW i \in Slots PROVE sfs_bmap_get(r, p.of, i) = sfs_bmap_get(s, p.of, i)
      <4>1. r.din[p.of] = s.din[p.of] /\ r.store = store
        BY <1>7
      <4>2. sfs_bmap_get(r, p.of, i) = IF i < SFS_NDIRECT THEN s.din[p.of].direct[i]
                                       ELSE IF x = 0 THEN 0 ELSE store[x][i - SFS_NDIRECT]
        <5>1. sfs_bmap_get(r, p.of, i) =
                 IF i < SFS_NDIRECT THEN r.din[p.of].direct[i]
                 ELSE IF r.din[p.of].indirect = 0 THEN 0
                 ELSE r.store[r.din[p.of].indirect][i - SFS_NDIRECT]
          BY DEF sfs_bmap_get
        <5>2. r.din[p.of].direct = s.din[p.of].direct /\ r.din[p.of].indirect = x
          BY <3>x, <4>1
        <5> QED
          BY <4>1, <5>1, <5>2, Zenon
      <4>3. sfs_bmap_get(s, p.of, i) = IF i < SFS_NDIRECT THEN s.din[p.of].direct[i]
                                       ELSE IF x = 0 THEN 0 ELSE s.store[x][i - SFS_NDIRECT]
        BY <3>x, Zenon DEF sfs_bmap_get
      <4>4. x = 0 \/ store[x] = s.store[x]
        BY <3>2, <3>x
      <4> QED
        BY <4>2, <4>3, <4>4, Zenon
    <3>5. p.at = -1 \/ p.at \in Slots
      BY PointerFacts
    <3> QED
      BY <1>7, <3>4, <3>5 DEF Held
  <2> QED
    BY <2>1 DEF BlockMap
<1> QED
  BY <1>7, <1>8 DEF Sound, SavedAs

Trips(disk) == [s : SoundStates(disk), at : 0..SFS_MAX_FILE_SIZE]

(* One round of the loop of sfs_io_nolock.                                  *)
LEMMA NextBlockSound ==
    ASSUME NEW disk, NEW r \in Trips(disk), NEW f \in Ino, NEW index \in Nat,
           NEW endpos \in 0..SFS_MAX_FILE_SIZE, NEW write \in BOOLEAN,
           NEW q, q = NextBlock(r, f, index, endpos, write)
    PROVE  q \in Trips(disk)
<1>t. PICK t, b, until, inside :
         /\ t = sfs_bmap_load(r.s, f, index) /\ b = sfs_bmap_get(t, f, index)
         /\ until = Least(endpos, (index + 1) * SFS_BLKSIZE)
         /\ inside = {i \in Cell : index * SFS_BLKSIZE + i \in r.at..(until - 1)}
  OBVIOUS
<1>u. PICK u : u = [t EXCEPT !.store[b] = [i \in Cell |-> IF i \in inside THEN f ELSE @[i]]]
  OBVIOUS
<1>1. q = IF t.err # "OK" THEN [r EXCEPT !.s = t]
          ELSE [s |-> IF write THEN u ELSE t, at |-> until]
  BY <1>t, <1>u DEF NextBlock
<1>2. Sound(r.s, disk)
  BY DEF Trips, SoundStates
<1>3. Sound(t, disk) /\ (t.err = "OK" => index < t.din[f].blocks)
  BY <1>2, <1>t, LoadSound
<1>4. t \in SoundStates(disk)
  BY <1>3 DEF SoundStates, Sound
<1>5. until \in 0..SFS_MAX_FILE_SIZE
  <2>1. (index + 1) * SFS_BLKSIZE \in Nat
    BY SfsNumbers
  <2>m. PICK m : m = (index + 1) * SFS_BLKSIZE
    OBVIOUS
  <2>2. m \in Nat /\ until = Least(endpos, m)
    BY <1>t, <2>1, <2>m
  <2> QED
    BY <2>2, SfsNumbers DEF Least
<1>6. CASE t.err # "OK"
  BY <1>1, <1>4, <1>6 DEF Trips
<1>7. CASE t.err = "OK"
  <2>1. Sound(u, disk)
    BY <1>3, <1>7, <1>t, <1>u, WriteSound
  <2>2. u \in SoundStates(disk)
    BY <2>1 DEF SoundStates, Sound
  <2>v. PICK v : v = IF write THEN u ELSE t
    OBVIOUS
  <2>3. v \in SoundStates(disk) /\ q = [s |-> v, at |-> until]
    BY <1>1, <1>4, <1>7, <2>2, <2>v
  <2> QED
    BY <1>5, <2>3 DEF Trips
<1> QED
  BY <1>6, <1>7

(* The loop of sfs_io_nolock.                                               *)
LEMMA TransferredSound ==
    ASSUME NEW s, NEW disk, Sound(s, disk), NEW f \in Ino, NEW offset \in 0..SFS_MAX_FILE_SIZE,
           NEW endpos \in 0..SFS_MAX_FILE_SIZE, offset < endpos, NEW write \in BOOLEAN
    PROVE  Transferred(s, f, offset, endpos, write) \in Trips(disk)
<1>o. PICK first, n, start :
         /\ first = offset \div SFS_BLKSIZE /\ n = (endpos - 1) \div SFS_BLKSIZE - first + 1
         /\ start = [s |-> s, at |-> offset]
  OBVIOUS
<1>1. first \in Nat /\ n \in Nat
  <2>1. offset \in Nat /\ endpos - 1 \in Nat /\ offset <= endpos - 1
    BY SfsNumbers
  <2>2. /\ offset \div SFS_BLKSIZE \in Nat /\ (endpos - 1) \div SFS_BLKSIZE \in Nat
        /\ offset \div SFS_BLKSIZE <= (endpos - 1) \div SFS_BLKSIZE
    BY <2>1, Division
  <2>l. PICK last : last = (endpos - 1) \div SFS_BLKSIZE
    OBVIOUS
  <2>3. first \in Nat /\ last \in Nat /\ first <= last /\ n = last - first + 1
    BY <1>o, <2>2, <2>l
  <2> QED
    BY <2>3
<1>S. PICK S : S = [k \in 0..n |-> Trips(disk)]
  OBVIOUS
<1>t. PICK step : step = [k \in 1..n |-> [r \in Trips(disk) |-> NextBlock(r, f, first + k - 1, endpos, write)]]
  OBVIOUS
<1>2. ASSUME NEW k \in 1..n, NEW r \in Trips(disk)
      PROVE  NextBlock(r, f, first + k - 1, endpos, write) \in Trips(disk)
  <2>i. PICK i : i = first + k - 1
    OBVIOUS
  <2>1. i \in Nat
    BY <1>1, <2>i
  <2>2. NextBlock(r, f, i, endpos, write) \in Trips(disk)
    BY <2>1, NextBlockSound
  <2> QED
    BY <2>i, <2>2
<1>0. start \in Trips(disk)
  BY <1>o DEF Trips, SoundStates, Sound
<1>3. start \in S[0] /\ \A k \in 1..n : \A r \in S[k - 1] : step[k][r] \in S[k]
  <2>1. S[0] = Trips(disk) /\ \A k \in 1..n : S[k - 1] = Trips(disk) /\ S[k] = Trips(disk)
    BY <1>1, <1>S
  <2>2. ASSUME NEW k \in 1..n, NEW r \in Trips(disk) PROVE step[k][r] \in Trips(disk)
    <3>1. step[k] = [v \in Trips(disk) |-> NextBlock(v, f, first + k - 1, endpos, write)]
      BY <1>t
    <3> QED
      BY <1>2, <3>1
  <2> QED
    BY <1>0, <2>1, <2>2
<1>4. PICK g : IsLoop(g, n, start, step, S)
  BY <1>1, <1>3, LoopExists
<1>5. /\ g = [k \in 0..n |-> g[k]] /\ g[0] = start /\ \A k \in 1..n : g[k] = step[k][g[k - 1]]
      /\ \A k \in 0..n : g[k] \in Trips(disk)
  BY <1>4, <1>S DEF IsLoop
<1>6. \A k \in 1..n : g[k] = NextBlock(g[k - 1], f, first + k - 1, endpos, write)
  <2> SUFFICES ASSUME NEW k \in 1..n PROVE g[k] = NextBlock(g[k - 1], f, first + k - 1, endpos, write)
    OBVIOUS
  <2>0. g[k] = step[k][g[k - 1]]
    BY <1>5
  <2>1. k - 1 \in 0..n
    BY <1>1
  <2>2. step[k] = [r \in Trips(disk) |-> NextBlock(r, f, first + k - 1, endpos, write)]
    BY <1>t
  <2> QED
    BY <1>5, <2>0, <2>1, <2>2
<1> DEFINE rec(h) == [k \in 0..n |-> IF k = 0 THEN start
                                     ELSE NextBlock(h[k - 1], f, first + k - 1, endpos, write)]
<1>7. g = rec(g)
  <2>1. \A k \in 0..n : g[k] = IF k = 0 THEN start
                               ELSE NextBlock(g[k - 1], f, first + k - 1, endpos, write)
    <3> TAKE k \in 0..n
    <3>1. CASE k = 0
      BY <1>5, <3>1
    <3>2. CASE k # 0
      <4>1. k \in 1..n
        BY <1>1, <3>2
      <4> QED
        BY <1>6, <3>2, <4>1
    <3> QED
      BY <3>1, <3>2
  <2> QED
    BY <1>5, <2>1, Zenon
<1>c. PICK After : After = CHOOSE h : h = rec(h)
  OBVIOUS
<1>8. After = rec(After)
  <2> HIDE DEF rec
  <2> QED
    BY <1>7, <1>c
<1>9. After[n] = Transferred(s, f, offset, endpos, write)
  BY <1>c, <1>o DEF Transferred
<1>10. \A k \in 0..n : After[k] \in Trips(disk)
  <2> DEFINE B == {k \in 0..n : After[k] \in Trips(disk)}
  <2>1. /\ After[0] = start
        /\ \A k \in 1..n : After[k] = NextBlock(After[k - 1], f, first + k - 1, endpos, write)
    BY <1>1, <1>8
  <2>2. 0 \in B
    BY <1>0, <1>1, <2>1
  <2>3. \A k \in 1..n : k - 1 \in B => k \in B
    BY <1>2, <2>1
  <2>4. \A k \in 0..n : k \in B
    <3> HIDE DEF B
    <3> QED
      BY <1>1, <2>2, <2>3, StaysInside
  <2> QED
    BY <2>4
<1>11. After[n] \in Trips(disk)
  BY <1>1, <1>10
<1> QED
  BY <1>9, <1>11

(* f gets the size n and is marked.                                         *)
LEMMA ResizeSound ==
    ASSUME NEW s, NEW disk, Sound(s, disk), NEW f \in Ino, NEW n \in 0..SFS_MAX_FILE_SIZE,
           NEW r, r = [s EXCEPT !.din[f].size = n, !.dirty[f] = TRUE]
    PROVE  Sound(r, disk)
<1>0. s \in State /\ s.din[f] \in Din /\ disk \in [Ino -> Din]
  BY StateFacts DEF Sound
<1>w. PICK w, mark : w = WithSize(s.din[f], n) /\ mark = TRUE
  OBVIOUS
<1>1. w \in Din /\ w.blocks = s.din[f].blocks /\ w.indirect = s.din[f].indirect /\ w.direct = s.din[f].direct
  BY <1>0, <1>w, DinSteps
<1>2. r = SetDin(s, f, w, mark)
  BY <1>0, <1>w DEF SetDin, WithDin, WithSize, MakeState, State
<1>3. \A i \in 0..(w.blocks - 1) : BlockMap(s)[Pointer(f, i)] # 0
  BY <1>1 DEF Sound
<1>4. /\ mark \in BOOLEAN /\ \A g \in Ino : g # f => disk[g] = disk[g]
      /\ ~mark => /\ disk[f].direct = w.direct /\ disk[f].indirect = w.indirect
                  /\ disk[f].size = w.size /\ disk[f].blocks <= w.blocks
  BY <1>w
<1> QED
  BY <1>0, <1>1, <1>2, <1>3, <1>4, SetDinSound

(* sfs_truncfile and sfs_io, however they end.                              *)
LEMMA TruncFileSound ==
    ASSUME NEW s, NEW disk, Sound(s, disk), NEW f \in Ino, NEW len \in 0..SFS_MAX_FILE_SIZE
    PROVE  Sound(sfs_truncfile(s, f, len), disk)
<1>o. PICK old, new : old = s.din[f].blocks /\ new = NBlocks(len)
  OBVIOUS
<1>0. s \in State /\ old \in Nat /\ new \in Nat
  <2>1. s \in State
    BY DEF Sound
  <2>2. len \in Nat
    BY SfsNumbers
  <2>3. new \in Nat
    BY <1>o, <2>2, Division
  <2>4. s.din[f].blocks \in 0..(SFS_NDIRECT + SFS_BLK_NENTRY)
    BY <2>1, StateFacts
  <2> QED
    BY <1>o, <2>1, <2>3, <2>4
<1>t. PICK t : t = IF old <= new THEN Enlarged(s, f, new) ELSE Cut(s, f, new)
  OBVIOUS
<1>1. Sound(t, disk)
  <2>1. old <= new => Sound(Enlarged(s, f, new), disk)
    BY <1>0, <1>o, EnlargedSound
  <2>2. ~(old <= new) => new <= s.din[f].blocks
    BY <1>0, <1>o
  <2>3. ~(old <= new) => Sound(Cut(s, f, new), disk)
    BY <1>0, <2>2, CutSound
  <2> QED
    BY <1>t, <2>1, <2>3
<1>2. sfs_truncfile(s, f, len) =
         IF s.din[f].size = len
         THEN IF old = new THEN s ELSE Fail(s, "tblks == din->blocks")
         ELSE IF t.err # "OK" THEN t
         ELSE [t EXCEPT !.din[f].size = len, !.dirty[f] = TRUE]
  BY <1>o, <1>t DEF sfs_truncfile
<1>3. Sound(Fail(s, "tblks == din->blocks"), disk)
  <2>1. "tblks == din->blocks" \in Errors
    BY DEF Errors, Panics
  <2> QED
    BY <2>1, SoundErr
<1>u. PICK u : u = [t EXCEPT !.din[f].size = len, !.dirty[f] = TRUE]
  OBVIOUS
<1>4. Sound(u, disk)
  BY <1>1, <1>u, ResizeSound
<1> QED
  BY <1>1, <1>2, <1>3, <1>4, <1>u

(* A transfer keeps blocks and pointers sound, wherever it stops.           *)
LEMMA IoSound ==
    ASSUME NEW s, NEW disk, Sound(s, disk), NEW f \in Ino, NEW offset \in 0..SFS_MAX_FILE_SIZE,
           NEW n \in Nat, NEW write \in BOOLEAN, NEW q, q = sfs_io(s, f, offset, n, write)
    PROVE  Sound(q.s, disk) /\ q.at \in 0..SFS_MAX_FILE_SIZE
<1>e. PICK endpos : endpos = EndPos(s, f, offset, n, write)
  OBVIOUS
<1>r. PICK r : r = Transferred(s, f, offset, endpos, write)
  OBVIOUS
<1>1. q = IF offset >= SFS_MAX_FILE_SIZE \/ n = 0 \/ endpos <= offset
          THEN [s |-> s, at |-> offset]
          ELSE [s |-> Grown(r.s, f, r.at), at |-> r.at]
  BY <1>e, <1>r DEF sfs_io
<1>2. endpos \in 0..SFS_MAX_FILE_SIZE
  <2>1. s.din[f].size \in 0..SFS_MAX_FILE_SIZE
    BY StateFacts DEF Sound
  <2> QED
    BY <1>e, <2>1, SfsNumbers DEF EndPos, Least
<1>3. CASE offset >= SFS_MAX_FILE_SIZE \/ n = 0 \/ endpos <= offset
  <2>1. q = [s |-> s, at |-> offset]
    BY <1>1, <1>3
  <2> QED
    BY <2>1
<1>4. CASE ~(offset >= SFS_MAX_FILE_SIZE \/ n = 0 \/ endpos <= offset)
  <2>1. offset < endpos
    BY <1>2, <1>4
  <2>2. r \in Trips(disk)
    BY <1>2, <1>r, <2>1, TransferredSound
  <2>u. PICK u, at : u = r.s /\ at = r.at
    OBVIOUS
  <2>3. Sound(u, disk) /\ at \in 0..SFS_MAX_FILE_SIZE
    BY <2>2, <2>u DEF Trips, SoundStates
  <2>v. PICK v : v = [u EXCEPT !.din[f].size = at, !.dirty[f] = TRUE]
    OBVIOUS
  <2>4. Sound(v, disk)
    BY <2>3, <2>v, ResizeSound
  <2>5. Sound(Grown(u, f, at), disk)
    BY <2>3, <2>4, <2>v DEF Grown
  <2>6. q = [s |-> Grown(u, f, at), at |-> at]
    BY <1>1, <1>4, <2>u
  <2> QED
    BY <2>3, <2>5, <2>6
<1> QED
  BY <1>3, <1>4

(* An empty disk.                                                           *)
LEMMA SfsInvInit == SfsInit => SfsIInv
<1> SUFFICES ASSUME SfsInit PROVE SfsIInv
  OBVIOUS
<1> USE DEF SfsInit
<1>1. EmptyDin \in Din /\ EmptyDin.indirect = 0 /\ EmptyDin.blocks = 0
      /\ \A i \in 0..(SFS_NDIRECT - 1) : EmptyDin.direct[i] = 0
  BY SfsNumbers DEF EmptyDin, Din
<1>2. /\ fs.din = [f \in Ino |-> EmptyDin] /\ fs.dirty = [f \in Ino |-> FALSE] /\ fs.free = Blocks
      /\ fs.unused_blocks = Cardinality(Blocks) /\ fs.store = [b \in Blocks |-> Zeros] /\ fs.err = "OK"
      /\ DOMAIN fs = {"din", "dirty", "free", "unused_blocks", "store", "err"}
  OBVIOUS
<1>3. fs \in State
  <2>1. Zeros \in [Cell -> CellValue] /\ Cardinality(Blocks) \in Nat /\ "OK" \in Errors
    BY ZerosContent, SfsNumbers, FS_CardinalityType DEF Errors
  <2>2. [f \in Ino |-> EmptyDin] \in [Ino -> Din] /\ [b \in Blocks |-> Zeros] \in [Blocks -> [Cell -> CellValue]]
    BY <1>1, <2>1
  <2> QED
    BY <2>1, <2>2 DEF State
<1>4. \A p \in Pointers : BlockMap(fs)[p] = 0
  <2> TAKE p \in Pointers
  <2>1. p.of \in Ino /\ p.at \in Slots \cup {-1} /\ p = Pointer(p.of, p.at)
    BY PointerFacts
  <2>2. fs.din[p.of] = EmptyDin
    BY <1>2, <2>1
  <2>3. CASE p.at = -1
    <3>1. BlockMap(fs)[Pointer(p.of, -1)] = fs.din[p.of].indirect
      BY <1>3, <2>1, MapFacts
    <3> QED
      BY <1>1, <2>1, <2>2, <2>3, <3>1
  <2>4. CASE p.at \in 0..(SFS_NDIRECT - 1)
    <3>1. BlockMap(fs)[Pointer(p.of, p.at)] = fs.din[p.of].direct[p.at]
      BY <1>3, <2>1, <2>4, MapFacts
    <3> QED
      BY <1>1, <2>1, <2>2, <2>4, <3>1
  <2>5. CASE p.at \in Slots /\ p.at >= SFS_NDIRECT
    <3>i. PICK i, f : i = p.at /\ f = p.of
      OBVIOUS
    <3>1. BlockMap(fs)[Pointer(f, i)] = IF fs.din[f].indirect = 0 THEN 0
                                        ELSE fs.store[fs.din[f].indirect][i - SFS_NDIRECT]
      BY <1>3, <2>1, <2>5, <3>i, MapFacts
    <3>2. fs.din[f].indirect = 0
      BY <1>1, <2>2, <3>i
    <3> QED
      BY <2>1, <3>i, <3>1, <3>2
  <2>6. p.at = -1 \/ p.at \in 0..(SFS_NDIRECT - 1) \/ (p.at \in Slots /\ p.at >= SFS_NDIRECT)
    <3>1. p.at \in Slots => p.at \in Nat /\ (p.at < SFS_NDIRECT => p.at \in 0..(SFS_NDIRECT - 1))
      BY SlotFacts
    <3> QED
      BY <2>1, <3>1, SfsNumbers
  <2> QED
    BY <2>3, <2>4, <2>5, <2>6
<1>5. Owned(BlockMap(fs), fs.free, fs.unused_blocks)
  <2>1. BlockMap(fs) \in [Pointers -> Blocks \cup {0}]
    <3>1. DOMAIN BlockMap(fs) = Pointers /\ BlockMap(fs) = [p \in Pointers |-> BlockMap(fs)[p]]
      BY DEF BlockMap
    <3> QED
      BY <1>4, <3>1
  <2>2. \A b \in Blocks \ fs.free : FALSE
    BY <1>2
  <2> QED
    BY <1>2, <1>4, <2>1, <2>2, SfsNumbers DEF Owned
<1>6. \A f \in Ino : fs.din[f] = EmptyDin /\ disk_din[f] = EmptyDin
  BY <1>2
<1>7. disk_din \in [Ino -> Din]
  BY <1>1
<1>8. \A f \in Ino : \A i \in 0..(fs.din[f].blocks - 1) : BlockMap(fs)[Pointer(f, i)] # 0
  BY <1>1, <1>6
<1>9. \A f \in Ino : ~fs.dirty[f] => SavedAs(fs, disk_din, f)
  BY <1>1, <1>6 DEF SavedAs
<1>10. Sound(fs, disk_din)
  BY <1>3, <1>5, <1>7, <1>8, <1>9 DEF Sound
<1> QED
  BY <1>2, <1>10, SfsNumbers DEF SfsIInv

(* A call that ends in a sound state.                                       *)
LEMMA EndsSound ==
    ASSUME SfsIInv, NEW d \in Desc, NEW s, Sound(s, disk_din), NEW p \in 0..SFS_MAX_FILE_SIZE,
           Ends(d, s, p), disk_din' = disk_din, file' \in [Desc -> Ino \cup {NoFile}],
           unsaved' = unsaved
    PROVE  SfsIInv'
<1> USE DEF SfsIInv
<1>1. CASE s.err \in Panics
  <2>1. halted' \in Panics /\ fs' = fs /\ pos' = pos
    BY <1>1 DEF Ends
  <2>2. Sound(fs, disk_din)'
    BY <2>1 DEF Sound, SavedAs
  <2> QED
    BY <2>1, <2>2
<1>2. CASE ~(s.err \in Panics)
  <2>1. fs' = Fail(s, "OK") /\ pos' = [pos EXCEPT ![d] = p] /\ halted' = halted
    BY <1>2 DEF Ends, Fail
  <2>2. "OK" \in Errors
    BY DEF Errors
  <2>e. PICK t : t = Fail(s, "OK")
    OBVIOUS
  <2>3. Sound(t, disk_din) /\ t.err = "OK"
    BY <2>2, <2>e, SoundErr
  <2>4. fs' = t
    BY <2>1, <2>e
  <2>5. Sound(fs', disk_din')
    BY <2>3, <2>4
  <2>6. pos' \in [Desc -> 0..SFS_MAX_FILE_SIZE]
    BY <2>1
  <2> QED
    BY <2>1, <2>3, <2>4, <2>5, <2>6
<1> QED
  BY <1>1, <1>2

(* An inode is saved, or leaves memory.                                     *)
IsSaved(s, disk, f, new, r) ==
    /\ new = [disk EXCEPT ![f] = s.din[f]] \/ (new = disk /\ ~s.dirty[f])
    /\ r = [s EXCEPT !.din[f] = new[f], !.dirty[f] = FALSE]

(* Saving an inode keeps them sound on disk.                                *)
LEMMA SavedSound ==
    ASSUME NEW s, NEW disk, Sound(s, disk), NEW f \in Ino, NEW new, NEW r, IsSaved(s, disk, f, new, r)
    PROVE  Sound(r, new) /\ r.err = s.err
<1>0. s \in State /\ disk \in [Ino -> Din] /\ s.din[f] \in Din
  BY StateFacts DEF Sound
<1>s. /\ new = [disk EXCEPT ![f] = s.din[f]] \/ (new = disk /\ ~s.dirty[f])
      /\ r = [s EXCEPT !.din[f] = new[f], !.dirty[f] = FALSE]
  BY DEF IsSaved
<1>w. PICK w, mark : w = new[f] /\ mark = FALSE
  OBVIOUS
<1>1. new \in [Ino -> Din] /\ \A g \in Ino : g # f => new[g] = disk[g]
  BY <1>0, <1>s
<1>2. /\ w \in Din /\ w.direct = s.din[f].direct /\ w.indirect = s.din[f].indirect
      /\ w.blocks <= s.din[f].blocks
  <2>1. CASE new = [disk EXCEPT ![f] = s.din[f]]
    <3>1. w = s.din[f]
      BY <1>0, <1>w, <2>1
    <3>2. s.din[f].blocks \in 0..(SFS_NDIRECT + SFS_BLK_NENTRY)
      BY <1>0, StateFacts
    <3> QED
      BY <1>0, <3>1, <3>2, SfsNumbers
  <2>2. CASE new = disk /\ ~s.dirty[f]
    BY <1>0, <1>w, <2>2 DEF Sound, SavedAs
  <2> QED
    BY <1>s, <2>1, <2>2
<1>3. r = SetDin(s, f, w, mark)
  <2>1. r = [s EXCEPT !.din[f] = w, !.dirty[f] = mark]
    BY <1>s, <1>w
  <2> QED
    BY <1>0, <2>1 DEF SetDin, WithDin, MakeState, State
<1>4. \A i \in 0..(w.blocks - 1) : BlockMap(s)[Pointer(f, i)] # 0
  <2>1. s.din[f].blocks \in 0..(SFS_NDIRECT + SFS_BLK_NENTRY)
    BY <1>0, StateFacts
  <2>2. w.blocks \in 0..(SFS_NDIRECT + SFS_BLK_NENTRY)
    BY <1>2 DEF Din
  <2>3. \A i \in 0..(w.blocks - 1) : i \in 0..(s.din[f].blocks - 1)
    BY <1>2, <2>1, <2>2, SfsNumbers
  <2> QED
    BY <2>3 DEF Sound
<1>5. /\ mark \in BOOLEAN
      /\ ~mark => /\ new[f].direct = w.direct /\ new[f].indirect = w.indirect
                  /\ new[f].size = w.size /\ new[f].blocks <= w.blocks
  <2>1. w.blocks \in 0..(SFS_NDIRECT + SFS_BLK_NENTRY)
    BY <1>2 DEF Din
  <2>2. w.blocks <= w.blocks
    BY <2>1, SfsNumbers
  <2>3. new[f].blocks <= w.blocks
    BY <1>w, <2>2
  <2> QED
    BY <1>w, <2>3
<1> QED
  BY <1>1, <1>2, <1>3, <1>4, <1>5, SetDinSound

(* No call breaks the invariant.                                            *)
LEMMA SfsInvStep == SfsIInv /\ [SfsNext]_sfsVars => SfsIInv'
<1> SUFFICES ASSUME SfsIInv, [SfsNext]_sfsVars PROVE SfsIInv'
  OBVIOUS
<1>0. /\ Sound(fs, disk_din) /\ fs.err = "OK" /\ file \in [Desc -> Ino \cup {NoFile}]
      /\ pos \in [Desc -> 0..SFS_MAX_FILE_SIZE] /\ halted \in Panics \cup {"NO"}
      /\ unsaved \subseteq Ino
      /\ fs \in State /\ disk_din \in [Ino -> Din]
      /\ \A f \in Ino : fs.din[f].size \in 0..SFS_MAX_FILE_SIZE
  BY StateFacts DEF SfsIInv, Sound
<1>1. ASSUME NEW d \in Desc, sfs_open(d) PROVE SfsIInv'
  <2>1. PICK f \in Ino : /\ file' = [file EXCEPT ![d] = f]
                         /\ \/ Ends(d, fs, 0) \/ Ends(d, fs, fs.din[f].size)
                            \/ Ends(d, sfs_truncfile(fs, f, 0), 0)
    BY <1>1 DEF sfs_open
  <2>2. disk_din' = disk_din /\ unsaved' = unsaved /\ file' \in [Desc -> Ino \cup {NoFile}]
    BY <1>0, <1>1, <2>1 DEF sfs_open
  <2>3. 0 \in 0..SFS_MAX_FILE_SIZE
    BY SfsNumbers
  <2>4. Sound(sfs_truncfile(fs, f, 0), disk_din)
    BY <1>0, <2>3, TruncFileSound
  <2>5. CASE Ends(d, fs, 0)
    BY <1>0, <2>2, <2>3, <2>5, EndsSound
  <2>6. CASE Ends(d, fs, fs.din[f].size)
    BY <1>0, <2>2, <2>6, EndsSound
  <2>7. CASE Ends(d, sfs_truncfile(fs, f, 0), 0)
    BY <2>2, <2>3, <2>4, <2>7, EndsSound
  <2> QED
    BY <2>1, <2>5, <2>6, <2>7
<1>2. ASSUME NEW d \in Desc, sfs_close(d) PROVE SfsIInv'
  <2>1. /\ file[d] \in Ino /\ file' = [file EXCEPT ![d] = NoFile] /\ pos' = [pos EXCEPT ![d] = 0]
        /\ halted' = halted
    BY <1>0, <1>2 DEF sfs_close, Opened
  <2>2. file' \in [Desc -> Ino \cup {NoFile}] /\ pos' \in [Desc -> 0..SFS_MAX_FILE_SIZE]
    BY <1>0, <2>1, SfsNumbers
  <2>6. unsaved' \subseteq Ino
    BY <1>0, <1>2, <2>1 DEF sfs_close, LastClose
  <2>3. CASE fs' = fs /\ disk_din' = disk_din
    <3>1. Sound(fs, disk_din)'
      BY <1>0, <2>3 DEF Sound, SavedAs
    <3> QED
      BY <1>0, <2>1, <2>2, <2>3, <2>6, <3>1 DEF SfsIInv
  <2>4. CASE LastClose(file[d])
    <3>f. PICK f, new, r : f = file[d] /\ new = disk_din' /\ r = fs'
      OBVIOUS
    <3>1. /\ new = IF fs.dirty[f] THEN [disk_din EXCEPT ![f] = fs.din[f]] ELSE disk_din
          /\ r = [fs EXCEPT !.din[f] = new[f], !.dirty[f] = FALSE]
      BY <2>4, <3>f DEF LastClose
    <3>2. f \in Ino
      BY <2>1, <3>f
    <3>3. Sound(r, new) /\ r.err = fs.err
      <4>1. CASE fs.dirty[f]
        <5>1. new = [disk_din EXCEPT ![f] = fs.din[f]]
          BY <3>1, <4>1
        <5>2. IsSaved(fs, disk_din, f, new, r)
          BY <3>1, <5>1 DEF IsSaved
        <5> QED
          BY <1>0, <3>2, <5>2, SavedSound
      <4>2. CASE ~fs.dirty[f]
        <5>1. new = disk_din
          BY <3>1, <4>2
        <5>2. IsSaved(fs, disk_din, f, new, r)
          BY <3>1, <4>2, <5>1 DEF IsSaved
        <5> QED
          BY <1>0, <3>2, <5>2, SavedSound
      <4> QED
        BY <4>1, <4>2
    <3>4. Sound(fs', disk_din') /\ fs'.err = "OK"
      BY <1>0, <3>3, <3>f
    <3> QED
      BY <1>0, <2>1, <2>2, <2>6, <3>4 DEF SfsIInv
  <2>5. (fs' = fs /\ disk_din' = disk_din) \/ LastClose(file[d])
    BY <1>2 DEF sfs_close
  <2> QED
    BY <2>3, <2>4, <2>5
<1>3. ASSUME NEW d \in Desc, sfs_fsync(d) PROVE SfsIInv'
  <2>f. PICK f, new, r : f = file[d] /\ new = disk_din' /\ r = fs'
    OBVIOUS
  <2>1. /\ f \in Ino /\ new = [disk_din EXCEPT ![f] = fs.din[f]]
        /\ r = [fs EXCEPT !.dirty[f] = FALSE]
        /\ file' = file /\ pos' = pos /\ halted' = halted /\ unsaved' = unsaved
    BY <1>0, <1>3, <2>f DEF sfs_fsync, Opened
  <2>2. r = [fs EXCEPT !.din[f] = new[f], !.dirty[f] = FALSE]
    <3>1. new[f] = fs.din[f]
      BY <1>0, <2>1
    <3>2. [fs.din EXCEPT ![f] = new[f]] = fs.din
      BY <1>0, <3>1, StateFacts
    <3> QED
      BY <1>0, <2>1, <3>2 DEF State
  <2>3. Sound(r, new) /\ r.err = fs.err
    <3>1. IsSaved(fs, disk_din, f, new, r)
      BY <2>1, <2>2 DEF IsSaved
    <3> QED
      BY <1>0, <2>1, <3>1, SavedSound
  <2>4. Sound(fs', disk_din') /\ fs'.err = "OK"
    BY <1>0, <2>3, <2>f
  <2> QED
    BY <1>0, <2>1, <2>4 DEF SfsIInv
<1>4. ASSUME NEW d \in Desc, NEW n \in 1..MaxIO, NEW write \in BOOLEAN, Transfer(d, n, write) PROVE SfsIInv'
  <2>f. PICK f, q : f = file[d] /\ q = sfs_io(fs, f, pos[d], n, write)
    OBVIOUS
  <2>1. f \in Ino /\ Ends(d, q.s, q.at) /\ file' = file /\ disk_din' = disk_din /\ unsaved' = unsaved
    BY <1>0, <1>4, <2>f DEF Transfer, Opened
  <2>2. pos[d] \in 0..SFS_MAX_FILE_SIZE /\ n \in Nat
    BY <1>0, SfsNumbers
  <2>3. Sound(q.s, disk_din) /\ q.at \in 0..SFS_MAX_FILE_SIZE
    BY <1>0, <2>1, <2>2, <2>f, IoSound
  <2> QED
    BY <1>0, <2>1, <2>3, EndsSound
<1>5. ASSUME NEW d \in Desc, NEW p \in 0..(SFS_MAX_FILE_SIZE - 1), file_seek(d, p) PROVE SfsIInv'
  <2>f. PICK f, s, q : f = file[d] /\ s = sfs_truncfile(fs, f, p) /\ q = IF s.err = "OK" THEN p ELSE pos[d]
    OBVIOUS
  <2>1. /\ f \in Ino /\ file' = file /\ disk_din' = disk_din /\ unsaved' = unsaved
        /\ Ends(d, s, q) \/ Ends(d, fs, p)
    BY <1>0, <1>5, <2>f DEF file_seek, Opened
  <2>2. p \in 0..SFS_MAX_FILE_SIZE /\ pos[d] \in 0..SFS_MAX_FILE_SIZE
    BY <1>0, SfsNumbers
  <2>3. q \in 0..SFS_MAX_FILE_SIZE
    BY <2>2, <2>f
  <2>4. Sound(s, disk_din)
    BY <1>0, <2>1, <2>2, <2>f, TruncFileSound
  <2>5. Ends(d, s, q) => SfsIInv'
    BY <1>0, <2>1, <2>3, <2>4, EndsSound
  <2>6. Ends(d, fs, p) => SfsIInv'
    BY <1>0, <2>1, <2>2, EndsSound
  <2> QED
    BY <2>1, <2>5, <2>6
<1>6. CASE UNCHANGED sfsVars
  BY <1>6 DEF sfsVars, SfsIInv, Sound, SavedAs
<1> QED
  BY <1>1, <1>2, <1>3, <1>4, <1>5, <1>6 DEF SfsNext

(* What the invariant says of the blocks.                                   *)
LEMMA SfsInvImplies == SfsIInv => BlocksInv
<1> SUFFICES ASSUME SfsIInv PROVE BlocksInv
  OBVIOUS
<1>0. /\ Sound(fs, disk_din) /\ fs.err = "OK" /\ file \in [Desc -> Ino \cup {NoFile}]
      /\ pos \in [Desc -> 0..SFS_MAX_FILE_SIZE] /\ halted \in Panics \cup {"NO"}
      /\ unsaved \subseteq Ino
      /\ fs \in State /\ Owned(BlockMap(fs), fs.free, fs.unused_blocks)
  BY DEF SfsIInv, Sound
<1>1. SfsTypeOK
  <2>1. fs.free \subseteq Blocks /\ IsFiniteSet(fs.free) /\ fs.unused_blocks = Cardinality(fs.free)
    BY <1>0, SfsNumbers, FS_Subset DEF Owned
  <2>2. fs.unused_blocks \in 0..Cardinality(Blocks)
    BY <2>1, SfsNumbers, FS_Subset, FS_CardinalityType
  <2>3. \A f \in Ino : fs.din[f] \in Din /\ fs.dirty[f] \in BOOLEAN
    BY <1>0, StateFacts
  <2> QED
    BY <1>0, <2>1, <2>2, <2>3 DEF SfsTypeOK, Din
<1>2. NoHoles
  <2> SUFFICES ASSUME NEW f \in Ino, NEW i \in 0..(fs.din[f].blocks - 1) PROVE sfs_bmap_get(fs, f, i) # 0
    BY DEF NoHoles
  <2>1. BlockMap(fs)[Pointer(f, i)] # 0
    BY <1>0 DEF Sound
  <2>2. fs.din[f].blocks \in 0..(SFS_NDIRECT + SFS_BLK_NENTRY)
    BY <1>0, StateFacts
  <2>3. i \in Slots
    BY <2>2, SfsNumbers DEF Slots
  <2> QED
    BY <1>0, <2>1, <2>3, MapFacts
<1>3. BlocksOwnedOnce
  <2>1. fs.unused_blocks = Cardinality(fs.free)
    BY <1>0 DEF Owned
  <2>2. \A p \in Pointers : Target(p) = BlockMap(fs)[p]
    BY DEF Target, BlockMap, Held
  <2>3. ASSUME NEW b \in Blocks
        PROVE  Cardinality({p \in Pointers : Target(p) = b}) = IF b \in fs.free THEN 0 ELSE 1
    <3>1. CASE b \in fs.free
      <4>1. {p \in Pointers : Target(p) = b} = {}
        BY <1>0, <2>2, <3>1 DEF Owned
      <4> QED
        BY <3>1, <4>1, FS_EmptySet
    <3>2. CASE b \notin fs.free
      <4>1. PICK p \in Pointers : BlockMap(fs)[p] = b
        BY <1>0, <3>2 DEF Owned
      <4>2. \A q \in Pointers : BlockMap(fs)[q] = b => q = p
        BY <1>0, <4>1, SfsNumbers DEF Owned
      <4>3. {q \in Pointers : Target(q) = b} = {p}
        BY <2>2, <4>1, <4>2
      <4> QED
        BY <3>2, <4>3, FS_Singleton
    <3> QED
      BY <3>1, <3>2
  <2> QED
    BY <2>1, <2>3 DEF BlocksOwnedOnce
<1> QED
  BY <1>1, <1>2, <1>3 DEF BlocksInv

(* Through transfers, truncations and full disks, under any number of       *)
(* descriptors, every disk block is free or belongs to one place of one     *)
(* file, the superblock counts the free ones, and no file has a hole below  *)
(* its block count (sfs_inode.c).                                           *)
THEOREM BlocksCorrect == SfsSpec => []BlocksInv
<1>1. SfsIInv /\ [SfsNext]_sfsVars => SfsIInv'
  BY SfsInvStep
<1> QED
  BY <1>1, SfsInvInit, SfsInvImplies, PTL DEF SfsSpec
=============================================================================
