------------------------------ MODULE FileTable ------------------------------
(***************************************************************************)
(* The tables of open files (file.c, fs.c), the inode counts they hold     *)
(* (vfsfile.c, vfspath.c, inode.c) and what fork, exec and exit do to them *)
(* (proc.c).  Kernel code is not preempted, so an operation is one step;   *)
(* only a read of the keyboard sleeps, with its descriptor acquired.       *)
(* A reference count of 0 stands for an inode that is not in memory.       *)
(***************************************************************************)
EXTENDS Integers, FiniteSets, Functions

CONSTANTS Proc, initproc,
          Files,                    \* addresses kmalloc can give to a files_struct
          File, Dir, root, stdin,   \* inodes: regular files, directories, the keyboard
          FILES_STRUCT_NENTRY, MAX_INODE_COUNT,
          NULL,
          MaxLost, MaxOrphans       \* bounds on failed exclusive opens and on
                                    \* exits without an address space

Fd == 0..(FILES_STRUCT_NENTRY - 1)
NO_FD == -1
Inode == File \cup Dir \cup {stdin}
None == [status |-> "FD_NONE", open_count |-> 0, node |-> NULL]
Entry == {None} \cup [status : {"FD_OPENED", "FD_CLOSED"}, open_count : Nat \ {0}, node : Inode]
FilesStruct == [pwd : Dir, files_count : Nat \ {0}, fd_array : [Fd -> Entry]]

(* Processes and tables are finitely many, and NULL points to nothing. *)
ASSUME FileTableAssumption ==
    /\ IsFiniteSet(Proc) /\ initproc \in Proc
    /\ IsFiniteSet(Files) /\ NULL \notin Files
    /\ root \in Dir /\ NULL \notin Inode \cup FilesStruct
    /\ {FILES_STRUCT_NENTRY, MAX_INODE_COUNT, MaxLost, MaxOrphans} \subseteq Nat

VARIABLES files,             \* struct files_struct, or NULL where none is allocated
          filesp,            \* of each process
          life,              \* "free", "alive" or "zombie"
          mm,                \* the process has an address space
          reading,           \* the descriptor on which it sleeps, or NO_FD
          ref_count, open_count,
          orphans, lost      \* history: exits that kept a table; references
                             \* that vfs_open took and nobody holds

procVars == <<filesp, life, mm>>
countVars == <<ref_count, open_count>>
vars == <<files, procVars, reading, countVars, orphans, lost>>

Alive == {p \in Proc : life[p] = "alive"}
Running == {p \in Alive : reading[p] = NO_FD}
\* Only user processes make system calls.
Callers == {p \in Running : mm[p]}
fd_array(p) == files[filesp[p]].fd_array
OpenFds(p) == {fd \in Fd : fd_array(p)[fd].status = "FD_OPENED"}

-----------------------------------------------------------------------------
(* Entries of a table.                                                     *)

\* What fd_array_alloc(NO_FD) finds: the first free entry, if there is one.
FreeFds(t) == {fd \in Fd : t[fd].status = "FD_NONE"}
IsFirstFree(t, fd) == fd \in FreeFds(t) /\ \A other \in FreeFds(t) : fd <= other

fd_array_open(node) == [status |-> "FD_OPENED", open_count |-> 1, node |-> node]

\* One count less; the last one frees the entry.
fd_array_release(e) == IF e.open_count = 1 THEN None ELSE [e EXCEPT !.open_count = @ - 1]

fd_array_close(e) == fd_array_release([e EXCEPT !.status = "FD_CLOSED"])
\* Entries of t that are free in u; closing them drops an open count and a
\* reference each (vfs_close).
Freed(t, u, n) == {fd \in Fd : t[fd].node = n /\ t[fd] # None /\ u[fd] = None}
vfs_close(t, u, n) == Cardinality(Freed(t, u, n))

CloseAll(t, from) ==
    [fd \in Fd |-> IF fd >= from /\ t[fd].status = "FD_OPENED" THEN fd_array_close(t[fd]) ELSE t[fd]]
files_closeall(t) == CloseAll(t, 2)

Entries(t, n) == Cardinality({fd \in Fd : t[fd].node = n})
One(b) == IF b THEN 1 ELSE 0

-----------------------------------------------------------------------------
(* System calls on files.                                                  *)

Drop(f, t) ==
    LET Closed(n) == vfs_close(files[f].fd_array, t, n) IN
    /\ ref_count' = [n \in Inode |-> ref_count[n] - Closed(n)]
    /\ open_count' = [n \in Inode |-> open_count[n] - Closed(n)]
\* The entries of table f become t; those that became free are closed.
SetTable(f, t) == files' = [files EXCEPT ![f].fd_array = t] /\ Drop(f, t)

NewEntry(p, fd, n) == files' = [files EXCEPT ![filesp[p]].fd_array[fd] = fd_array_open(n)]
Count(n) == /\ ref_count' = [ref_count EXCEPT ![n] = @ + 1]
            /\ open_count' = [open_count EXCEPT ![n] = @ + 1]

\* vop_open: the devices and directories refuse what they cannot do.
vop_open(n, mode) == \/ n \in File
                     \/ n \in Dir /\ mode \notin {"write", "trunc"}
                     \/ n = stdin /\ mode = "read"
\* inode_check before vop_open, with the reference the lookup took.
inode_check(n) == ref_count[n] + 1 < MAX_INODE_COUNT

\* An open that succeeds.  (Any error but the one below leaves all as it was.)
file_open(p, n, mode) ==
    /\ p \in Callers
    /\ vop_open(n, mode) /\ inode_check(n)
    /\ \E fd \in FreeFds(fd_array(p)) :
          /\ IsFirstFree(fd_array(p), fd)
          /\ NewEntry(p, fd, n)
    /\ Count(n)
    /\ UNCHANGED <<procVars, reading, orphans, lost>>

\* O_CREAT | O_EXCL on a name that exists: -E_EXISTS, and the reference that
\* vfs_lookup took stays.
E_EXISTS(p, n) ==
    /\ p \in Callers
    /\ FreeFds(fd_array(p)) # {}
    /\ SumFunction(lost) < MaxLost
    /\ ref_count' = [ref_count EXCEPT ![n] = @ + 1]
    /\ lost' = [lost EXCEPT ![n] = @ + 1]
    /\ UNCHANGED <<files, procVars, reading, open_count, orphans>>

file_close(p) ==
    /\ p \in Callers
    /\ \E fd \in OpenFds(p) :
          SetTable(filesp[p], [fd_array(p) EXCEPT ![fd] = fd_array_close(@)])
    /\ UNCHANGED <<procVars, reading, orphans, lost>>

\* dup2: fd2 is any free entry (-E_BUSY otherwise); NO_FD takes the first one.
file_dup(p) ==
    /\ p \in Callers
    /\ \E fd1 \in OpenFds(p), fd2 \in FreeFds(fd_array(p)) :
          LET n == fd_array(p)[fd1].node IN
          /\ NewEntry(p, fd2, n)
          /\ Count(n)
    /\ UNCHANGED <<procVars, reading, orphans, lost>>

\* file_read up to the point where dev_stdin_read sleeps.
fd_array_acquire(p) ==
    /\ p \in Callers
    /\ \E fd \in OpenFds(p) :
          /\ fd_array(p)[fd].node = stdin
          /\ reading' = [reading EXCEPT ![p] = fd]
          /\ SetTable(filesp[p], [fd_array(p) EXCEPT ![fd].open_count = @ + 1])
    /\ UNCHANGED <<procVars, orphans, lost>>

\* The rest of file_read, after a key or a kill.
file_read(p) ==
    /\ reading[p] # NO_FD
    /\ SetTable(filesp[p], [fd_array(p) EXCEPT ![reading[p]] = fd_array_release(@)])
    /\ reading' = [reading EXCEPT ![p] = NO_FD]
    /\ UNCHANGED <<procVars, orphans, lost>>

\* The directory is set without a reference of its own: only vfs_lookup's,
\* which vfs_chdir drops.
Mutant_ChdirBorrows(p, d) ==
    LET old == files[filesp[p]].pwd IN
    /\ p \in Callers /\ d # old
    /\ files' = [files EXCEPT ![filesp[p]].pwd = d]
    /\ ref_count' = [ref_count EXCEPT ![old] = @ - 1]
    /\ UNCHANGED <<procVars, reading, open_count, orphans, lost>>

vfs_chdir(p, d) ==
    LET old == files[filesp[p]].pwd IN
    /\ p \in Callers /\ d # old
    /\ files' = [files EXCEPT ![filesp[p]].pwd = d]
    /\ ref_count' = [ref_count EXCEPT ![old] = @ - 1, ![d] = @ + 1]
    /\ UNCHANGED <<procVars, reading, open_count, orphans, lost>>

-----------------------------------------------------------------------------
(* Tables under fork, exec and exit.                                       *)

\* Descriptors on which a read sleeps stay open in the child, with one count.
dup_files(f) ==
    [f EXCEPT !.files_count = 1,
              !.fd_array = [fd \in Fd |-> IF f.fd_array[fd].status = "FD_OPENED"
                                          THEN fd_array_open(f.fd_array[fd].node) ELSE None]]

\* The child gets the address of its parent's table, uncounted.
Mutant_SameTable(p, q) ==
    /\ filesp' = [filesp EXCEPT ![q] = filesp[p]]
    /\ UNCHANGED <<files, countVars>>

\* copy_files: a table of its own, if there is memory for one.  (No caller of
\* do_fork passes CLONE_FS, with which parent and child would share one.)
CopyFiles(p, q) ==
    \E f \in Files :
       LET copy == dup_files(files[filesp[p]]) IN
       /\ files[f] = NULL
       /\ files' = [files EXCEPT ![f] = copy]
       /\ filesp' = [filesp EXCEPT ![q] = f]
       /\ ref_count' = [n \in Inode |-> ref_count[n] + Entries(copy.fd_array, n) + One(n = copy.pwd)]
       /\ open_count' = [n \in Inode |-> open_count[n] + Entries(copy.fd_array, n)]

do_fork(p, q) ==
    /\ p \in Running /\ life[q] = "free"
    /\ CopyFiles(p, q)
    /\ life' = [life EXCEPT ![q] = "alive"]
    /\ mm' = [mm EXCEPT ![q] = mm[p]]
    /\ UNCHANGED <<reading, orphans, lost>>

\* put_files for a table f whose entries are now t; files_destroy closes what
\* is open when nobody shares the table any more.
PutFiles(f, t) ==
    LET old == files[f].fd_array
        last == files[f].files_count = 1
        u == IF last THEN CloseAll(t, 0) ELSE t IN
    /\ files' = [files EXCEPT ![f] = IF last THEN NULL
                                     ELSE [files[f] EXCEPT !.files_count = @ - 1, !.fd_array = t]]
    /\ ref_count' = [n \in Inode |-> ref_count[n] - vfs_close(old, u, n)
                                     - One(last /\ files[f].pwd = n)]
    /\ open_count' = [n \in Inode |-> open_count[n] - vfs_close(old, u, n)]

\* A process without an address space keeps its table as it dies: t is left.
LeaveFiles(f, t) ==
    /\ SumFunction(orphans) < MaxOrphans
    /\ SetTable(f, t)
    /\ orphans' = [orphans EXCEPT ![f] = @ + 1]

\* The part of do_exit that is about files, with the entries t.
Exit(p, t, has_mm) ==
    /\ life' = [life EXCEPT ![p] = "zombie"]
    /\ mm' = [mm EXCEPT ![p] = FALSE]
    /\ IF has_mm
       THEN PutFiles(filesp[p], t) /\ UNCHANGED orphans
       ELSE LeaveFiles(filesp[p], t)
    /\ UNCHANGED <<filesp, reading, lost>>

do_exit(p) == p \in Running \ {initproc} /\ Exit(p, fd_array(p), mm[p])

\* do_execve after its arguments were copied.  The program's own descriptor
\* is open only in between and needs a free entry.  That load_icode returns 0
\* without an address space when a page is missing is left to ProcMemory.
do_execve(p) ==
    /\ p \in Running \ {initproc}
    /\ LET t == files_closeall(fd_array(p)) IN
       \/ /\ FreeFds(t) # {}
          /\ SetTable(filesp[p], t)
          /\ mm' = [mm EXCEPT ![p] = TRUE]
          /\ UNCHANGED <<filesp, life, reading, orphans, lost>>
       \/ Exit(p, t, mm[p])                             \* the open failed
       \/ FreeFds(t) # {} /\ Exit(p, t, FALSE)          \* load_icode failed

\* do_wait frees the process; its files_struct is not looked at.
do_wait(q) ==
    /\ life[q] = "zombie"
    /\ life' = [life EXCEPT ![q] = "free"]
    /\ filesp' = [filesp EXCEPT ![q] = NULL]
    /\ UNCHANGED <<files, mm, reading, countVars, orphans, lost>>

Next ==
    \/ \E p \in Proc :
          \/ file_close(p) \/ file_dup(p) \/ fd_array_acquire(p) \/ file_read(p)
          \/ do_exit(p) \/ do_execve(p) \/ do_wait(p)
          \/ \E n \in Inode, mode \in {"read", "write", "trunc"} : file_open(p, n, mode)
          \/ \E n \in Inode : E_EXISTS(p, n)
          \/ \E d \in Dir : vfs_chdir(p, d)
          \/ \E q \in Proc : do_fork(p, q)

\* References the kernel keeps: the device list on stdin, bootfs on root.
Kept(n) == One(n \in {stdin, root})

\* init_main after vfs_set_bootfs("disk0:").
Init ==
    /\ \E f \in Files :
          /\ files = [g \in Files |-> IF g = f THEN [pwd |-> root, files_count |-> 1,
                                                     fd_array |-> [fd \in Fd |-> None]]
                                      ELSE NULL]
          /\ filesp = [p \in Proc |-> IF p = initproc THEN f ELSE NULL]
    /\ life = [p \in Proc |-> IF p = initproc THEN "alive" ELSE "free"]
    /\ mm = [p \in Proc |-> FALSE]
    /\ reading = [p \in Proc |-> NO_FD]
    /\ ref_count = [n \in Inode |-> Kept(n) + One(n = root)]
    /\ open_count = [n \in Inode |-> 0]
    /\ orphans = [f \in Files |-> 0]
    /\ lost = [n \in Inode |-> 0]

Spec == Init /\ [][Next]_vars

-----------------------------------------------------------------------------
Tables == {f \in Files : files[f] # NULL}
Owners(f) == {p \in Alive : filesp[p] = f}
Readers(f, fd) == {p \in Owners(f) : reading[p] = fd}
Users(n) == Cardinality({d \in Tables \X Fd : files[d[1]].fd_array[d[2]].node = n})

TypeOK ==
    /\ files \in [Files -> FilesStruct \cup {NULL}]
    /\ filesp \in [Proc -> Files \cup {NULL}]
    /\ life \in [Proc -> {"free", "alive", "zombie"}]
    /\ mm \in [Proc -> BOOLEAN]
    /\ reading \in [Proc -> Fd \cup {NO_FD}]
    /\ ref_count \in [Inode -> Nat] /\ open_count \in [Inode -> Nat]
    /\ orphans \in [Files -> Nat] /\ lost \in [Inode -> Nat]

\* An inode is open as often as descriptors name it, and referred to by them,
\* by the working directories, by the kernel, and by failed exclusive opens:
\* it leaves memory exactly when nobody can reach it.
InodeCountsExact ==
    \A n \in Inode :
       /\ open_count[n] = Users(n)
       /\ ref_count[n] = Users(n) + Cardinality({f \in Tables : files[f].pwd = n})
                         + Kept(n) + lost[n]

\* A descriptor counts the table once while it is open and every sleeping
\* read, so that it is free again when the last of them has left.
Counted(e, readers) == e.open_count = One(e.status = "FD_OPENED") + readers
EntryCounts ==
    \A f \in Tables, fd \in Fd : Counted(files[f].fd_array[fd], Cardinality(Readers(f, fd)))

\* Every living process has a table, which counts it and the exits that left
\* it behind; without such an exit it goes with its process.
TablesOwned ==
    /\ \A p \in Alive : filesp[p] \in Tables
    /\ \A f \in Tables : files[f].files_count = Cardinality(Owners(f)) + orphans[f]

\* inode_check, asserted before every inode operation.
InodeCheck ==
    \A n \in Inode : open_count[n] <= ref_count[n] /\ ref_count[n] < MAX_INODE_COUNT

\* What holds of the tables between any two steps.
TablesInv == TypeOK /\ EntryCounts /\ TablesOwned
=============================================================================
