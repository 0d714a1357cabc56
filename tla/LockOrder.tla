----------------------------- MODULE LockOrder -----------------------------
(***************************************************************************)
(* The semaphores that protect the file systems (lab8/kern/fs), and how    *)
(* the system calls nest them.                                             *)
(*                                                                         *)
(* A function of the kernel is abstracted to what it may do to semaphores: *)
(* a set of alternatives, each a sequence of steps that goes down on a     *)
(* semaphore, goes up on one, sleeps, or calls another function.  Data,    *)
(* error codes and lengths only decide which alternative runs, and any may *)
(* be chosen; a loop over blocks or inodes runs at most twice.  todo[p] is *)
(* the rest of p's system call, innermost call first, as on its stack.     *)
(*                                                                         *)
(* mm_sem and files_sem belong to one process, an inode's semaphore to one *)
(* inode; the others exist once.                                           *)
(***************************************************************************)
EXTENDS Semaphore, FiniteSets

CONSTANTS Proc,     \* the processes
          Dirs,     \* inodes of SFS directories
          Files,    \* inodes of SFS files
          Entries,  \* the system calls that processes make
          MaxCalls  \* how many each makes

VARIABLES todo,     \* todo[p]: the steps left of the system call p is in
          calls     \* calls[p]: system calls p has begun

vars == <<value, wait_queue, ready, running, todo, calls>>

Nodes == Dirs \cup Files

vdev_list_sem == <<"vdev_list_sem", "kernel">>
bootfs_sem == <<"bootfs_sem", "kernel">>
fs_sem == <<"fs_sem", "sfs">>
io_sem == <<"io_sem", "sfs">>
disk0_sem == <<"disk0_sem", "kernel">>
sin_sem(n) == <<"sin_sem", n>>
mm_sem(p) == <<"mm_sem", p>>
files_sem(p) == <<"files_sem", p>>

Locks == {vdev_list_sem, bootfs_sem, fs_sem, io_sem, disk0_sem}
           \cup {sin_sem(n) : n \in Nodes}
           \cup {mm_sem(p) : p \in Proc} \cup {files_sem(p) : p \in Proc}

\* Steps.  A function's argument is the inode or the process it works on.
Down(l) == <<"down", l>>
Up(l) == <<"up", l>>
Sleep == <<"sleep", "stdin">>
Call(f, x) == <<f, x>>
Run(f) == Call(f, "kernel")

\* The alternatives of a section that runs one of B with l held.
Under(l, B) == {<<Down(l)>> \o b \o <<Up(l)>> : b \in B}

\* A statement, and one that a condition or an error path may skip.
Maybe(s) == {<<>>, <<s>>}

-----------------------------------------------------------------------------
(* The disk and SFS. *)

disk0_io == Under(disk0_sem, {<<>>}) \cup {<<>>}

\* sfs_rwblock, sfs_rbuf, sfs_wbuf, sfs_sync_super, sfs_clear_block.
sfs_rwblock == Under(io_sem, {<<Run("disk0_io")>>, <<Run("disk0_io"), Run("disk0_io")>>})

\* A transfer, a truncation, or a search of a directory, under the inode's semaphore.
sfs_io(n) == Under(sin_sem(n), Maybe(Run("sfs_rwblock"))
                                 \cup {<<Run("sfs_rwblock"), Run("sfs_rwblock")>>})

sfs_truncfile(n) == Under(sin_sem(n), Maybe(Run("sfs_rwblock"))) \cup {<<>>}

sfs_fsync(n) == Under(sin_sem(n), Maybe(Run("sfs_rwblock"))) \cup {<<>>}

sfs_load_inode == Under(fs_sem, Maybe(Run("sfs_rwblock")))

\* The directory's semaphore is given back before the file system's is taken.
Mutant_LoadsInSearch(n) ==
    Under(sin_sem(n), {<<Run("sfs_rwblock"), Run("sfs_load_inode")>>, <<>>})

sfs_lookup_once(n) == {<<Call("sfs_io", n)>> \o load : load \in Maybe(Run("sfs_load_inode"))}

\* The truncation is for files without links.
Mutant_KeepsOnError(n) ==
    Under(fs_sem, {<<>>, <<Call("sfs_fsync", n)>>})
      \cup {<<Down(fs_sem), Call("sfs_fsync", n)>>}

sfs_reclaim(n) ==
    Under(fs_sem, {<<>>} \cup {trunc \o sync : trunc \in Maybe(Call("sfs_truncfile", n)),
                                              sync \in Maybe(Call("sfs_fsync", n))})

\* fs_sem is held over the vop_fsync of the cached inodes, not over the super block
\* and the free map.
sfs_sync ==
    {section \o super :
       section \in Under(fs_sem, {<<>>} \cup {<<Call("sfs_fsync", m), Call("sfs_fsync", n)>> :
                                                m, n \in Nodes}),
       super \in {<<>>, <<Run("sfs_rwblock"), Run("sfs_rwblock")>>}}

-----------------------------------------------------------------------------
(* The VFS. *)

\* inode_ref_dec reclaims the inode with the last reference.
vop_ref_dec(n) == Maybe(Call("sfs_reclaim", n))
DropDir == {<<Call("vop_ref_dec", n)>> : n \in Dirs}
DropNode == {<<Call("vop_ref_dec", n)>> : n \in Nodes}

\* vop_open_dec writes the inode with the last descriptor (sfs_close).
vfs_close(n) == {<<Call("sfs_fsync", n), Call("vop_ref_dec", n)>>}
CloseNode == {<<Call("vfs_close", n)>> : n \in Nodes}

\* Look up a name in a directory, and drop the directory.
GoOn(n) == <<Call("sfs_lookup_once", n), Call("vop_ref_dec", n)>>

\* Look up "..", drop the directory, search the parent for its name, go on there; the
\* root, or the directory where a step failed, is dropped at the end.
Climb == {<<>>} \cup {<<Call("sfs_io", n)>> : n \in Dirs}
           \cup {<<Call("sfs_io", n)>> \o GoOn(n) : n \in Dirs}

sfs_namefile ==
    {GoOn(m) \o climb \o drop : m \in Dirs, climb \in Climb, drop \in DropDir}

vfs_get_root == Under(vdev_list_sem, Maybe(Run("sfs_load_inode")))
vfs_get_bootfs == Under(bootfs_sem, {<<>>}) \cup {<<>>}

\* A path starts at the working directory, at a device's root, at the boot directory or
\* at the root of the current file system.
get_device == {<<>>, <<Run("vfs_get_root")>>, <<Run("vfs_get_bootfs")>>}
                \cup {<<Run("sfs_load_inode")>> \o drop : drop \in DropDir}

sfs_lookup(n) == {GoOn(n)}

vfs_lookup == {<<Run("get_device")>>}
                \cup {<<Run("get_device"), Call("sfs_lookup", n), Call("vop_ref_dec", n)>> :
                        n \in Dirs}

\* O_TRUNC truncates; an open that fails drops the inode.
vfs_open == {<<Run("vfs_lookup")>> \o s :
               s \in {<<>>} \cup DropNode
                      \cup {<<Call("sfs_truncfile", n)>> \o undo :
                               n \in Files, undo \in {<<>>} \cup CloseNode}}

\* The old working directory is dropped with files_sem held.
vfs_set_curdir(p) == Under(files_sem(p), {<<>>} \cup DropDir)

vfs_getcwd == {<<>>} \cup {<<Run("sfs_namefile")>> \o drop : drop \in DropDir}

vfs_cleanup == Under(vdev_list_sem, Maybe(Run("sfs_sync")))

-----------------------------------------------------------------------------
(* The system calls. *)

\* copy_path, copy_to_user, copy_from_user, copy_kargv, dup_mmap.
user_memory(p) == Under(mm_sem(p), {<<>>})
Copy(p) == <<Call("user_memory", p)>>

sysfile_open(p) == {Copy(p)} \cup {Copy(p) \o <<Run("vfs_open")>>}
sysfile_close(p) == {<<>>} \cup CloseNode

\* dev_stdin_read sleeps until a key or a kill comes.
dev_stdin_read == {<<>>, <<Sleep>>}

Mutant_ReadsUnderLock(p) == Under(mm_sem(p), {<<Run("dev_stdin_read")>>} \cup
                                               {<<Call("sfs_io", n)>> : n \in Files})

sysfile_read(p) == {read \o out : read \in {<<Run("dev_stdin_read")>>}
                                              \cup {<<Call("sfs_io", n)>> : n \in Files},
                                  out \in {<<>>, Copy(p)}}
sysfile_write(p) == {Copy(p)} \cup {Copy(p) \o <<Call("sfs_io", n)>> : n \in Files}
sysfile_seek(p) == {<<>>} \cup {<<Call("sfs_truncfile", n)>> : n \in Files}
sysfile_fsync(p) == {<<Call("sfs_fsync", n)>> : n \in Nodes}
sysfile_getdirentry(p) == {Copy(p)} \cup {Copy(p) \o <<Call("sfs_io", n)>> \o out :
                                           n \in Dirs, out \in {<<>>, Copy(p)}}
sysfile_chdir(p) == {Copy(p) \o <<Run("vfs_lookup")>>}
                      \cup {Copy(p) \o <<Run("vfs_lookup"), Call("vfs_set_curdir", p)>> \o drop :
                              drop \in DropNode}

\* The only call that enters the file system with mm_sem held.
sysfile_getcwd(p) == Under(mm_sem(p), Maybe(Run("vfs_getcwd")))

\* Arguments are copied, files closed, the program opened, read and closed; an exec that
\* fails before it gives up its memory exits.
do_execve(p) == {Copy(p)}
                  \cup {Copy(p) \o close \o <<Call("sysfile_open", p)>> \o load :
                          close \in CloseNode \cup {<<>>},
                          load \in {<<Run("put_files")>>}
                                    \cup {<<Call("sfs_io", n), Call("sysfile_close", p)>> :
                                              n \in Files}}

\* files_destroy: the working directory, then the descriptors.
put_files == {dir \o close : dir \in DropDir, close \in CloseNode \cup {<<>>}}

\* user_memory stands for do_fork (its dup_mmap), put_files for do_exit, and vfs_cleanup
\* for the end of init_main, when the other processes are gone.
AllEntries == {"sysfile_open", "sysfile_close", "sysfile_read", "sysfile_write",
               "sysfile_seek", "sysfile_fsync", "sysfile_getdirentry", "sysfile_chdir",
               "sysfile_getcwd", "do_execve", "user_memory", "put_files", "vfs_cleanup"}

ASSUME LockAssumption == Entries \subseteq AllEntries /\ MaxCalls \in Nat

\* The alternatives of the function a step calls.
Body(s) ==
    LET f == s[1]
        x == s[2]
    IN  CASE f = "disk0_io" -> disk0_io
          [] f = "sfs_rwblock" -> sfs_rwblock
          [] f = "sfs_io" -> sfs_io(x)
          [] f = "sfs_truncfile" -> sfs_truncfile(x)
          [] f = "sfs_fsync" -> sfs_fsync(x)
          [] f = "sfs_load_inode" -> sfs_load_inode
          [] f = "sfs_lookup_once" -> sfs_lookup_once(x)
          [] f = "sfs_reclaim" -> sfs_reclaim(x)
          [] f = "sfs_sync" -> sfs_sync
          [] f = "vop_ref_dec" -> vop_ref_dec(x)
          [] f = "vfs_close" -> vfs_close(x)
          [] f = "sfs_namefile" -> sfs_namefile
          [] f = "vfs_get_root" -> vfs_get_root
          [] f = "vfs_get_bootfs" -> vfs_get_bootfs
          [] f = "get_device" -> get_device
          [] f = "sfs_lookup" -> sfs_lookup(x)
          [] f = "vfs_lookup" -> vfs_lookup
          [] f = "vfs_open" -> vfs_open
          [] f = "vfs_set_curdir" -> vfs_set_curdir(x)
          [] f = "vfs_getcwd" -> vfs_getcwd
          [] f = "vfs_cleanup" -> vfs_cleanup
          [] f = "user_memory" -> user_memory(x)
          [] f = "dev_stdin_read" -> dev_stdin_read
          [] f = "sysfile_open" -> sysfile_open(x)
          [] f = "sysfile_close" -> sysfile_close(x)
          [] f = "sysfile_read" -> sysfile_read(x)
          [] f = "sysfile_write" -> sysfile_write(x)
          [] f = "sysfile_seek" -> sysfile_seek(x)
          [] f = "sysfile_fsync" -> sysfile_fsync(x)
          [] f = "sysfile_getdirentry" -> sysfile_getdirentry(x)
          [] f = "sysfile_chdir" -> sysfile_chdir(x)
          [] f = "sysfile_getcwd" -> sysfile_getcwd(x)
          [] f = "do_execve" -> do_execve(x)
          [] f = "put_files" -> put_files

-----------------------------------------------------------------------------
Init == /\ sem_init([l \in Locks |-> 1])
        /\ ready = Proc
        /\ running \in Proc
        /\ todo = [p \in Proc |-> <<>>]
        /\ calls = [p \in Proc |-> 0]

Runs(p) == running = p /\ p \in ready

Begin(p) == /\ Runs(p) /\ todo[p] = <<>> /\ calls[p] < MaxCalls
            /\ \E f \in Entries : todo' = [todo EXCEPT ![p] = <<Call(f, p)>>]
            /\ calls' = [calls EXCEPT ![p] = @ + 1]
            /\ UNCHANGED <<semVars, ready, running>>

AtStep(p, verbs) == Runs(p) /\ todo[p] # <<>> /\ Head(todo[p])[1] \in verbs
Done(p) == todo' = [todo EXCEPT ![p] = Tail(@)]

Enter(p) == /\ Runs(p) /\ todo[p] # <<>>
            /\ Head(todo[p])[1] \notin {"down", "up", "sleep"}
            /\ \E b \in Body(Head(todo[p])) : todo' = [todo EXCEPT ![p] = b \o Tail(@)]
            /\ UNCHANGED <<semVars, ready, running, calls>>

Lock(p) == /\ AtStep(p, {"down"})
           /\ down(p, Head(todo[p])[2])
           /\ Done(p)
           /\ UNCHANGED <<running, calls>>

Unlock(p) == /\ AtStep(p, {"up"})
             /\ up(Head(todo[p])[2])
             /\ Done(p)
             /\ UNCHANGED <<running, calls>>

FallAsleep(p) == /\ AtStep(p, {"sleep"})
                 /\ ready' = ready \ {p}
                 /\ UNCHANGED <<semVars, running, todo, calls>>

\* The keyboard interrupt, or a kill, wakes a reader.
WakeUp(p) == /\ p \notin ready /\ todo[p] # <<>> /\ Head(todo[p]) = Sleep
             /\ ready' = ready \cup {p}
             /\ Done(p)
             /\ UNCHANGED <<semVars, running, calls>>

\* schedule(), and the tick that takes the processor from user code.
GiveUp == /\ Switch \/ (todo[running] = <<>> /\ running' \in ready \ {running})
          /\ UNCHANGED <<semVars, ready, todo, calls>>

Step(p) == Begin(p) \/ Enter(p) \/ Lock(p) \/ Unlock(p) \/ FallAsleep(p) \/ WakeUp(p)

Next == GiveUp \/ \E p \in Proc : Step(p)

Spec == Init /\ [][Next]_vars

-----------------------------------------------------------------------------
\* How many l's process p will still give back, beyond those it will still take.
Owes(p, l) == Cardinality({i \in DOMAIN todo[p] : todo[p][i] = Up(l)})
                - Cardinality({i \in DOMAIN todo[p] : todo[p][i] = Down(l)})

Waits(p, l) == p \in Waiters(l)
Holds(p, l) == Owes(p, l) > (IF Waits(p, l) THEN 1 ELSE 0)
Held(p) == {l \in Locks : Holds(p, l)}

\* Types; nobody waits for two semaphores.
TypeOK == /\ value \in [Locks -> {0, 1}]
          /\ \A l \in Locks : Waiters(l) \subseteq Proc \ ready
          /\ ready \subseteq Proc /\ running \in Proc
          /\ calls \in [Proc -> 0..MaxCalls]
          /\ \A p \in Proc : Cardinality({l \in Locks : Waits(p, l)}) <= 1

\* A semaphore's token is with exactly one process or with nobody: what every path
\* through every call takes, it gives back, also when the token is handed to a waiter
\* (lock_sin/unlock_sin and the others; error paths of sfs_load_inode, sfs_reclaim).
TokensAccounted ==
    \A l \in Locks : value[l] + Cardinality({p \in Proc : Holds(p, l)}) = 1

\* No set of processes in which each waits for a semaphore that one of them holds,
\* itself included (the nesting of vdev_list, mm or files, fs, sin, io and disk0).
NoCircularWait ==
    \A S \in (SUBSET Proc) \ {{}} :
       \E p \in S : \A l \in Locks : Waits(p, l) => \A q \in S : ~Holds(q, l)

\* The order that rules out circles among any number of processes: whoever goes down on
\* a semaphore holds only semaphores of an outer layer.
Rank(l) == CASE l[1] \in {"vdev_list_sem", "bootfs_sem", "mm_sem", "files_sem"} -> 1
             [] l[1] = "fs_sem" -> 2
             [] l[1] = "sin_sem" -> 3
             [] l[1] = "io_sem" -> 4
             [] l[1] = "disk0_sem" -> 5

OrderKept ==
    \A p \in Proc, l \in Locks :
       (Waits(p, l) \/ (todo[p] # <<>> /\ Head(todo[p]) = Down(l)))
         => \A h \in Held(p) : Rank(h) < Rank(l)

\* In this kernel, which switches only where a process sleeps, nobody ever sleeps with a
\* semaphore of the file systems held, so that no down in them ever blocks.
SleepsUnlocked == \A p \in Proc \ ready : Held(p) = {}

\* Keys are typed, and the processor does not stop while it can go on.
Fairness == WF_vars(Next) /\ \A p \in Proc : WF_vars(WakeUp(p))
FairSpec == Spec /\ Fairness

\* Every system call ends.
CallsEnd == \A p \in Proc : todo[p] # <<>> ~> todo[p] = <<>>
=============================================================================
