----------------------------- MODULE ProcMemory -----------------------------
(***************************************************************************)
(* What a process owns, from fork to wait (proc.c): do_fork, do_execve,    *)
(* load_icode, do_exit and do_wait as chains of allocations, any of which  *)
(* may fail, with their goto labels.  User programs never share an address *)
(* space (sys_fork passes no CLONE_VM), so mm_count is 1 while mm is used. *)
(***************************************************************************)
EXTENDS Integers, FiniteSets

CONSTANTS Proc, initproc

ASSUME InitIsProc == initproc \in Proc

Object == {"proc", "kstack", "mm", "pgdir", "vmas", "pages", "files",   \* of a process
           "kargv", "fd", "phdrs", "uargv"}                             \* of a call
\* Lists, which may be empty when they are released.
Lists == {"vmas", "pages"}

VARIABLES pc,       \* the label a process is at; "unused" without a process
          child,    \* the process being made by do_fork, or the caller itself
          held,     \* allocated objects, by the process they are for
          ptr,      \* pointers that are not NULL: current->mm, phdrs, uargv
          ret,      \* the result so far of the call: 0 or an error
          misused   \* objects that were released or used without being allocated

vars == <<pc, child, held, ptr, ret, misused>>

At(p, label) == pc[p] = label
Goto(p, label) == pc' = [pc EXCEPT ![p] = label]
Returns(p, value) == ret' = [ret EXCEPT ![p] = value]

\* An allocation for process q; without objects, a read or a check that may fail.
TryRet(p, q, label, objects, then, bad, good_ret, bad_ret) ==
    /\ At(p, label)
    /\ \/ /\ held' = [held EXCEPT ![q] = @ \cup objects]
          /\ ptr' = [ptr EXCEPT ![q] = @ \cup (objects \cap {"phdrs", "uargv"})]
          /\ Goto(p, then) /\ Returns(p, good_ret)
       \/ Goto(p, bad) /\ Returns(p, bad_ret) /\ UNCHANGED <<held, ptr>>
    /\ UNCHANGED <<child, misused>>

Try(p, q, label, objects, then, bad) == TryRet(p, q, label, objects, then, bad, 0, -1)

\* Objects of q are released, with the help of others.
Drop(q, uses, objects) ==
    /\ held' = [held EXCEPT ![q] = @ \ objects]
    /\ misused' = misused \cup ((uses \cup (objects \ Lists)) \ held[q])

Release(p, q, label, uses, objects, then) ==
    /\ At(p, label)
    /\ Drop(q, uses, objects)
    /\ Goto(p, then)
    /\ UNCHANGED <<child, ptr, ret>>

\* exit_mmap, put_pgdir and mm_destroy of an mm in use, then forgotten.
LeaveMm(p, q, label, others, then) ==
    /\ At(p, label)
    /\ IF "mm" \in ptr[q] THEN Drop(q, {}, {"pages", "pgdir", "mm", "vmas"} \cup others)
                          ELSE UNCHANGED <<held, misused>>
    /\ ptr' = [ptr EXCEPT ![q] = @ \ {"mm"}]
    /\ Goto(p, then) /\ UNCHANGED <<child, ret>>

\* A branch that allocates nothing.
Branch(p, label, targets) ==
    /\ At(p, label)
    /\ \E t \in targets : Goto(p, t)
    /\ UNCHANGED <<child, held, ptr, ret, misused>>

-----------------------------------------------------------------------------
\* copy_mm: nothing to do for a kernel thread.
copy_mm(p) ==
    LET c == child[p] IN
    \/ Try(p, c, "mm_create", {"mm"}, "setup_pgdir", "bad_fork_cleanup_kstack")
    \/ Try(p, c, "setup_pgdir", {"pgdir"}, "dup_mmap", "bad_pgdir_cleanup_mm")
    \/ Try(p, c, "dup_mmap", {"vmas"}, "copy_range", "bad_dup_cleanup_mmap")
    \/ Try(p, c, "copy_range", {"pages"}, "dup_next", "bad_dup_cleanup_mmap")
    \/ Branch(p, "dup_next", {"dup_mmap", "good_mm"})
    \/ /\ At(p, "good_mm")
       /\ ptr' = [ptr EXCEPT ![c] = {"mm"}]
       /\ Goto(p, "copy_files") /\ UNCHANGED <<child, held, ret, misused>>
    \/ Release(p, c, "bad_dup_cleanup_mmap", {"mm", "pgdir"}, {"pages", "pgdir"}, "bad_pgdir_cleanup_mm")
    \/ Release(p, c, "bad_pgdir_cleanup_mm", {}, {"mm", "vmas"}, "bad_fork_cleanup_kstack")

\* The child of a kernel thread has no mm to clean up.
bad_fork_cleanup_mm(p) ==
    LeaveMm(p, child[p], "bad_fork_cleanup_mm", {}, "bad_fork_cleanup_kstack")

\* init_main panics when it cannot create user_main.
fork_out(p) ==
    /\ At(p, "fork_out")
    /\ pc' = [pc EXCEPT ![p] = IF p = initproc THEN "panic" ELSE "user", ![child[p]] = "unused"]
    /\ child' = [child EXCEPT ![p] = p]
    /\ Returns(p, 0)
    /\ UNCHANGED <<held, ptr, misused>>

\* By a user process, or by init_main, which makes the kernel thread user_main.
do_fork(p) ==
    LET c == child[p] IN
    \/ /\ pc[p] \in {"user", "init"}
       /\ \E q \in Proc : /\ pc[q] = "unused"
                          /\ child' = [child EXCEPT ![p] = q]
                          /\ pc' = [pc EXCEPT ![p] = "alloc_proc", ![q] = "embryo"]
       /\ UNCHANGED <<held, ptr, ret, misused>>
    \/ Try(p, c, "alloc_proc", {"proc"}, "setup_kstack", "fork_out")
    \/ Try(p, c, "setup_kstack", {"kstack"}, IF "mm" \in ptr[p] THEN "mm_create" ELSE "copy_files",
           "bad_fork_cleanup_proc")
    \/ copy_mm(p)
    \/ Try(p, c, "copy_files", {"files"}, "wakeup_proc", "bad_fork_cleanup_mm")
    \/ /\ At(p, "wakeup_proc")
       /\ pc' = [pc EXCEPT ![p] = IF p = initproc THEN "wait" ELSE "user",
                           ![c] = IF p = initproc THEN "kernel" ELSE "user"]
       /\ child' = [child EXCEPT ![p] = p]
       /\ UNCHANGED <<held, ptr, ret, misused>>
    \/ bad_fork_cleanup_mm(p)
    \/ Release(p, c, "bad_fork_cleanup_kstack", {"proc"}, {"kstack"}, "bad_fork_cleanup_proc")
    \/ Release(p, c, "bad_fork_cleanup_proc", {}, {"proc"}, "fork_out")
    \/ fork_out(p)

-----------------------------------------------------------------------------
\* The loop over the program headers: a segment has pages that are read, then
\* pages of its BSS.  A page that is missing leaves ret as it is.
ProgramHeaders(p) ==
    \/ Branch(p, "headers", {"segment", "stack"})
    \/ TryRet(p, p, "segment", {"vmas"}, "text", "bad_cleanup_mmap", -1, -1)
    \/ Branch(p, "text", {"text_page", "bss", "headers"})
    \/ TryRet(p, p, "text_page", {"pages"}, "text_read", "bad_cleanup_mmap", ret[p], ret[p])
    \/ Try(p, p, "text_read", {}, "text", "bad_cleanup_mmap")
    \/ TryRet(p, p, "bss", {"pages"}, "bss_next", "bad_cleanup_mmap", ret[p], ret[p])
    \/ Branch(p, "bss_next", {"bss", "headers"})

\* The stack pages are asserted.
stack(p) ==
    \/ Try(p, p, "stack", {"vmas"}, "stack_pages", "bad_cleanup_mmap")
    \/ Branch(p, "stack_pages", {"panic"})
    \/ /\ At(p, "stack_pages")
       /\ held' = [held EXCEPT ![p] = @ \cup {"pages"}]
       /\ ptr' = [ptr EXCEPT ![p] = @ \cup {"mm"}]
       /\ Goto(p, "uargv") /\ UNCHANGED <<child, ret, misused>>

\* Mutant: the page directory is left out.
Mutant_KeepsDirectory(p) ==
    Release(p, p, "bad_cleanup_mmap", {"mm", "pgdir"}, {"pages"}, "bad_pgdir_cleanup_mm_")
\* Whatever fails in a segment or later, up to the stack.
bad_cleanup_mmap(p) ==
    Release(p, p, "bad_cleanup_mmap", {"mm", "pgdir"}, {"pages"}, "bad_elf_cleanup_pgdir")

\* The pointers phdrs and uargv are local: they end with the call.
out(p) ==
    /\ At(p, "out")
    /\ Drop(p, {}, ptr[p] \cap {"phdrs", "uargv"})
    /\ ptr' = [ptr EXCEPT ![p] = @ \ {"phdrs", "uargv"}]
    /\ Goto(p, "close") /\ UNCHANGED <<child, ret>>

load_icode(p) ==
    \/ Try(p, p, "load_icode", {"mm"}, "load_pgdir", "out")
    \/ Try(p, p, "load_pgdir", {"pgdir"}, "load_elf", "bad_pgdir_cleanup_mm_")
    \/ Try(p, p, "load_elf", {}, "load_phdrs", "bad_elf_cleanup_pgdir")
    \/ Try(p, p, "load_phdrs", {"phdrs"}, "read_phdrs", "bad_elf_cleanup_pgdir")
    \/ Try(p, p, "read_phdrs", {}, "headers", "bad_free_phdrs")
    \/ ProgramHeaders(p)
    \/ stack(p)
    \/ Try(p, p, "uargv", {"uargv"}, "copy_args", "bad_cleanup_user")
    \/ Try(p, p, "copy_args", {}, "out", "bad_cleanup_user")
    \/ out(p)
    \/ LeaveMm(p, p, "bad_cleanup_user", {}, "out")
    \/ bad_cleanup_mmap(p)
    \/ Release(p, p, "bad_elf_cleanup_pgdir", {"mm"}, {"pgdir"}, "bad_pgdir_cleanup_mm_")
    \/ Release(p, p, "bad_pgdir_cleanup_mm_", {}, {"mm", "vmas"}, "out")
    \/ Release(p, p, "bad_free_phdrs", {}, {"phdrs"}, "bad_elf_cleanup_pgdir")

sysfile_close(p) ==
    Release(p, p, "close", {}, {"fd"}, IF ret[p] = 0 THEN "executed" ELSE "execve_exit")

\* Back where the call came from.  Without an mm a process faults at its next
\* instruction, again and again.
Execved(p) ==
    Release(p, p, "executed", {}, {"kargv"}, IF "mm" \in ptr[p] THEN "user" ELSE "stranded")

\* The old address space goes once the program file is open.  When its call
\* returns, kernel_execve goes through __trapret to the frame the thread began
\* with, and user_main starts again.
do_execve(p) ==
    \/ Try(p, p, "user", {"kargv"}, "open", "user")
    \/ Try(p, p, "kernel", {"kargv"}, "open", "kernel")
    \/ Try(p, p, "open", {"fd"}, "leave_mm", "execve_exit")
    \/ LeaveMm(p, p, "leave_mm", {}, "load_icode")
    \/ load_icode(p)
    \/ sysfile_close(p)
    \/ Execved(p)
    \/ Release(p, p, "execve_exit", {}, {"kargv"}, "do_exit")

-----------------------------------------------------------------------------
\* Called or killed.  Without an mm the files are not given back.
do_exit(p) ==
    \/ Branch(p, "user", {"do_exit"})
    \/ Branch(p, "stranded", {"do_exit"})
    \/ LeaveMm(p, p, "do_exit", {"files"}, "zombie")

\* do_wait of the parent: the kernel stack and the process; what else it held is lost.
do_wait(p) ==
    /\ At(p, "zombie")
    /\ Drop(p, {}, {"kstack", "proc"})
    /\ Goto(p, "unused") /\ Returns(p, 0) /\ UNCHANGED <<child, ptr>>

Running == \A p \in Proc : pc[p] # "panic"

Next == Running /\ \E p \in Proc : do_fork(p) \/ do_execve(p) \/ do_exit(p) \/ do_wait(p)

Init == /\ pc = [p \in Proc |-> IF p = initproc THEN "init" ELSE "unused"]
        /\ child = [p \in Proc |-> p]
        /\ held = [p \in Proc |-> IF p = initproc THEN {"proc", "kstack", "files"} ELSE {}]
        /\ ptr = [p \in Proc |-> {}]
        /\ ret = [p \in Proc |-> 0]
        /\ misused = {}

Spec == Init /\ [][Next]_vars

-----------------------------------------------------------------------------
\* Types; a process that is being made is nobody yet.
TypeOK ==
    /\ child \in [Proc -> Proc]
    /\ held \in [Proc -> SUBSET Object]
    /\ ptr \in [Proc -> SUBSET {"mm", "phdrs", "uargv"}]
    /\ ret \in [Proc -> {0, -1}]
    /\ misused \subseteq Object
    /\ \A p \in Proc : child[p] # p => pc[child[p]] = "embryo"

\* Outside a call a process holds exactly what it needs, however many calls
\* failed before and wherever: nothing is left over and nothing is missing.
\* One thing is lost: the files of a process that exits without an mm
\* (do_fork, load_icode, do_execve, do_exit, do_wait).
Whole == {"proc", "kstack", "mm", "pgdir", "vmas", "pages", "files"}
NothingLost ==
    \A p \in Proc :
       /\ pc[p] = "user" => held[p] = Whole /\ ptr[p] = {"mm"}
       /\ pc[p] \in {"init", "wait", "kernel", "stranded"} =>
             held[p] = {"proc", "kstack", "files"} /\ ptr[p] = {}
       /\ pc[p] = "zombie" => held[p] \ {"files"} = {"proc", "kstack"} /\ ptr[p] = {}
       /\ pc[p] = "unused" => held[p] \subseteq {"files"} /\ ptr[p] = {}

\* Nothing is used or released without being allocated, phdrs apart (the
\* clean-up labels of do_fork, copy_mm and load_icode).
MisusedAtMost == misused \subseteq {"phdrs"}

\* load_icode: "if up steps failed, you should cleanup the env": every object
\* is released once.  Violated by the label bad_free_phdrs.
ReleasedOnce == misused = {}

\* do_execve: "call load_icode to setup new memory space": a call that returns
\* 0 has set one up.  Violated when a page is missing after a successful read.
ExecutedHasProgram == \A p \in Proc : pc[p] = "executed" => "mm" \in ptr[p]

\* Outside a call a process holds exactly the objects it needs, wherever the calls before
\* failed, and nothing is released twice, phdrs apart (do_fork, do_execve, do_exit, do_wait).
ObjectsInv == TypeOK /\ NothingLost /\ MisusedAtMost
=============================================================================
