------------------------------ MODULE Process ------------------------------
(***************************************************************************)
(* The life of a process in the lab8 kernel: fork, exit, wait, kill,       *)
(* sleep, yield, a read of the keyboard, the timer interrupt and the       *)
(* switch of the processor (kern/process/proc.c, kern/schedule/sched.c,    *)
(* kern/trap/trap.c, kern/fs/devs/dev_stdin.c).                            *)
(*                                                                         *)
(* One processor, and a kernel that is not preemptive: only `current` takes *)
(* steps, and system calls of user processes run with interrupts off.  A   *)
(* process is inside a system call exactly while it sleeps or waits to run *)
(* again, and pc says where the call goes on.  initproc and idleproc are   *)
(* kernel threads: the timer interrupts them anywhere, but never makes     *)
(* them give up the processor.                                             *)
(***************************************************************************)
EXTENDS TimerList, FiniteSets

CONSTANTS User,            \* slots for user processes
          idleproc, initproc,
          KillTargets,     \* processes that user programs call kill on
          MAX_PROCESS,     \* limit on nr_process
          MAX_TIME_SLICE,  \* ticks of a time slice
          MaxSleep,        \* bound on the argument of sleep
          MaxChars         \* bound on unread keyboard characters

ASSUME ProcessAssumption ==
    /\ idleproc # initproc
    /\ idleproc \notin User /\ initproc \notin User
    /\ Proc = User \cup {idleproc, initproc}
    /\ KillTargets \subseteq User \cup {initproc}
    /\ MAX_PROCESS \in Nat /\ MaxSleep \in Nat /\ MaxChars \in Nat
    /\ MAX_TIME_SLICE \in Nat \ {0}

ASSUME FiniteAssumption == IsFiniteSet(User)

VARIABLES
    state,         \* "UNUSED" (no proc_struct), "RUNNABLE", "SLEEPING", "ZOMBIE"
    wait_state,    \* "NONE", or what a sleeper waits for: "CHILD", "TIMER", "KBD"
    exiting,       \* PF_EXITING
    need_resched, time_slice, parent,
    nr_process,
    rq,            \* rq[p]: how many nodes of the run queue are p's
    current,       \* the running process
    scheduling,    \* current is about to run schedule()
    pc,            \* where a process goes on once it is current and not scheduling
    wait_for,      \* the children do_wait looks for: one process, or all
    kbd_queue,     \* processes linked on stdin's wait queue
    wakeup_flags,  \* wait->wakeup_flags of stdin's waiters: "INTERRUPTED" or "KBD"
    chars,         \* unread characters in stdin's buffer
    halted         \* "NO", "QUIT" (init_main finished) or "PANIC"

tableVars == <<state, wait_state, exiting, parent, nr_process>>
schedVars == <<need_resched, time_slice, rq>>
stdinVars == <<kbd_queue, wakeup_flags, chars>>
vars == <<tableVars, schedVars, stdinVars, timerVars,
          current, scheduling, pc, wait_for, halted>>

Mutant_AnyProcess(p) == {c \in User : state[c] # "UNUSED"}

\* The list of p's children (cptr, optr).
Children(p) == {c \in Proc : state[c] # "UNUSED" /\ parent[c] = p}

-----------------------------------------------------------------------------
(* Scheduling primitives. *)

\* sched_class->enqueue: one more node each, and a new slice for those that
\* used theirs up.
Enqueued(S) == [p \in Proc |-> IF p \in S \ {idleproc} THEN rq[p] + 1 ELSE rq[p]]
Refilled(S) == [p \in Proc |-> IF p \in S \ {idleproc} /\ time_slice[p] = 0
                               THEN MAX_TIME_SLICE ELSE time_slice[p]]

\* sched_class->proc_tick: one tick less of the slice, unless it is used up.
SliceLeft(n) == IF n > 0 THEN n - 1 ELSE 0

\* wakeup_proc of every process in S; those that are RUNNABLE already are left
\* alone, and the running process is not queued.
wakeup_proc(S) ==
    LET up == {p \in S : state[p] # "RUNNABLE"} IN
    /\ state' = [p \in Proc |-> IF p \in up THEN "RUNNABLE" ELSE state[p]]
    /\ wait_state' = [p \in Proc |-> IF p \in up THEN "NONE" ELSE wait_state[p]]
    /\ rq' = Enqueued(up \ {current})

\* The queue once one of the queued processes was picked, which leaves it.
Mutant_NotDequeued(queue, next) == queue
Dequeued(queue, next) == [queue EXCEPT ![next] = @ - 1]

\* schedule(): current goes back to the queue if it is RUNNABLE, and some queued
\* process runs, idleproc if there is none.  Which one is the scheduling class's
\* business (module StrideSched).
schedule ==
    LET back == IF state[current] = "RUNNABLE" THEN {current} ELSE {}
        queue == Enqueued(back) IN
    /\ scheduling /\ halted = "NO"
    /\ \/ \E next \in Proc : /\ queue[next] > 0
                             /\ rq' = Dequeued(queue, next)
                             /\ current' = next
       \/ /\ \A p \in Proc : queue[p] = 0
          /\ rq' = queue
          /\ current' = idleproc
    /\ time_slice' = Refilled(back)
    /\ need_resched' = [need_resched EXCEPT ![current] = FALSE]
    /\ scheduling' = FALSE
    /\ UNCHANGED <<tableVars, stdinVars, timerVars, pc, wait_for, halted>>

\* The running process executes on, at a given place.
At(p, place) == halted = "NO" /\ ~scheduling /\ current = p /\ pc[p] = place

GoTo(p, place) == pc' = [pc EXCEPT ![p] = place]

\* A system call returns to the tail of trap().
Return(p) == GoTo(p, "trap_tail") /\ UNCHANGED scheduling

\* The process will go on at place once schedule() returns to it.
BlockAt(p, place) == GoTo(p, place) /\ scheduling' = TRUE

Sleep(p, reason) == /\ state' = [state EXCEPT ![p] = "SLEEPING"]
                    /\ wait_state' = [wait_state EXCEPT ![p] = reason]

-----------------------------------------------------------------------------
(* System calls. *)

\* do_fork; it may also fail for want of memory, which leaves no trace here.
sys_fork(p) ==
    /\ At(p, "user")
    /\ \/ UNCHANGED <<tableVars, schedVars>>
       \/ \E c \in User :
             /\ nr_process < MAX_PROCESS
             /\ state[c] = "UNUSED"
             /\ state' = [state EXCEPT ![c] = "RUNNABLE"]
             /\ wait_state' = [wait_state EXCEPT ![p] = "NONE"]
             /\ parent' = [parent EXCEPT ![c] = p]
             /\ nr_process' = nr_process + 1
             /\ rq' = Enqueued({c})
             /\ time_slice' = Refilled({c})
             /\ UNCHANGED <<exiting, need_resched>>
    /\ Return(p)
    /\ UNCHANGED <<stdinVars, timerVars, current, wait_for, halted>>

\* The parent of q once p has exited: initproc adopts p's children.
Mutant_KeepsParent(p, q) == parent[q]
ParentAfterExit(p, q) == IF q \in Children(p) THEN initproc ELSE parent[q]

\* Whom the exit of p wakes: the parent that waits for a child, and initproc when
\* it waits and adopts a dead child.
Mutant_WakesParentOnly(p) == {q \in {parent[p]} : wait_state[q] = "CHILD"}
WokenByExit(p) ==
    {q \in {parent[p], initproc} :
        /\ wait_state[q] = "CHILD"
        /\ q = parent[p] \/ \E c \in Children(p) : state[c] = "ZOMBIE"}

\* do_exit: the process becomes a zombie, its parent is woken if it waits for a
\* child, its children go to initproc, which is woken if one of them is dead.
do_exit(p) ==
    IF p = initproc
    THEN halted' = "PANIC" /\ UNCHANGED <<tableVars, schedVars, scheduling, pc>>
    ELSE LET up == WokenByExit(p) IN
         /\ state' = [q \in Proc |-> IF q = p THEN "ZOMBIE"
                                     ELSE IF q \in up THEN "RUNNABLE" ELSE state[q]]
         /\ wait_state' = [q \in Proc |-> IF q \in up THEN "NONE" ELSE wait_state[q]]
         /\ rq' = Enqueued(up)
         /\ time_slice' = Refilled(up)
         /\ parent' = [q \in Proc |-> ParentAfterExit(p, q)]
         /\ BlockAt(p, "dead")
         /\ UNCHANGED <<exiting, nr_process, need_resched, halted>>

sys_exit(p) == /\ At(p, "user")
               /\ do_exit(p)
               /\ UNCHANGED <<stdinVars, timerVars, current, wait_for>>

Mutant_Uncounted == nr_process
OneProcessLess == nr_process - 1

Reap(p, c) ==
    /\ state' = [state EXCEPT ![c] = "UNUSED"]
    /\ parent' = [parent EXCEPT ![c] = idleproc]
    /\ exiting' = [exiting EXCEPT ![c] = FALSE]
    /\ time_slice' = [time_slice EXCEPT ![c] = 0]
    /\ need_resched' = [need_resched EXCEPT ![c] = FALSE]
    /\ nr_process' = OneProcessLess
    /\ pc' = [pc EXCEPT ![c] = "user", ![p] = IF p = initproc THEN "init_loop" ELSE "trap_tail"]
    /\ scheduling' = (p = initproc)
    /\ UNCHANGED <<wait_state, rq, halted>>

\* The children a call looks at (pid 0 stands for all of them).
Mutant_OnlyTheDead(p, who) == {c \in Children(p) \cap who : state[c] = "ZOMBIE"}
WaitsFor(p, who) == Children(p) \cap who

\* do_wait from the label repeat: reap a dead child, sleep while there are only
\* living ones, or return -E_BAD_PROC.  A call by init_main ends in its loop.
do_wait(p, who) ==
    LET kids == WaitsFor(p, who)
        dead == {c \in kids : state[c] = "ZOMBIE"} IN
    \/ /\ \E c \in dead : Reap(p, c)
       /\ wait_for' = [wait_for EXCEPT ![p] = {}]
    \/ /\ dead = {} /\ kids # {}
       /\ Sleep(p, "CHILD")
       /\ BlockAt(p, "wait")
       /\ wait_for' = [wait_for EXCEPT ![p] = who]
       /\ UNCHANGED <<exiting, parent, nr_process, schedVars, halted>>
    \/ /\ kids = {}
       /\ IF p = initproc THEN halted' = "QUIT" /\ UNCHANGED <<pc, scheduling>>
                          ELSE Return(p) /\ UNCHANGED halted
       /\ wait_for' = [wait_for EXCEPT ![p] = {}]
       /\ UNCHANGED <<tableVars, schedVars>>

sys_wait(p) == /\ At(p, "user")
               /\ \E who \in {Proc} \cup {{c} : c \in User} : do_wait(p, who)
               /\ UNCHANGED <<stdinVars, timerVars, current>>

\* The loop of init_main.
init_main == /\ At(initproc, "init_loop")
             /\ do_wait(initproc, Proc)
             /\ UNCHANGED <<stdinVars, timerVars, current>>

\* do_wait after schedule() returned.
wait_resume(p) ==
    /\ At(p, "wait")
    /\ IF exiting[p] THEN do_exit(p) /\ wait_for' = [wait_for EXCEPT ![p] = {}]
                     ELSE do_wait(p, wait_for[p])
    /\ UNCHANGED <<stdinVars, timerVars, current>>

\* do_kill: marks the process, and wakes it if it sleeps interruptibly (every
\* wait state here has WT_INTERRUPTED).  A second kill changes nothing.
sys_kill(p) ==
    /\ At(p, "user")
    /\ \E q \in KillTargets :
          /\ state[q] # "UNUSED"
          /\ \/ exiting[q] /\ UNCHANGED <<state, wait_state, exiting, rq, time_slice>>
             \/ /\ ~exiting[q]
                /\ exiting' = [exiting EXCEPT ![q] = TRUE]
                /\ LET up == {r \in {q} : wait_state[r] # "NONE"} IN
                   wakeup_proc(up) /\ time_slice' = Refilled(up)
    /\ Return(p)
    /\ UNCHANGED <<parent, nr_process, need_resched, stdinVars, timerVars,
                   current, wait_for, halted>>

sys_yield(p) ==
    /\ At(p, "user")
    /\ need_resched' = [need_resched EXCEPT ![p] = TRUE]
    /\ Return(p)
    /\ UNCHANGED <<tableVars, time_slice, rq, stdinVars, timerVars, current, wait_for, halted>>

\* do_sleep before and after schedule(); do_sleep(0) returns at once.
sys_sleep(p) ==
    /\ At(p, "user")
    /\ \E t \in 1..MaxSleep : add_timer(p, t)
    /\ Sleep(p, "TIMER")
    /\ BlockAt(p, "sleep")
    /\ UNCHANGED <<exiting, parent, nr_process, schedVars, stdinVars, current, wait_for, halted>>

sleep_resume(p) ==
    /\ At(p, "sleep")
    /\ del_timer(p)
    /\ Return(p)
    /\ UNCHANGED <<tableVars, schedVars, stdinVars, current, wait_for, halted>>

\* dev_stdin_read of one character: take it, or wait for the keyboard.
dev_stdin_read(p) ==
    \/ /\ chars > 0
       /\ chars' = chars - 1
       /\ kbd_queue' = kbd_queue \ {p}
       /\ wakeup_flags' = [wakeup_flags EXCEPT ![p] = "INTERRUPTED"]
       /\ Return(p)
       /\ UNCHANGED <<state, wait_state>>
    \/ /\ chars = 0
       /\ Sleep(p, "KBD")
       /\ kbd_queue' = kbd_queue \cup {p}
       /\ wakeup_flags' = [wakeup_flags EXCEPT ![p] = "INTERRUPTED"]
       /\ BlockAt(p, "read")
       /\ UNCHANGED chars

sys_read(p) ==
    /\ At(p, "user")
    /\ dev_stdin_read(p)
    /\ UNCHANGED <<exiting, parent, nr_process, schedVars, timerVars, current, wait_for, halted>>

\* wait_current_del takes the reader off the queue.
wait_current_del(p) == kbd_queue' = kbd_queue \ {p}

\* dev_stdin_read after schedule(): wait_current_del, and another try only if it
\* was the keyboard that woke the reader.
read_resume(p) ==
    /\ At(p, "read")
    /\ \/ /\ wakeup_flags[p] = "KBD"
          /\ dev_stdin_read(p)
       \/ /\ wakeup_flags[p] # "KBD"
          /\ wait_current_del(p)
          /\ Return(p)
          /\ UNCHANGED <<state, wait_state, wakeup_flags, chars>>
    /\ UNCHANGED <<exiting, parent, nr_process, schedVars, timerVars, current, wait_for, halted>>

-----------------------------------------------------------------------------
(* Interrupts and the tail of trap(). *)

\* The timer interrupt: expired timers, a character if one was typed, and the
\* running process's slice.
tick ==
    \E k \in 0..Len(timer_list), typed \in BOOLEAN :
       LET due == {timer_list[i] : i \in 1..k}
           readers == IF typed THEN kbd_queue ELSE {} IN
       /\ Fires(k) /\ ExpireFirst(k)
       /\ typed => chars < MaxChars
       /\ chars' = IF typed THEN chars + 1 ELSE chars
       /\ kbd_queue' = kbd_queue \ readers
       /\ wakeup_flags' = [p \in Proc |-> IF p \in readers THEN "KBD" ELSE wakeup_flags[p]]
       /\ wakeup_proc(due \cup readers)
       /\ LET slices == Refilled({p \in due \cup readers : state[p] # "RUNNABLE"} \ {current})
              left == SliceLeft(slices[current]) IN
          IF current = idleproc
          THEN /\ time_slice' = slices
               /\ need_resched' = [need_resched EXCEPT ![idleproc] = TRUE]
          ELSE /\ time_slice' = [slices EXCEPT ![current] = left]
               /\ need_resched' = [need_resched EXCEPT ![current] = @ \/ left = 0]
       /\ UNCHANGED <<exiting, parent, nr_process, current, scheduling, wait_for, halted>>

\* It reaches a user process in user mode only ...
tick_user(p) == /\ At(p, "user")
                /\ tick
                /\ GoTo(p, "trap_tail")

\* ... and a kernel thread anywhere, trap() then returning without further ado.
tick_kernel == /\ halted = "NO"
               /\ current \in {idleproc, initproc}
               /\ tick
               /\ UNCHANGED pc

\* Before it returns to user mode, trap() ends a killed process and gives the
\* processor away if asked to.  After that schedule() nothing looks at
\* PF_EXITING again.
trap_tail(p) ==
    /\ At(p, "trap_tail")
    /\ IF exiting[p] THEN do_exit(p)
       ELSE /\ GoTo(p, "user")
            /\ scheduling' = need_resched[p]
            /\ UNCHANGED <<tableVars, schedVars, halted>>
    /\ UNCHANGED <<stdinVars, timerVars, current, wait_for>>

cpu_idle == /\ At(idleproc, "idle_loop")
            /\ need_resched[idleproc]
            /\ scheduling' = TRUE
            /\ UNCHANGED <<tableVars, schedVars, stdinVars, timerVars,
                           current, pc, wait_for, halted>>

-----------------------------------------------------------------------------
\* init_main has just created the first user process.
Init ==
    /\ TimerInit
    /\ \E u \in User :
          /\ state = [p \in Proc |-> IF p \in {u, idleproc, initproc} THEN "RUNNABLE" ELSE "UNUSED"]
          /\ parent = [p \in Proc |-> IF p = u THEN initproc ELSE idleproc]
          /\ rq = [p \in Proc |-> IF p = u THEN 1 ELSE 0]
          /\ time_slice = [p \in Proc |-> IF p \in {u, initproc} THEN MAX_TIME_SLICE ELSE 0]
    /\ wait_state = [p \in Proc |-> "NONE"]
    /\ exiting = [p \in Proc |-> FALSE]
    /\ need_resched = [p \in Proc |-> FALSE]
    /\ nr_process = 3
    /\ current = initproc /\ scheduling = FALSE
    /\ pc = [p \in Proc |-> IF p = initproc THEN "init_loop"
                            ELSE IF p = idleproc THEN "idle_loop" ELSE "user"]
    /\ wait_for = [p \in Proc |-> {}]
    /\ kbd_queue = {} /\ chars = 0
    /\ wakeup_flags = [p \in Proc |-> "INTERRUPTED"]
    /\ halted = "NO"

Syscall(p) == \/ sys_fork(p) \/ sys_exit(p) \/ sys_wait(p) \/ sys_kill(p)
              \/ sys_yield(p) \/ sys_sleep(p) \/ sys_read(p)

Resume(p) == wait_resume(p) \/ sleep_resume(p) \/ read_resume(p) \/ trap_tail(p)

Next == \/ schedule \/ init_main \/ cpu_idle \/ tick_kernel
        \/ \E p \in Proc : Syscall(p) \/ Resume(p) \/ tick_user(p)

Spec == Init /\ [][Next]_vars

\* The processor never stops; a timer interrupt that comes during a system call
\* stays pending and is taken in user mode, so it is not missed for ever; the
\* scheduling class picks every queued process again and again.  Nobody has to type.
Fairness == /\ WF_vars(cpu_idle) /\ WF_vars(tick_kernel) /\ WF_vars(init_main)
            /\ WF_vars(schedule)
            /\ \A p \in Proc : /\ WF_vars(Resume(p))
                               /\ SF_vars(tick_user(p))
                               /\ SF_vars(schedule /\ current' = p)

FairSpec == Spec /\ Fairness

-----------------------------------------------------------------------------
(* Properties. *)

States == {"UNUSED", "RUNNABLE", "SLEEPING", "ZOMBIE"}
Places == {"user", "trap_tail", "wait", "sleep", "read", "dead", "init_loop", "idle_loop"}

(* Type correctness. *)
TypeOK ==
    /\ state \in [Proc -> States]
    /\ wait_state \in [Proc -> {"NONE", "CHILD", "TIMER", "KBD"}]
    /\ exiting \in [Proc -> BOOLEAN]
    /\ need_resched \in [Proc -> BOOLEAN]
    /\ time_slice \in [Proc -> 0..MAX_TIME_SLICE]
    /\ parent \in [Proc -> Proc]
    /\ nr_process \in Int
    /\ rq \in [Proc -> Nat]
    /\ current \in Proc /\ scheduling \in BOOLEAN
    /\ pc \in [Proc -> Places]
    /\ wait_for \in [Proc -> SUBSET Proc]
    /\ kbd_queue \in SUBSET Proc
    /\ wakeup_flags \in [Proc -> {"INTERRUPTED", "KBD"}]
    /\ chars \in Nat
    /\ halted \in {"NO", "QUIT", "PANIC"}
    /\ timer_list \in Seq(Proc)
    /\ expires \in [Proc -> Nat]

\* The run queue holds exactly the RUNNABLE processes that wait for the
\* processor, each once: none is lost, none is queued twice (which would
\* corrupt the heap), and nothing that sleeps or is dead can be picked.
RunQueueExact ==
    \A p \in Proc : rq[p] = IF state[p] = "RUNNABLE" /\ p \notin {current, idleproc}
                            THEN 1 ELSE 0

\* A process has a wait state only while it sleeps: do_kill and do_exit wake by
\* wait state alone, and wakeup_proc asserts that it never meets a zombie.
WaitStateMeansAsleep ==
    \A p \in Proc : state[p] = "SLEEPING" <=> wait_state[p] # "NONE"

\* Whoever sleeps will be found by the event it sleeps for, and that event has
\* not happened already: a parent has a living child to wait for and no dead
\* one, a timer is linked, a reader is queued and there is nothing to read.
NoLostWakeup ==
    \A p \in Proc :
       /\ wait_state[p] = "CHILD" =>
             LET kids == Children(p) \cap wait_for[p] IN
             kids # {} /\ \A c \in kids : state[c] # "ZOMBIE"
       /\ wait_state[p] = "TIMER" => Linked(p)
       /\ wait_state[p] = "KBD" => p \in kbd_queue /\ chars = 0

\* A timer or wait-queue entry is a variable on the stack of the call that
\* queued it: it is linked only while that call is in progress, even when
\* do_kill cut the wait short.
NoDanglingEntry ==
    \A p \in Proc : /\ Linked(p) => pc[p] = "sleep"
                    /\ p \in kbd_queue => pc[p] = "read"

\* What do_wait frees is not referred to any more: not running, not queued
\* anywhere, and nobody's parent.
FreedIsUnreferenced ==
    \A p \in Proc : state[p] = "UNUSED" =>
       /\ p # current /\ rq[p] = 0 /\ ~Linked(p) /\ p \notin kbd_queue
       /\ \A c \in Proc : state[c] # "UNUSED" => parent[c] # p

\* Every process has a living parent, so every zombie can be reaped.
ParentsAlive ==
    \A p \in User : state[p] # "UNUSED" =>
       parent[p] # p /\ state[parent[p]] \in {"RUNNABLE", "SLEEPING"}

\* nr_process counts the processes (do_fork's limit relies on it).
CountExact == nr_process = Cardinality({p \in Proc : state[p] # "UNUSED"})

\* When init_main leaves its loop every other process is gone: the assertions
\* at its end hold.
InitQuitsLast ==
    halted = "QUIT" => nr_process = 2 /\ Children(initproc) = {}

\* A zombie is freed by its parent only, nothing else is ever freed, and a
\* zombie never comes back to life.
ReapedByParentOnly ==
    [][\A p \in Proc :
         /\ state'[p] = "UNUSED" /\ state[p] # "UNUSED" =>
               state[p] = "ZOMBIE" /\ current = parent[p]
         /\ state[p] = "ZOMBIE" => state'[p] \in {"ZOMBIE", "UNUSED"}]_vars

\* A process that was killed exits sooner or later ("SYS_kill : kill process -->
\* do_kill --> proc->flags |= PF_EXITING --> wakeup_proc --> do_wait --> do_exit",
\* proc.c:58).
KilledProcessExits ==
    \A p \in User : exiting[p] ~> state[p] \in {"ZOMBIE", "UNUSED"}

=============================================================================
