--------------------------- MODULE ProcessProofs ---------------------------
(***************************************************************************)
(* The invariants of Process hold for any number of processes and any      *)
(* values of the limits.                                                   *)
(***************************************************************************)
EXTENDS Process, TimerListProofs, FiniteSetTheorems, WellFoundedInduction

-----------------------------------------------------------------------------
(* The inductive invariant. *)

(* Where each process can be. idleproc and initproc never run user code, a  *)
(* zombie stays in do_exit, and a wait state names the call that sleeps.    *)
PlaceOK ==
    /\ pc[idleproc] = "idle_loop"
    /\ pc[initproc] \in {"init_loop", "wait"}
    /\ \A p \in User : pc[p] \notin {"init_loop", "idle_loop"}
    /\ \A p \in Proc :
          /\ state[p] = "ZOMBIE" <=> pc[p] = "dead"
          /\ state[p] = "UNUSED" => pc[p] = "user"
          /\ wait_state[p] = "CHILD" => pc[p] = "wait"
          /\ wait_state[p] = "TIMER" => pc[p] = "sleep"
          /\ wait_state[p] = "KBD" => pc[p] = "read"

(* The processor is held by a process that exists, and by a runnable one     *)
(* until it calls schedule(); idleproc can always run.                       *)
RunnerOK ==
    /\ state[current] # "UNUSED"
    /\ ~scheduling => state[current] = "RUNNABLE"
    /\ state[idleproc] = "RUNNABLE"

(* initproc lives as long as the system, adopts on behalf of everybody, and  *)
(* waits for any child.                                                      *)
InitOK ==
    /\ state[initproc] \in {"RUNNABLE", "SLEEPING"}
    /\ parent[initproc] = idleproc /\ parent[idleproc] = idleproc
    /\ halted = "NO" /\ pc[initproc] = "wait" => wait_for[initproc] = Proc

IInv == /\ TypeOK /\ ListOK
        /\ RunQueueExact /\ WaitStateMeansAsleep
        /\ PlaceOK /\ RunnerOK /\ InitOK
        /\ NoDanglingEntry /\ ParentsAlive /\ NoLostWakeup

(* What the run-queue operators return. *)
LEMMA RefillType ==
    ASSUME TypeOK, NEW S
    PROVE  Refilled(S) \in [Proc -> 0..MAX_TIME_SLICE]
  BY ProcessAssumption DEF Refilled, TypeOK

(* A process gains at most a node. *)
LEMMA EnqueuedType ==
    ASSUME TypeOK, NEW S
    PROVE  Enqueued(S) \in [Proc -> Nat]
  BY DEF Enqueued, TypeOK

(* The state in which init_main waits for the first user process. *)
LEMMA InitIInv == Init => IInv
<1> SUFFICES ASSUME Init PROVE IInv
  OBVIOUS
<1> USE ProcessAssumption
<1>1. PICK u \in User :
          /\ state = [p \in Proc |-> IF p \in {u, idleproc, initproc} THEN "RUNNABLE" ELSE "UNUSED"]
          /\ parent = [p \in Proc |-> IF p = u THEN initproc ELSE idleproc]
          /\ rq = [p \in Proc |-> IF p = u THEN 1 ELSE 0]
          /\ time_slice = [p \in Proc |-> IF p \in {u, initproc} THEN MAX_TIME_SLICE ELSE 0]
  BY DEF Init
<1>2. timer_list = <<>> /\ DOMAIN timer_list = {} /\ timer_list \in Seq(Proc)
  <2>1. timer_list = <<>>
    BY DEF Init, TimerInit
  <2>2. timer_list \in Seq(Proc) /\ Len(timer_list) = 0
    BY <2>1, EmptySeq
  <2> QED
    BY <2>1, <2>2, LenProperties
<1>3. TypeOK
  <2>1. /\ state \in [Proc -> States] /\ parent \in [Proc -> Proc]
        /\ rq \in [Proc -> Nat] /\ time_slice \in [Proc -> 0..MAX_TIME_SLICE]
    BY <1>1 DEF States
  <2>2. pc \in [Proc -> Places] /\ wait_for \in [Proc -> SUBSET Proc]
    BY DEF Init, Places
  <2>3. timer_list \in Seq(Proc) /\ expires \in [Proc -> Nat]
    BY <1>2 DEF Init, TimerInit
  <2>4. /\ wait_state \in [Proc -> {"NONE", "CHILD", "TIMER", "KBD"}]
        /\ exiting \in [Proc -> BOOLEAN] /\ need_resched \in [Proc -> BOOLEAN]
        /\ wakeup_flags \in [Proc -> {"INTERRUPTED", "KBD"}]
    BY DEF Init
  <2>5. /\ nr_process \in Int /\ current \in Proc /\ kbd_queue \in SUBSET Proc
        /\ chars \in Nat /\ halted \in {"NO", "QUIT", "PANIC"}
    <3>1. /\ nr_process = 3 /\ current = initproc /\ kbd_queue = {}
          /\ chars = 0 /\ halted = "NO"
      BY DEF Init
    <3> QED
      BY <3>1
  <2>6. scheduling \in BOOLEAN
    BY DEF Init
  <2> QED
    BY <2>1, <2>2, <2>3, <2>4, <2>5, <2>6 DEF TypeOK
<1>4. ListOK
  BY <1>2 DEF Init, TimerInit, ListOK, NoRepeats
<1>5. RunQueueExact /\ WaitStateMeansAsleep
  BY <1>1 DEF Init, RunQueueExact, WaitStateMeansAsleep
<1>6. PlaceOK
  BY <1>1 DEF Init, PlaceOK
<1>7. RunnerOK /\ InitOK
  BY <1>1 DEF Init, RunnerOK, InitOK
<1>8. NoDanglingEntry
  BY <1>2 DEF Init, NoDanglingEntry, Linked
<1>9. ParentsAlive
  BY <1>1 DEF Init, ParentsAlive
<1>10. NoLostWakeup
  BY DEF Init, NoLostWakeup
<1> QED
  BY <1>3, <1>4, <1>5, <1>6, <1>7, <1>8, <1>9, <1>10 DEF IInv

(* The running process goes on to the tail of trap() or to user mode, with no *)
(* entry linked, and without a change to the state of any process.           *)
LEMMA ReturnIInv ==
    ASSUME IInv, NEW p \in User, NEW x \in {"user", "trap_tail"},
           current = p, ~scheduling,
           UNCHANGED <<state, wait_state, parent, rq, current, halted>>,
           pc' = [pc EXCEPT ![p] = x],
           scheduling' \in BOOLEAN, nr_process' \in Int,
           exiting' \in [Proc -> BOOLEAN], need_resched' \in [Proc -> BOOLEAN],
           time_slice' \in [Proc -> 0..MAX_TIME_SLICE],
           wait_for' \in [Proc -> SUBSET Proc], kbd_queue' \in SUBSET Proc,
           wakeup_flags' \in [Proc -> {"INTERRUPTED", "KBD"}],
           chars' \in Nat, chars = 0 => chars' = 0,
           ListOK', ~Linked(p)', p \notin kbd_queue',
           \A q \in Proc \ {p} : /\ Linked(q)' <=> Linked(q)
                                 /\ q \in kbd_queue' <=> q \in kbd_queue
                                 /\ wait_for'[q] = wait_for[q]
    PROVE  IInv'
<1> USE ProcessAssumption DEF IInv
<1>1. state[p] = "RUNNABLE" /\ wait_state[p] = "NONE"
  BY DEF RunnerOK, WaitStateMeansAsleep, TypeOK
<1>2. \A q \in Proc : pc'[q] = IF q = p THEN x ELSE pc[q]
  BY DEF TypeOK
<1>3. TypeOK'
  <2>1. pc' \in [Proc -> Places] /\ timer_list' \in Seq(Proc) /\ expires' \in [Proc -> Nat]
    BY DEF TypeOK, Places, ListOK
  <2> QED
    BY <2>1 DEF TypeOK
<1>4. RunQueueExact' /\ WaitStateMeansAsleep'
  BY DEF RunQueueExact, WaitStateMeansAsleep
<1>5. PlaceOK'
  BY <1>1, <1>2 DEF PlaceOK
<1>6. RunnerOK' /\ InitOK'
  BY <1>1, <1>2 DEF RunnerOK, InitOK
<1>7. NoDanglingEntry'
  BY <1>1, <1>2 DEF NoDanglingEntry
<1>8. ParentsAlive'
  BY DEF ParentsAlive
<1>9. NoLostWakeup'
  <2>1. \A q \in Proc : Children(q)' = Children(q)
    BY DEF Children
  <2> QED
    BY <1>1, <2>1 DEF NoLostWakeup
<1> QED
  BY <1>3, <1>4, <1>5, <1>6, <1>7, <1>8, <1>9

(* The same for a step that leaves the wait queue, the timers and the input   *)
(* alone.                                                                     *)
LEMMA FrameIInv ==
    ASSUME IInv, NEW p \in User, NEW x \in {"user", "trap_tail"},
           pc[p] \in {"user", "trap_tail"}, current = p, ~scheduling,
           UNCHANGED <<state, wait_state, parent, rq, kbd_queue,
                       wakeup_flags, chars, timer_list, expires, current, wait_for, halted>>,
           pc' = [pc EXCEPT ![p] = x],
           scheduling' \in BOOLEAN, nr_process' \in Int,
           exiting' \in [Proc -> BOOLEAN], need_resched' \in [Proc -> BOOLEAN],
           time_slice' \in [Proc -> 0..MAX_TIME_SLICE]
    PROVE  IInv'
<1>1. ListOK'
  BY DEF IInv, ListOK, NoRepeats
<1>2. \A q : Linked(q)' <=> Linked(q)
  BY DEF Linked
<1>3. ~Linked(p)' /\ p \notin kbd_queue'
  BY <1>2, ProcessAssumption DEF IInv, NoDanglingEntry
<1> QED
  BY <1>1, <1>2, <1>3, ReturnIInv DEF IInv, TypeOK

(* yield only asks for a reschedule. *)
LEMMA YieldIInv ==
    ASSUME IInv, NEW p \in Proc, sys_yield(p)
    PROVE  IInv'
<1> USE ProcessAssumption DEF IInv
<1>1. p \in User /\ pc[p] = "user" /\ current = p /\ ~scheduling /\ halted = "NO"
  BY DEF sys_yield, At, PlaceOK
<1>2. /\ UNCHANGED <<state, wait_state, exiting, parent, nr_process, time_slice, rq, kbd_queue,
            wakeup_flags, chars, timer_list, expires, current, wait_for, halted, scheduling>>
      /\ pc' = [pc EXCEPT ![p] = "trap_tail"]
      /\ need_resched' = [need_resched EXCEPT ![p] = TRUE]
  BY DEF sys_yield, Return, GoTo, tableVars, stdinVars, timerVars
<1> QED
  BY <1>1, <1>2, FrameIInv DEF TypeOK

-----------------------------------------------------------------------------
(* Each action preserves the invariant. *)

(* fork: the child is new, runnable and on the queue once. *)
LEMMA ForkIInv ==
    ASSUME IInv, NEW p \in Proc, sys_fork(p)
    PROVE  IInv'
<1> USE ProcessAssumption DEF IInv
<1>1. p \in User /\ pc[p] = "user" /\ current = p /\ ~scheduling /\ halted = "NO"
      /\ state[p] = "RUNNABLE" /\ wait_state[p] = "NONE"
  BY DEF sys_fork, At, PlaceOK, RunnerOK, WaitStateMeansAsleep, TypeOK
<1>2. /\ UNCHANGED <<kbd_queue, wakeup_flags, chars, timer_list, expires, current,
                     wait_for, halted, scheduling>>
      /\ pc' = [pc EXCEPT ![p] = "trap_tail"]
  BY DEF sys_fork, Return, GoTo, stdinVars, timerVars
<1>3. CASE UNCHANGED <<tableVars, schedVars>>
  <2>1. UNCHANGED <<state, wait_state, exiting, parent, nr_process, need_resched, time_slice, rq>>
    BY <1>3 DEF tableVars, schedVars
  <2> QED
    BY <1>1, <1>2, <2>1, FrameIInv DEF TypeOK
<1>4. ASSUME NEW c \in User,
             state[c] = "UNUSED",
             state' = [state EXCEPT ![c] = "RUNNABLE"],
             wait_state' = [wait_state EXCEPT ![p] = "NONE"],
             parent' = [parent EXCEPT ![c] = p],
             nr_process' = nr_process + 1,
             rq' = Enqueued({c}),
             time_slice' = Refilled({c}),
             UNCHANGED <<exiting, need_resched>>
      PROVE  IInv'
  <2>1. c # p /\ wait_state' = wait_state /\ wait_state[c] = "NONE"
    BY <1>1, <1>4 DEF TypeOK, WaitStateMeansAsleep
  <2>2. \A q \in Proc : rq'[q] = IF q = c THEN rq[q] + 1 ELSE rq[q]
    BY <1>4 DEF Enqueued
  <2>3. TypeOK'
    <3>1. rq' \in [Proc -> Nat] /\ time_slice' \in [Proc -> 0..MAX_TIME_SLICE]
      BY <1>4, EnqueuedType, RefillType
    <3>2. /\ state' \in [Proc -> States] /\ parent' \in [Proc -> Proc]
          /\ nr_process' \in Int /\ pc' \in [Proc -> Places]
      BY <1>2, <1>4 DEF TypeOK, States, Places
    <3> QED
      BY <1>2, <1>4, <2>1, <3>1, <3>2 DEF TypeOK
  <2>4. ListOK'
    BY <1>2 DEF ListOK, NoRepeats
  <2>5. RunQueueExact'
    <3>1. \A q \in Proc : state'[q] = IF q = c THEN "RUNNABLE" ELSE state[q]
      BY <1>4 DEF TypeOK
    <3>2. rq[c] = 0
      BY <1>4 DEF RunQueueExact
    <3> QED
      BY <1>1, <1>2, <2>1, <2>2, <3>1, <3>2 DEF RunQueueExact
  <2>6. WaitStateMeansAsleep'
    <3>1. \A q \in Proc : state'[q] = IF q = c THEN "RUNNABLE" ELSE state[q]
      BY <1>4 DEF TypeOK
    <3> QED
      BY <2>1, <3>1 DEF WaitStateMeansAsleep
  <2>7. PlaceOK'
    BY <1>1, <1>2, <1>4, <2>1 DEF PlaceOK, TypeOK
  <2>8. RunnerOK' /\ InitOK'
    BY <1>1, <1>2, <1>4, <2>1 DEF RunnerOK, InitOK, TypeOK
  <2>9. NoDanglingEntry'
    BY <1>1, <1>2 DEF NoDanglingEntry, Linked, TypeOK
  <2>10. ParentsAlive'
    BY <1>1, <1>4, <2>1 DEF ParentsAlive, TypeOK
  <2>11. NoLostWakeup'
    <3>1. ASSUME NEW q \in Proc, wait_state[q] = "CHILD"
          PROVE  Children(q)' = Children(q) /\ \A k \in Children(q) : state'[k] = state[k]
      <4>1. \A k \in Proc : state'[k] = IF k = c THEN "RUNNABLE" ELSE state[k]
        BY <1>4 DEF TypeOK
      <4>2. \A k \in Proc : parent'[k] = IF k = c THEN p ELSE parent[k]
        BY <1>4 DEF TypeOK
      <4>3. state[c] = "UNUSED" /\ q # p
        BY <1>1, <1>4, <3>1
      <4> HIDE DEF IInv
      <4> QED
        BY <4>1, <4>2, <4>3 DEF Children
    <3>2. /\ \A q \in Proc : Linked(q)' <=> Linked(q)
          /\ UNCHANGED <<kbd_queue, chars, wait_for>>
      BY <1>2 DEF Linked
    <3>3. NoLostWakeup
      OBVIOUS
    <3> HIDE DEF IInv
    <3> QED
      BY <2>1, <3>1, <3>2, <3>3 DEF NoLostWakeup
  <2> QED
    BY <2>3, <2>4, <2>5, <2>6, <2>7, <2>8, <2>9, <2>10, <2>11
<1> QED
  BY <1>3, <1>4 DEF sys_fork

(* The effect of wakeup_proc, process by process. *)
LEMMA WakeupEffect ==
    ASSUME TypeOK, NEW S \in SUBSET Proc, wakeup_proc(S), NEW q \in Proc
    PROVE  /\ state'[q] = IF q \in S THEN "RUNNABLE" ELSE state[q]
           /\ wait_state'[q] = IF q \in S /\ state[q] # "RUNNABLE" THEN "NONE" ELSE wait_state[q]
           /\ rq'[q] = IF q \in S /\ state[q] # "RUNNABLE" /\ q \notin {current, idleproc}
                       THEN rq[q] + 1 ELSE rq[q]
  BY DEF wakeup_proc, Enqueued, TypeOK

(* wakeup_proc keeps the types of what it changes. *)
LEMMA WakeupType ==
    ASSUME TypeOK, NEW S \in SUBSET Proc, wakeup_proc(S)
    PROVE  /\ state' \in [Proc -> States]
           /\ wait_state' \in [Proc -> {"NONE", "CHILD", "TIMER", "KBD"}]
           /\ rq' \in [Proc -> Nat]
<1>1. state' \in [Proc -> States]
  BY DEF wakeup_proc, TypeOK, States
<1>2. wait_state' \in [Proc -> {"NONE", "CHILD", "TIMER", "KBD"}]
  BY DEF wakeup_proc, TypeOK
<1>3. rq' \in [Proc -> Nat]
  BY DEF wakeup_proc, Enqueued, TypeOK
<1> QED
  BY <1>1, <1>2, <1>3

(* kill: whoever is woken was asleep. *)
LEMMA KillIInv ==
    ASSUME IInv, NEW p \in Proc, sys_kill(p)
    PROVE  IInv'
<1> USE ProcessAssumption DEF IInv
<1>1. p \in User /\ pc[p] = "user" /\ current = p /\ ~scheduling /\ halted = "NO"
      /\ state[p] = "RUNNABLE" /\ wait_state[p] = "NONE"
  BY DEF sys_kill, At, PlaceOK, RunnerOK, WaitStateMeansAsleep, TypeOK
<1>2. /\ UNCHANGED <<kbd_queue, wakeup_flags, chars, timer_list, expires, current,
                     wait_for, halted, scheduling, parent, nr_process, need_resched>>
      /\ pc' = [pc EXCEPT ![p] = "trap_tail"]
  BY DEF sys_kill, Return, GoTo, stdinVars, timerVars
<1>3. CASE UNCHANGED <<state, wait_state, exiting, rq, time_slice>>
  BY <1>1, <1>2, <1>3, FrameIInv DEF TypeOK
<1>4. ASSUME NEW q \in KillTargets,
             exiting' = [exiting EXCEPT ![q] = TRUE],
             NEW up, up = {r \in {q} : wait_state[r] # "NONE"},
             wakeup_proc(up), time_slice' = Refilled(up)
      PROVE  IInv'
  <2>1. q \in Proc /\ up \in SUBSET Proc /\ \A r \in up : state[r] = "SLEEPING" /\ r # p
    BY <1>1, <1>4 DEF WaitStateMeansAsleep
  <2>2. \A r \in Proc :
           /\ state'[r] = IF r \in up THEN "RUNNABLE" ELSE state[r]
           /\ wait_state'[r] = IF r \in up THEN "NONE" ELSE wait_state[r]
           /\ rq'[r] = IF r \in up /\ r # idleproc THEN rq[r] + 1 ELSE rq[r]
    BY <1>1, <1>4, <2>1, WakeupEffect
  <2>3. TypeOK'
    <3>1. /\ state' \in [Proc -> States]
          /\ wait_state' \in [Proc -> {"NONE", "CHILD", "TIMER", "KBD"}]
          /\ rq' \in [Proc -> Nat]
      BY <1>4, <2>1, WakeupType
    <3>2. time_slice' \in [Proc -> 0..MAX_TIME_SLICE] /\ exiting' \in [Proc -> BOOLEAN]
      BY <1>4, RefillType DEF TypeOK
    <3> QED
      BY <1>2, <3>1, <3>2 DEF TypeOK, Places
  <2>4. ListOK'
    BY <1>2 DEF ListOK, NoRepeats
  <2>5. RunQueueExact'
    BY <1>1, <1>2, <2>1, <2>2 DEF RunQueueExact, RunnerOK
  <2>6. WaitStateMeansAsleep'
    BY <2>1, <2>2 DEF WaitStateMeansAsleep
  <2>7. PlaceOK'
    <3>1. \A r \in Proc : pc'[r] = IF r = p THEN "trap_tail" ELSE pc[r]
      BY <1>2 DEF TypeOK
    <3> QED
      BY <1>1, <2>1, <2>2, <3>1 DEF PlaceOK
  <2>8. RunnerOK' /\ InitOK'
    BY <1>1, <1>2, <2>1, <2>2 DEF RunnerOK, InitOK, TypeOK
  <2>9. NoDanglingEntry'
    BY <1>1, <1>2 DEF NoDanglingEntry, Linked, TypeOK
  <2>10. ParentsAlive'
    BY <1>1, <1>2, <2>1, <2>2 DEF ParentsAlive, TypeOK
  <2>11. NoLostWakeup'
    <3>1. \A r \in Proc : Children(r)' = Children(r)
      BY <1>2, <2>1, <2>2 DEF Children
    <3>2. \A r \in Proc : state'[r] = "ZOMBIE" <=> state[r] = "ZOMBIE"
      BY <2>1, <2>2
    <3> QED
      BY <1>2, <2>1, <2>2, <3>1, <3>2 DEF NoLostWakeup, Linked, Children
  <2> QED
    BY <2>3, <2>4, <2>5, <2>6, <2>7, <2>8, <2>9, <2>10, <2>11
<1> QED
  BY <1>3, <1>4 DEF sys_kill

-----------------------------------------------------------------------------
(* The system stops: init_main finishes, or initproc exits. *)
LEMMA HaltIInv ==
    ASSUME IInv, current = initproc, ~scheduling, halted' \in {"QUIT", "PANIC"},
           UNCHANGED <<tableVars, schedVars, stdinVars, timerVars, current, scheduling, pc>>,
           wait_for' = [wait_for EXCEPT ![initproc] = {}]
    PROVE  IInv'
<1> USE ProcessAssumption DEF IInv
<1>1. UNCHANGED <<state, wait_state, exiting, parent, nr_process, need_resched, time_slice, rq,
                  kbd_queue, wakeup_flags, chars, timer_list, expires>>
  BY DEF tableVars, schedVars, stdinVars, timerVars
<1>2. wait_state[initproc] = "NONE"
  BY DEF RunnerOK, WaitStateMeansAsleep, TypeOK
<1>3. TypeOK'
  <2>1. wait_for' \in [Proc -> SUBSET Proc]
    BY DEF TypeOK
  <2> QED
    BY <1>1, <2>1 DEF TypeOK
<1>4. ListOK'
  BY <1>1 DEF ListOK, NoRepeats
<1>5. RunQueueExact' /\ WaitStateMeansAsleep'
  BY <1>1 DEF RunQueueExact, WaitStateMeansAsleep
<1>6. PlaceOK' /\ RunnerOK' /\ InitOK'
  BY <1>1 DEF PlaceOK, RunnerOK, InitOK
<1>7. NoDanglingEntry' /\ ParentsAlive'
  BY <1>1 DEF NoDanglingEntry, ParentsAlive, Linked
<1>8. NoLostWakeup'
  <2>1. \A q \in Proc : Children(q)' = Children(q) /\ (Linked(q)' <=> Linked(q))
    BY <1>1 DEF Children, Linked
  <2>2. \A q \in Proc \ {initproc} : wait_for'[q] = wait_for[q]
    BY DEF TypeOK
  <2> QED
    BY <1>1, <1>2, <2>1, <2>2 DEF NoLostWakeup
<1> QED
  BY <1>3, <1>4, <1>5, <1>6, <1>7, <1>8

(* exit: the parent that waits, or initproc if it adopts a dead child, is    *)
(* woken, so nobody is left asleep beside a zombie of its own.               *)
LEMMA ExitIInv ==
    ASSUME IInv, NEW p \in User, current = p, ~scheduling, halted = "NO",
           pc[p] \in {"user", "wait", "trap_tail"}, do_exit(p),
           UNCHANGED <<stdinVars, timerVars, current>>,
           wait_for' = wait_for \/ wait_for' = [wait_for EXCEPT ![p] = {}]
    PROVE  IInv'
<1> DEFINE up == WokenByExit(p)
<1> USE ProcessAssumption DEF IInv
<1>1. p \in Proc /\ p # initproc /\ p # idleproc
      /\ state[p] = "RUNNABLE" /\ wait_state[p] = "NONE"
  BY DEF RunnerOK, WaitStateMeansAsleep, TypeOK
<1>2. /\ state' = [q \in Proc |-> IF q = p THEN "ZOMBIE"
                                   ELSE IF q \in up THEN "RUNNABLE" ELSE state[q]]
      /\ wait_state' = [q \in Proc |-> IF q \in up THEN "NONE" ELSE wait_state[q]]
      /\ rq' = Enqueued(up) /\ time_slice' = Refilled(up)
      /\ parent' = [q \in Proc |-> ParentAfterExit(p, q)]
      /\ pc' = [pc EXCEPT ![p] = "dead"] /\ scheduling' = TRUE
      /\ UNCHANGED <<exiting, nr_process, need_resched, halted>>
  BY <1>1 DEF do_exit, BlockAt, GoTo
<1>3. UNCHANGED <<kbd_queue, wakeup_flags, chars, timer_list, expires, current>>
  BY DEF stdinVars, timerVars
<1>4. \A q \in up : /\ q \in Proc /\ state[q] = "SLEEPING" /\ wait_state[q] = "CHILD"
                    /\ q # p /\ q # idleproc
  BY <1>1 DEF WokenByExit, WaitStateMeansAsleep, RunnerOK, TypeOK
<1>5. \A q \in Proc :
         /\ state'[q] = IF q = p THEN "ZOMBIE" ELSE IF q \in up THEN "RUNNABLE" ELSE state[q]
         /\ wait_state'[q] = IF q \in up THEN "NONE" ELSE wait_state[q]
         /\ rq'[q] = IF q \in up THEN rq[q] + 1 ELSE rq[q]
         /\ pc'[q] = IF q = p THEN "dead" ELSE pc[q]
         /\ q # p => wait_for'[q] = wait_for[q]
  <2>1. \A q \in Proc : rq'[q] = IF q \in up THEN rq[q] + 1 ELSE rq[q]
    BY <1>2, <1>4 DEF Enqueued
  <2>2. \A q \in Proc : pc'[q] = IF q = p THEN "dead" ELSE pc[q]
    BY <1>2 DEF TypeOK
  <2>3. \A q \in Proc : q # p => wait_for'[q] = wait_for[q]
    BY DEF TypeOK
  <2>4. \A q \in Proc :
           /\ state'[q] = IF q = p THEN "ZOMBIE" ELSE IF q \in up THEN "RUNNABLE" ELSE state[q]
           /\ wait_state'[q] = IF q \in up THEN "NONE" ELSE wait_state[q]
    BY <1>2
  <2> QED
    BY <2>1, <2>2, <2>3, <2>4
<1>6. \A q \in Proc :
         parent'[q] = IF state[q] # "UNUSED" /\ parent[q] = p THEN initproc ELSE parent[q]
  BY <1>2 DEF ParentAfterExit, Children
<1> HIDE DEF up
<1>7. TypeOK'
  <2>1. rq' \in [Proc -> Nat] /\ time_slice' \in [Proc -> 0..MAX_TIME_SLICE]
    BY <1>2, EnqueuedType, RefillType
  <2>2. /\ state' \in [Proc -> States]
        /\ wait_state' \in [Proc -> {"NONE", "CHILD", "TIMER", "KBD"}]
    BY <1>2 DEF TypeOK, States
  <2>3. parent' \in [Proc -> Proc]
    BY <1>2 DEF ParentAfterExit, TypeOK
  <2>4. pc' \in [Proc -> Places] /\ wait_for' \in [Proc -> SUBSET Proc]
    BY <1>2 DEF TypeOK, Places
  <2> QED
    BY <1>2, <1>3, <2>1, <2>2, <2>3, <2>4 DEF TypeOK
<1>8. ListOK'
  BY <1>3 DEF ListOK, NoRepeats
<1>9. RunQueueExact'
  BY <1>1, <1>3, <1>4, <1>5 DEF RunQueueExact, RunnerOK
<1>10. WaitStateMeansAsleep'
  BY <1>1, <1>4, <1>5 DEF WaitStateMeansAsleep
<1>11. PlaceOK'
  BY <1>1, <1>4, <1>5 DEF PlaceOK
<1>12. RunnerOK'
  BY <1>1, <1>2, <1>3, <1>4, <1>5 DEF RunnerOK
<1>13. InitOK'
  <2>1. state'[initproc] \in {"RUNNABLE", "SLEEPING"}
    BY <1>1, <1>5, ProcessAssumption DEF InitOK
  <2>2. parent'[initproc] = idleproc /\ parent'[idleproc] = idleproc
    BY <1>1, <1>6, ProcessAssumption DEF InitOK
  <2>3. pc'[initproc] = pc[initproc] /\ wait_for'[initproc] = wait_for[initproc]
    BY <1>1, <1>5, ProcessAssumption
  <2>4. halted' = halted
    BY <1>2
  <2> QED
    BY <2>1, <2>2, <2>3, <2>4 DEF InitOK
<1>14. NoDanglingEntry'
  <2>1. \A q \in Proc : Linked(q)' <=> Linked(q)
    BY <1>3 DEF Linked
  <2> QED
    BY <1>3, <1>5, <2>1 DEF NoDanglingEntry
<1>15. ParentsAlive'
  <2> SUFFICES ASSUME NEW q \in User, state'[q] # "UNUSED"
               PROVE  parent'[q] # q /\ state'[parent'[q]] \in {"RUNNABLE", "SLEEPING"}
    BY DEF ParentsAlive
  <2>1. q \in Proc /\ state[q] # "UNUSED" /\ q # initproc
    BY <1>1, <1>4, <1>5
  <2>2. parent[q] \in Proc /\ parent[q] # q /\ state[parent[q]] \in {"RUNNABLE", "SLEEPING"}
    BY <2>1 DEF ParentsAlive, TypeOK
  <2>3. CASE parent[q] = p
    BY <1>1, <1>5, <1>6, <2>1, <2>3 DEF InitOK
  <2>4. CASE parent[q] # p
    BY <1>5, <1>6, <2>1, <2>2, <2>4
  <2> QED
    BY <2>3, <2>4
<1>16. NoLostWakeup'
  <2> SUFFICES ASSUME NEW r \in Proc
               PROVE  /\ wait_state'[r] = "CHILD" =>
                            /\ Children(r)' \cap wait_for'[r] # {}
                            /\ \A c \in Children(r)' \cap wait_for'[r] : state'[c] # "ZOMBIE"
                      /\ wait_state'[r] = "TIMER" => Linked(r)'
                      /\ wait_state'[r] = "KBD" => r \in kbd_queue' /\ chars' = 0
    BY DEF NoLostWakeup
  <2>1. /\ wait_state'[r] = "TIMER" => Linked(r)'
        /\ wait_state'[r] = "KBD" => r \in kbd_queue' /\ chars' = 0
    BY <1>3, <1>5 DEF NoLostWakeup, Linked
  <2>2. ASSUME wait_state'[r] = "CHILD"
        PROVE  /\ Children(r)' \cap wait_for'[r] # {}
               /\ \A c \in Children(r)' \cap wait_for'[r] : state'[c] # "ZOMBIE"
    <3>1. /\ r \notin up /\ wait_state[r] = "CHILD" /\ r # p
          /\ wait_for'[r] = wait_for[r]
      BY <1>1, <1>5, <2>2
    <3>2. /\ Children(r) \cap wait_for[r] # {}
          /\ \A c \in Children(r) \cap wait_for[r] : state[c] # "ZOMBIE"
      BY <3>1 DEF NoLostWakeup
    <3>3. parent[p] # r
      BY <3>1 DEF WokenByExit, up
    <3>4. \A c \in Proc : state'[c] = "UNUSED" <=> state[c] = "UNUSED"
      BY <1>1, <1>4, <1>5
    <3>5. \A c \in Children(r) : c \in Children(r)'
      BY <1>6, <3>1, <3>4 DEF Children
    <3>6. \A c \in Children(r)' : c \in Children(r) \/ (r = initproc /\ c \in Children(p))
      BY <1>6, <3>4 DEF Children
    <3>7. r = initproc => \A c \in Children(p) : state[c] # "ZOMBIE"
      BY <3>1 DEF WokenByExit, up
    <3>8. \A c \in Children(r)' : c # p /\ c \in Proc
      BY <1>1, <1>6, <3>3, <3>6 DEF Children, ParentsAlive
    <3>9. \A c \in Children(r)' \cap wait_for[r] : state'[c] # "ZOMBIE"
      BY <1>5, <3>2, <3>6, <3>7, <3>8
    <3> QED
      BY <3>1, <3>2, <3>5, <3>9
  <2> QED
    BY <2>1, <2>2
<1> QED
  BY <1>7, <1>8, <1>9, <1>10, <1>11, <1>12, <1>13, <1>14, <1>15, <1>16

-----------------------------------------------------------------------------
(* wait, sleep and read.                                                     *)

(* do_wait frees a dead child: nothing else refers to it. *)
LEMMA ReapIInv ==
    ASSUME IInv, NEW p \in Proc, current = p, ~scheduling, halted = "NO",
           pc[p] \in {"user", "wait", "init_loop"},
           NEW c \in Children(p), state[c] = "ZOMBIE", Reap(p, c),
           wait_for' = [wait_for EXCEPT ![p] = {}],
           UNCHANGED <<stdinVars, timerVars, current>>
    PROVE  IInv'
<1> USE ProcessAssumption DEF IInv
<1>1. /\ state[p] = "RUNNABLE" /\ wait_state[p] = "NONE" /\ p # idleproc
      /\ c \in Proc /\ c # p /\ c # initproc /\ c # idleproc /\ c \in User
      /\ parent[c] = p /\ wait_state[c] = "NONE" /\ pc[c] = "dead"
  BY DEF RunnerOK, WaitStateMeansAsleep, TypeOK, PlaceOK, InitOK, Children
<1>2. /\ state' = [state EXCEPT ![c] = "UNUSED"]
      /\ parent' = [parent EXCEPT ![c] = idleproc]
      /\ exiting' = [exiting EXCEPT ![c] = FALSE]
      /\ time_slice' = [time_slice EXCEPT ![c] = 0]
      /\ need_resched' = [need_resched EXCEPT ![c] = FALSE]
      /\ nr_process' = nr_process - 1
      /\ pc' = [pc EXCEPT ![c] = "user",
                          ![p] = IF p = initproc THEN "init_loop" ELSE "trap_tail"]
      /\ scheduling' = (p = initproc)
      /\ UNCHANGED <<wait_state, rq, halted>>
  BY DEF Reap, OneProcessLess
<1>3. UNCHANGED <<kbd_queue, wakeup_flags, chars, timer_list, expires, current>>
  BY DEF stdinVars, timerVars
<1>4. \A q \in Proc :
         /\ state'[q] = IF q = c THEN "UNUSED" ELSE state[q]
         /\ parent'[q] = IF q = c THEN idleproc ELSE parent[q]
         /\ pc'[q] = IF q = c THEN "user"
                     ELSE IF q = p THEN (IF p = initproc THEN "init_loop" ELSE "trap_tail")
                     ELSE pc[q]
         /\ q # p => wait_for'[q] = wait_for[q]
  BY <1>1, <1>2 DEF TypeOK
<1>5. TypeOK'
  <2>1. /\ state' \in [Proc -> States] /\ parent' \in [Proc -> Proc]
        /\ exiting' \in [Proc -> BOOLEAN] /\ need_resched' \in [Proc -> BOOLEAN]
    BY <1>2 DEF TypeOK, States
  <2>2. time_slice' \in [Proc -> 0..MAX_TIME_SLICE] /\ nr_process' \in Int
    <3>1. 0 \in 0..MAX_TIME_SLICE
      OBVIOUS
    <3>2. time_slice' \in [Proc -> 0..MAX_TIME_SLICE]
      BY <1>2, <3>1 DEF TypeOK
    <3> QED
      BY <1>2, <3>2 DEF TypeOK
  <2>3. pc' \in [Proc -> Places] /\ wait_for' \in [Proc -> SUBSET Proc]
    BY <1>2 DEF TypeOK, Places
  <2>4. scheduling' \in BOOLEAN
    BY <1>2
  <2>5. /\ wait_state' \in [Proc -> {"NONE", "CHILD", "TIMER", "KBD"}]
        /\ rq' \in [Proc -> Nat] /\ halted' \in {"NO", "QUIT", "PANIC"}
    BY <1>2 DEF TypeOK
  <2>6. /\ current' \in Proc /\ kbd_queue' \in SUBSET Proc /\ chars' \in Nat
        /\ wakeup_flags' \in [Proc -> {"INTERRUPTED", "KBD"}]
        /\ timer_list' \in Seq(Proc) /\ expires' \in [Proc -> Nat]
    BY <1>3 DEF TypeOK
  <2> QED
    BY <2>1, <2>2, <2>3, <2>4, <2>5, <2>6 DEF TypeOK
<1>6. ListOK'
  BY <1>3 DEF ListOK, NoRepeats
<1>7. RunQueueExact'
  BY <1>1, <1>2, <1>3, <1>4 DEF RunQueueExact
<1>8. WaitStateMeansAsleep'
  BY <1>1, <1>2, <1>4 DEF WaitStateMeansAsleep
<1>9. PlaceOK'
  <2>1. pc[p] # "dead" /\ (p = initproc \/ p \in User)
    BY <1>1
  <2>2. \A q \in Proc : /\ state'[q] = "ZOMBIE" <=> pc'[q] = "dead"
                        /\ state'[q] = "UNUSED" => pc'[q] = "user"
    BY <1>1, <1>4, <2>1 DEF PlaceOK
  <2>3. \A q \in Proc : /\ wait_state'[q] = "CHILD" => pc'[q] = "wait"
                        /\ wait_state'[q] = "TIMER" => pc'[q] = "sleep"
                        /\ wait_state'[q] = "KBD" => pc'[q] = "read"
    <3>1. wait_state' = wait_state
      BY <1>2
    <3>2. \A q \in Proc : wait_state[q] # "NONE" => pc'[q] = pc[q]
      BY <1>1, <1>4
    <3> QED
      BY <3>1, <3>2 DEF PlaceOK
  <2>4. /\ pc'[idleproc] = "idle_loop" /\ pc'[initproc] \in {"init_loop", "wait"}
        /\ \A q \in User : pc'[q] \notin {"init_loop", "idle_loop"}
    BY <1>1, <1>4, <2>1 DEF PlaceOK
  <2> QED
    BY <2>2, <2>3, <2>4 DEF PlaceOK
<1>10. RunnerOK' /\ InitOK'
  BY <1>1, <1>3, <1>4 DEF RunnerOK, InitOK
<1>11. NoDanglingEntry'
  <2>1. \A q \in Proc : Linked(q)' <=> Linked(q)
    BY <1>3 DEF Linked
  <2> QED
    BY <1>1, <1>3, <1>4, <2>1 DEF NoDanglingEntry
<1>12. ParentsAlive'
  <2> SUFFICES ASSUME NEW q \in User, state'[q] # "UNUSED"
               PROVE  parent'[q] # q /\ state'[parent'[q]] \in {"RUNNABLE", "SLEEPING"}
    BY DEF ParentsAlive
  <2>1. q \in Proc /\ q # c /\ state[q] # "UNUSED" /\ parent[q] \in Proc
    BY <1>4 DEF TypeOK
  <2>2. parent[q] # q /\ state[parent[q]] \in {"RUNNABLE", "SLEEPING"}
    BY <2>1 DEF ParentsAlive
  <2> QED
    BY <1>4, <2>1, <2>2
<1>13. NoLostWakeup'
  <2>1. \A r \in Proc \ {p} : Children(r)' = Children(r)
    BY <1>1, <1>4 DEF Children
  <2>2. \A r \in Proc \ {p} : \A k \in Children(r) : state'[k] = state[k]
    BY <1>1, <1>4 DEF Children
  <2>3. \A q \in Proc : Linked(q)' <=> Linked(q)
    BY <1>3 DEF Linked
  <2> QED
    BY <1>1, <1>2, <1>3, <1>4, <2>1, <2>2, <2>3 DEF NoLostWakeup
<1> QED
  BY <1>5, <1>6, <1>7, <1>8, <1>9, <1>10, <1>11, <1>12, <1>13

(* A process falls asleep. What it must have arranged before: a living child  *)
(* and no dead one, a linked timer, or a place on stdin's queue and no input. *)
LEMMA SleepIInv ==
    ASSUME IInv, NEW p \in Proc \ {idleproc}, current = p, ~scheduling, halted = "NO",
           NEW reason \in {"CHILD", "TIMER", "KBD"}, NEW place \in {"wait", "sleep", "read"},
           Sleep(p, reason), BlockAt(p, place),
           UNCHANGED <<exiting, parent, nr_process, need_resched, time_slice, rq, chars,
                       current, halted>>,
           ListOK', kbd_queue' \in SUBSET Proc,
           wakeup_flags' \in [Proc -> {"INTERRUPTED", "KBD"}],
           wait_for' \in [Proc -> SUBSET Proc],
           \A q \in Proc \ {p} : /\ Linked(q)' <=> Linked(q)
                                 /\ q \in kbd_queue' <=> q \in kbd_queue
                                 /\ wait_for'[q] = wait_for[q],
           p = initproc => place = "wait" /\ wait_for'[p] = Proc,
           Linked(p)' <=> place = "sleep",
           p \in kbd_queue' <=> place = "read",
           reason = "CHILD" <=> place = "wait",
           reason = "TIMER" <=> place = "sleep",
           reason = "KBD" <=> place = "read",
           reason = "CHILD" => /\ Children(p) \cap wait_for'[p] # {}
                               /\ \A c \in Children(p) \cap wait_for'[p] : state[c] # "ZOMBIE",
           reason = "KBD" => chars = 0
    PROVE  IInv'
<1> USE ProcessAssumption DEF IInv
<1>1. /\ state[p] = "RUNNABLE" /\ wait_state[p] = "NONE" /\ p # idleproc
      /\ pc[p] # "dead" /\ scheduling' = TRUE
  BY DEF RunnerOK, WaitStateMeansAsleep, TypeOK, PlaceOK, BlockAt
<1>2. \A q \in Proc : /\ state'[q] = IF q = p THEN "SLEEPING" ELSE state[q]
                      /\ wait_state'[q] = IF q = p THEN reason ELSE wait_state[q]
                      /\ pc'[q] = IF q = p THEN place ELSE pc[q]
  BY DEF Sleep, BlockAt, GoTo, TypeOK
<1>3. TypeOK'
  <2>1. /\ state' \in [Proc -> States]
        /\ wait_state' \in [Proc -> {"NONE", "CHILD", "TIMER", "KBD"}]
        /\ pc' \in [Proc -> Places]
    BY DEF TypeOK, States, Places, Sleep, BlockAt, GoTo
  <2>2. timer_list' \in Seq(Proc) /\ expires' \in [Proc -> Nat]
    BY DEF ListOK
  <2> QED
    BY <1>1, <2>1, <2>2 DEF TypeOK
<1>4. RunQueueExact'
  BY <1>1, <1>2 DEF RunQueueExact
<1>5. WaitStateMeansAsleep'
  BY <1>2 DEF WaitStateMeansAsleep
<1>6. PlaceOK'
  BY <1>1, <1>2 DEF PlaceOK
<1>7. RunnerOK' /\ InitOK'
  BY <1>1, <1>2 DEF RunnerOK, InitOK
<1>8. NoDanglingEntry'
  BY <1>2 DEF NoDanglingEntry
<1>9. ParentsAlive'
  BY <1>1, <1>2 DEF ParentsAlive, TypeOK
<1>10. NoLostWakeup'
  <2>1. \A q \in Proc : Children(q)' = Children(q)
    BY <1>1, <1>2 DEF Children
  <2>2. \A q \in Proc : state'[q] = "ZOMBIE" <=> state[q] = "ZOMBIE"
    BY <1>1, <1>2
  <2>3. \A q \in Proc \ {p} : /\ wait_state'[q] = wait_state[q]
                              /\ Linked(q)' <=> Linked(q)
                              /\ q \in kbd_queue' <=> q \in kbd_queue
                              /\ wait_for'[q] = wait_for[q]
    BY <1>2
  <2>4. \A q \in Proc : \A c \in Children(q) : c \in Proc
    BY DEF Children
  <2>5. wait_state'[p] = reason
    BY <1>2
  <2> SUFFICES ASSUME NEW q \in Proc
               PROVE  /\ wait_state'[q] = "CHILD" =>
                            /\ Children(q)' \cap wait_for'[q] # {}
                            /\ \A c \in Children(q)' \cap wait_for'[q] : state'[c] # "ZOMBIE"
                      /\ wait_state'[q] = "TIMER" => Linked(q)'
                      /\ wait_state'[q] = "KBD" => q \in kbd_queue' /\ chars' = 0
    BY DEF NoLostWakeup
  <2>6. CASE q = p
    BY <2>1, <2>2, <2>4, <2>5, <2>6
  <2>7. CASE q # p
    BY <2>1, <2>2, <2>3, <2>4, <2>7 DEF NoLostWakeup
  <2> QED
    BY <2>6, <2>7
<1> QED
  BY <1>3, <1>4, <1>5, <1>6, <1>7, <1>8, <1>9, <1>10

(* do_wait in all its outcomes. *)
LEMMA WaitIInv ==
    ASSUME IInv, NEW p \in Proc, current = p, ~scheduling, halted = "NO",
           pc[p] \in {"user", "wait", "init_loop"},
           NEW who \in SUBSET Proc, p = initproc => who = Proc, do_wait(p, who),
           UNCHANGED <<stdinVars, timerVars, current>>
    PROVE  IInv'
<1> DEFINE kids == WaitsFor(p, who)
           dead == {c \in kids : state[c] = "ZOMBIE"}
<1> USE ProcessAssumption DEF IInv
<1>1. /\ p # idleproc /\ (p # initproc => p \in User)
      /\ ListOK' /\ \A q : Linked(q)' <=> Linked(q)
  BY DEF PlaceOK, ListOK, NoRepeats, Linked, timerVars
<1>2. UNCHANGED <<kbd_queue, wakeup_flags, chars, timer_list, expires, current>>
  BY DEF stdinVars, timerVars
<1>3. ~Linked(p) /\ p \notin kbd_queue
  BY DEF NoDanglingEntry
<1>4. ASSUME NEW c \in dead, Reap(p, c), wait_for' = [wait_for EXCEPT ![p] = {}]
      PROVE  IInv'
  BY <1>4, ReapIInv DEF WaitsFor
<1>5. CASE /\ dead = {} /\ kids # {}
           /\ Sleep(p, "CHILD") /\ BlockAt(p, "wait")
           /\ wait_for' = [wait_for EXCEPT ![p] = who]
           /\ UNCHANGED <<exiting, parent, nr_process, schedVars, halted>>
  <2>1. UNCHANGED <<exiting, parent, nr_process, need_resched, time_slice, rq, chars, current, halted>>
    BY <1>2, <1>5 DEF schedVars
  <2>2. /\ wait_for' \in [Proc -> SUBSET Proc] /\ wait_for'[p] = who
        /\ \A q \in Proc \ {p} : wait_for'[q] = wait_for[q]
    BY <1>5 DEF TypeOK
  <2>3. /\ Children(p) \cap wait_for'[p] # {}
        /\ \A c \in Children(p) \cap wait_for'[p] : state[c] # "ZOMBIE"
    BY <1>5, <2>2 DEF WaitsFor
  <2>4. kbd_queue' \in SUBSET Proc /\ wakeup_flags' \in [Proc -> {"INTERRUPTED", "KBD"}]
    BY <1>2 DEF TypeOK
  <2>5. Linked(p)' <=> "wait" = "sleep"
    BY <1>1, <1>3
  <2>6. p \in kbd_queue' <=> "wait" = "read"
    BY <1>2, <1>3
  <2>7. Sleep(p, "CHILD") /\ BlockAt(p, "wait")
    BY <1>5
  <2> QED
    BY <1>1, <1>2, <2>1, <2>2, <2>3, <2>4, <2>5, <2>6, <2>7, SleepIInv
<1>6. CASE p = initproc /\ halted' = "QUIT" /\ UNCHANGED <<pc, scheduling>>
           /\ wait_for' = [wait_for EXCEPT ![p] = {}]
           /\ UNCHANGED <<tableVars, schedVars>>
  BY <1>6, HaltIInv
<1>7. CASE p # initproc /\ Return(p) /\ UNCHANGED halted
           /\ wait_for' = [wait_for EXCEPT ![p] = {}]
           /\ UNCHANGED <<tableVars, schedVars>>
  <2>1. /\ UNCHANGED <<state, wait_state, exiting, parent, nr_process, need_resched,
                       time_slice, rq, scheduling>>
        /\ pc' = [pc EXCEPT ![p] = "trap_tail"]
    BY <1>7 DEF tableVars, schedVars, Return, GoTo
  <2>2. /\ wait_for' \in [Proc -> SUBSET Proc]
        /\ \A q \in Proc \ {p} : wait_for'[q] = wait_for[q]
    BY <1>7 DEF TypeOK
  <2> QED
    BY <1>1, <1>2, <1>3, <1>7, <2>1, <2>2, ReturnIInv DEF TypeOK
<1>8. \/ \E c \in dead : Reap(p, c) /\ wait_for' = [wait_for EXCEPT ![p] = {}]
      \/ /\ dead = {} /\ kids # {}
         /\ Sleep(p, "CHILD") /\ BlockAt(p, "wait")
         /\ wait_for' = [wait_for EXCEPT ![p] = who]
         /\ UNCHANGED <<exiting, parent, nr_process, schedVars, halted>>
      \/ /\ IF p = initproc THEN halted' = "QUIT" /\ UNCHANGED <<pc, scheduling>>
                            ELSE Return(p) /\ UNCHANGED halted
         /\ wait_for' = [wait_for EXCEPT ![p] = {}]
         /\ UNCHANGED <<tableVars, schedVars>>
  BY Zenon DEF do_wait
<1> QED
  BY <1>4, <1>5, <1>6, <1>7, <1>8

(* sleep before schedule(): its timer is new to the list. *)
LEMMA SysSleepIInv ==
    ASSUME IInv, NEW p \in Proc, sys_sleep(p)
    PROVE  IInv'
<1> USE ProcessAssumption DEF IInv
<1>1. p \in User /\ pc[p] = "user" /\ current = p /\ ~scheduling /\ halted = "NO"
  BY DEF sys_sleep, At, PlaceOK
<1>2. PICK t \in 1..MaxSleep : add_timer(p, t)
  BY DEF sys_sleep
<1>3. ~Linked(p) /\ p \notin kbd_queue
  BY <1>1 DEF NoDanglingEntry
<1>4. ListOK' /\ \A q : Linked(q)' <=> Linked(q) \/ q = p
  BY <1>2, <1>3, AddKeepsList
<1>5. /\ UNCHANGED <<exiting, parent, nr_process, need_resched, time_slice, rq, chars,
                     current, halted, wait_for, kbd_queue, wakeup_flags>>
      /\ Sleep(p, "TIMER") /\ BlockAt(p, "sleep")
  BY DEF sys_sleep, schedVars, stdinVars
<1>6. /\ wait_for' \in [Proc -> SUBSET Proc] /\ kbd_queue' \in SUBSET Proc
      /\ wakeup_flags' \in [Proc -> {"INTERRUPTED", "KBD"}]
  BY <1>5 DEF TypeOK
<1> QED
  BY <1>1, <1>3, <1>4, <1>5, <1>6, SleepIInv

(* sleep after schedule(): del_timer unlinks the timer if it is still linked. *)
LEMMA SleepResumeIInv ==
    ASSUME IInv, NEW p \in Proc, sleep_resume(p)
    PROVE  IInv'
<1> USE ProcessAssumption DEF IInv
<1>1. p \in User /\ pc[p] = "sleep" /\ current = p /\ ~scheduling /\ halted = "NO"
  BY DEF sleep_resume, At, PlaceOK
<1>2. ListOK' /\ \A q : Linked(q)' <=> Linked(q) /\ q # p
  BY DelKeepsList DEF sleep_resume
<1>3. p \notin kbd_queue
  BY <1>1 DEF NoDanglingEntry
<1>4. /\ UNCHANGED <<state, wait_state, exiting, parent, nr_process, need_resched,
                     time_slice, rq, scheduling, kbd_queue, wakeup_flags, chars, current,
                     wait_for, halted>>
      /\ pc' = [pc EXCEPT ![p] = "trap_tail"]
  BY DEF sleep_resume, tableVars, schedVars, stdinVars, Return, GoTo
<1> QED
  BY <1>1, <1>2, <1>3, <1>4, ReturnIInv DEF TypeOK

(* dev_stdin_read takes a character and leaves the queue, or joins the queue. *)
LEMMA StdinReadIInv ==
    ASSUME IInv, NEW p \in User, current = p, ~scheduling, halted = "NO",
           pc[p] \in {"user", "read"}, dev_stdin_read(p),
           UNCHANGED <<exiting, parent, nr_process, schedVars, timerVars, current,
                       wait_for, halted>>
    PROVE  IInv'
<1> USE ProcessAssumption DEF IInv
<1>1. /\ UNCHANGED <<exiting, parent, nr_process, need_resched, time_slice, rq, timer_list,
                     expires, current, wait_for, halted>>
      /\ ListOK' /\ \A q : Linked(q)' <=> Linked(q)
  BY DEF schedVars, timerVars, ListOK, NoRepeats, Linked
<1>2. ~Linked(p)
  BY DEF NoDanglingEntry
<1>3. wakeup_flags' = [wakeup_flags EXCEPT ![p] = "INTERRUPTED"]
  BY DEF dev_stdin_read
<1>4. wakeup_flags' \in [Proc -> {"INTERRUPTED", "KBD"}]
  BY <1>3 DEF TypeOK
<1>5. CASE /\ chars > 0 /\ chars' = chars - 1 /\ kbd_queue' = kbd_queue \ {p}
           /\ Return(p) /\ UNCHANGED <<state, wait_state>>
  <2>1. chars' \in Nat /\ chars # 0
    BY <1>5 DEF TypeOK
  <2>2. /\ kbd_queue' \in SUBSET Proc /\ p \notin kbd_queue'
        /\ \A q \in Proc \ {p} : q \in kbd_queue' <=> q \in kbd_queue
    BY <1>5 DEF TypeOK
  <2>3. pc' = [pc EXCEPT ![p] = "trap_tail"] /\ scheduling' = scheduling
    BY <1>5 DEF Return, GoTo
  <2>4. UNCHANGED <<state, wait_state>>
    BY <1>5
  <2>5. /\ scheduling' \in BOOLEAN /\ nr_process' \in Int
        /\ exiting' \in [Proc -> BOOLEAN] /\ need_resched' \in [Proc -> BOOLEAN]
        /\ time_slice' \in [Proc -> 0..MAX_TIME_SLICE]
        /\ wait_for' \in [Proc -> SUBSET Proc]
    BY <1>1, <2>3 DEF TypeOK
  <2>6. ~Linked(p)' /\ \A q \in Proc \ {p} : wait_for'[q] = wait_for[q]
    BY <1>1, <1>2
  <2> HIDE DEF IInv
  <2> QED
    BY <1>1, <1>4, <2>1, <2>2, <2>3, <2>4, <2>5, <2>6, ReturnIInv
<1>6. CASE /\ chars = 0 /\ Sleep(p, "KBD") /\ kbd_queue' = kbd_queue \cup {p}
           /\ BlockAt(p, "read") /\ UNCHANGED chars
  <2>1. /\ kbd_queue' \in SUBSET Proc /\ p \in kbd_queue'
        /\ \A q \in Proc \ {p} : q \in kbd_queue' <=> q \in kbd_queue
    BY <1>6 DEF TypeOK
  <2>2. wait_for' \in [Proc -> SUBSET Proc]
    BY <1>1 DEF TypeOK
  <2>3. Sleep(p, "KBD") /\ BlockAt(p, "read") /\ chars = 0 /\ chars' = chars
    BY <1>6
  <2> QED
    BY <1>1, <1>2, <1>4, <2>1, <2>2, <2>3, SleepIInv
<1> QED
  BY <1>5, <1>6 DEF dev_stdin_read

(* A reader that was woken tries again, or gives up and leaves the queue. *)
LEMMA ReadResumeIInv ==
    ASSUME IInv, NEW p \in Proc, read_resume(p)
    PROVE  IInv'
<1> USE ProcessAssumption DEF IInv
<1>1. p \in User /\ pc[p] = "read" /\ current = p /\ ~scheduling /\ halted = "NO"
  BY DEF read_resume, At, PlaceOK
<1>2. UNCHANGED <<exiting, parent, nr_process, schedVars, timerVars, current, wait_for, halted>>
  BY DEF read_resume
<1>3. CASE dev_stdin_read(p)
  BY <1>1, <1>2, <1>3, StdinReadIInv
<1>4. CASE /\ wait_current_del(p) /\ Return(p)
           /\ UNCHANGED <<state, wait_state, wakeup_flags, chars>>
  <2>1. UNCHANGED <<need_resched, time_slice, rq, timer_list, expires>>
    BY <1>2 DEF schedVars, timerVars
  <2>2. ListOK' /\ \A q : Linked(q)' <=> Linked(q)
    BY <2>1 DEF ListOK, NoRepeats, Linked
  <2>3. ~Linked(p)
    BY <1>1 DEF NoDanglingEntry
  <2>4. kbd_queue' = kbd_queue \ {p} /\ pc' = [pc EXCEPT ![p] = "trap_tail"]
        /\ scheduling' = scheduling
    BY <1>4 DEF wait_current_del, Return, GoTo
  <2>5. /\ kbd_queue' \in SUBSET Proc /\ p \notin kbd_queue'
        /\ \A q \in Proc \ {p} : q \in kbd_queue' <=> q \in kbd_queue
    BY <2>4 DEF TypeOK
  <2> QED
    BY <1>1, <1>2, <1>4, <2>1, <2>2, <2>3, <2>4, <2>5, ReturnIInv DEF TypeOK
<1> QED
  BY <1>3, <1>4 DEF read_resume

-----------------------------------------------------------------------------
(* The timer interrupt wakes only sleepers: whoever has a linked timer or is  *)
(* on the wait queue is inside sleep or read, hence neither dead nor free.    *)
LEMMA TickIInv ==
    ASSUME IInv, halted = "NO", tick,
           \/ pc' = pc
           \/ /\ ~scheduling /\ current \in User /\ pc[current] = "user"
              /\ pc' = [pc EXCEPT ![current] = "trap_tail"]
    PROVE  IInv'
<1> USE ProcessAssumption DEF IInv
<1>1. PICK k \in 0..Len(timer_list), typed \in BOOLEAN :
       LET due == {timer_list[i] : i \in 1..k}
           readers == IF typed THEN kbd_queue ELSE {} IN
       /\ Fires(k) /\ ExpireFirst(k)
       /\ typed => chars < MaxChars
       /\ chars' = IF typed THEN chars + 1 ELSE chars
       /\ kbd_queue' = kbd_queue \ readers
       /\ wakeup_flags' = [p \in Proc |-> IF p \in readers THEN "KBD" ELSE wakeup_flags[p]]
       /\ wakeup_proc(due \cup readers)
       /\ LET slices == Refilled({p \in due \cup readers : state[p] # "RUNNABLE"} \ {current})
              left == SliceLeft(slices[current]) IN
          IF current = idleproc
          THEN /\ time_slice' = slices
               /\ need_resched' = [need_resched EXCEPT ![idleproc] = TRUE]
          ELSE /\ time_slice' = [slices EXCEPT ![current] = left]
               /\ need_resched' = [need_resched EXCEPT ![current] = @ \/ left = 0]
       /\ UNCHANGED <<exiting, parent, nr_process, current, scheduling, wait_for, halted>>
  BY Zenon DEF tick
<1> DEFINE due == {timer_list[i] : i \in 1..k}
           readers == IF typed THEN kbd_queue ELSE {}
           up == due \cup readers
<1>2. \A q \in due : q \in Proc /\ Linked(q)
  <2>1. /\ Len(timer_list) \in Nat /\ DOMAIN timer_list = 1..Len(timer_list)
        /\ \A i \in 1..Len(timer_list) : timer_list[i] \in Proc
    BY SeqFacts DEF ListOK
  <2>2. \A i \in 1..k : i \in 1..Len(timer_list)
    BY <2>1
  <2> QED
    BY <2>1, <2>2 DEF Linked
<1>3. \A q \in up : q \in Proc /\ pc[q] \in {"sleep", "read"}
  BY <1>2 DEF NoDanglingEntry, TypeOK
<1>4. \A q \in up : /\ state[q] \notin {"UNUSED", "ZOMBIE"}
                    /\ q # idleproc /\ q # initproc
  BY <1>3 DEF PlaceOK
<1>5. ListOK' /\ \A q : Linked(q)' <=> Linked(q) /\ q \notin due
  BY <1>1, TickKeepsList
<1>6. /\ chars' = IF typed THEN chars + 1 ELSE chars
      /\ kbd_queue' = kbd_queue \ readers
      /\ wakeup_flags' = [p \in Proc |-> IF p \in readers THEN "KBD" ELSE wakeup_flags[p]]
      /\ wakeup_proc(up)
      /\ UNCHANGED <<exiting, parent, nr_process, current, scheduling, wait_for, halted>>
  BY <1>1
<1>7. /\ time_slice' \in [Proc -> 0..MAX_TIME_SLICE]
      /\ need_resched' \in [Proc -> BOOLEAN]
  <2> DEFINE slices == Refilled({p \in up : state[p] # "RUNNABLE"} \ {current})
             left == SliceLeft(slices[current])
  <2>1. IF current = idleproc
        THEN /\ time_slice' = slices
             /\ need_resched' = [need_resched EXCEPT ![idleproc] = TRUE]
        ELSE /\ time_slice' = [slices EXCEPT ![current] = left]
             /\ need_resched' = [need_resched EXCEPT ![current] = @ \/ left = 0]
    BY <1>1
  <2>2. slices \in [Proc -> 0..MAX_TIME_SLICE] /\ current \in Proc
    BY RefillType DEF TypeOK
  <2> HIDE DEF slices
  <2>3. left \in 0..MAX_TIME_SLICE
    BY <2>2 DEF SliceLeft
  <2> HIDE DEF left
  <2>4. time_slice' \in [Proc -> 0..MAX_TIME_SLICE]
    BY <2>1, <2>2, <2>3
  <2>5. need_resched' \in [Proc -> BOOLEAN]
    <3> DEFINE asked == need_resched[current] \/ left = 0
    <3>1. need_resched \in [Proc -> BOOLEAN] /\ asked \in BOOLEAN
      BY DEF TypeOK
    <3>2. \/ need_resched' = [need_resched EXCEPT ![idleproc] = TRUE]
          \/ need_resched' = [need_resched EXCEPT ![current] = asked]
      BY <2>1
    <3> HIDE DEF asked
    <3> QED
      BY <3>1, <3>2
  <2> QED
    BY <2>4, <2>5
<1> HIDE DEF due, readers
<1>8. \A q \in Proc :
         /\ state'[q] = IF q \in up THEN "RUNNABLE" ELSE state[q]
         /\ wait_state'[q] = IF q \in up /\ state[q] # "RUNNABLE" THEN "NONE" ELSE wait_state[q]
         /\ rq'[q] = IF q \in up /\ state[q] # "RUNNABLE" /\ q \notin {current, idleproc}
                     THEN rq[q] + 1 ELSE rq[q]
  BY <1>3, <1>6, WakeupEffect
<1>9. /\ state' \in [Proc -> States]
      /\ wait_state' \in [Proc -> {"NONE", "CHILD", "TIMER", "KBD"}]
      /\ rq' \in [Proc -> Nat]
  BY <1>3, <1>6, WakeupType
<1> HIDE DEF up
<1>10. \A q \in Proc : \/ pc'[q] = pc[q]
                       \/ /\ q \in User /\ state[q] = "RUNNABLE"
                          /\ pc[q] = "user" /\ pc'[q] = "trap_tail"
  BY DEF TypeOK, RunnerOK
<1>11. TypeOK'
  <2>1. pc' \in [Proc -> Places]
    BY DEF TypeOK, Places
  <2>2. /\ timer_list' \in Seq(Proc) /\ expires' \in [Proc -> Nat]
    BY <1>5 DEF ListOK
  <2>3. kbd_queue' \in SUBSET Proc /\ chars' \in Nat
    BY <1>6 DEF TypeOK
  <2>4. wakeup_flags' \in [Proc -> {"INTERRUPTED", "KBD"}]
    BY <1>6 DEF TypeOK
  <2> QED
    BY <1>6, <1>7, <1>9, <2>1, <2>2, <2>3, <2>4 DEF TypeOK
<1>12. RunQueueExact'
  BY <1>4, <1>6, <1>8 DEF RunQueueExact
<1>13. WaitStateMeansAsleep'
  BY <1>8 DEF WaitStateMeansAsleep
<1>14. PlaceOK'
  <2>1. \A q \in Proc : /\ state'[q] = "ZOMBIE" <=> pc'[q] = "dead"
                        /\ state'[q] = "UNUSED" => pc'[q] = "user"
    BY <1>4, <1>8, <1>10 DEF PlaceOK
  <2>2. \A q \in Proc : wait_state'[q] # "NONE" => wait_state[q] = wait_state'[q] /\ pc'[q] = pc[q]
    BY <1>8, <1>10 DEF WaitStateMeansAsleep
  <2>3. \A q \in Proc : /\ wait_state'[q] = "CHILD" => pc'[q] = "wait"
                        /\ wait_state'[q] = "TIMER" => pc'[q] = "sleep"
                        /\ wait_state'[q] = "KBD" => pc'[q] = "read"
    BY <2>2 DEF PlaceOK
  <2>4. /\ pc'[idleproc] = "idle_loop" /\ pc'[initproc] \in {"init_loop", "wait"}
        /\ \A q \in User : pc'[q] \notin {"init_loop", "idle_loop"}
    BY <1>10 DEF PlaceOK
  <2> QED
    BY <2>1, <2>3, <2>4 DEF PlaceOK
<1>15. RunnerOK' /\ InitOK'
  BY <1>4, <1>6, <1>8, <1>10 DEF RunnerOK, InitOK, TypeOK
<1>16. NoDanglingEntry'
  <2>1. \A q \in Proc : pc[q] \in {"sleep", "read"} => pc'[q] = pc[q]
    BY <1>10
  <2> QED
    BY <1>5, <1>6, <2>1 DEF NoDanglingEntry
<1>17. ParentsAlive'
  BY <1>4, <1>6, <1>8 DEF ParentsAlive, TypeOK
<1>18. NoLostWakeup'
  <2>1. \A r \in Proc : Children(r)' = Children(r)
    BY <1>4, <1>6, <1>8 DEF Children
  <2>2. \A r \in Proc : \A c \in Children(r) : state'[c] = "ZOMBIE" <=> state[c] = "ZOMBIE"
    BY <1>4, <1>8 DEF Children
  <2>3. \A r \in Proc : wait_state'[r] # "NONE" => r \notin up /\ wait_state[r] = wait_state'[r]
    BY <1>8 DEF WaitStateMeansAsleep
  <2>4. \A r \in Proc : wait_state'[r] = "TIMER" => Linked(r)'
    BY <1>5, <2>3 DEF NoLostWakeup, up
  <2>5. \A r \in Proc : wait_state'[r] = "KBD" => r \in kbd_queue' /\ chars' = 0
    BY <1>6, <2>3 DEF NoLostWakeup, up, readers
  <2>6. \A r \in Proc : wait_state'[r] = "CHILD" =>
           /\ Children(r)' \cap wait_for'[r] # {}
           /\ \A c \in Children(r)' \cap wait_for'[r] : state'[c] # "ZOMBIE"
    BY <1>6, <2>1, <2>2, <2>3 DEF NoLostWakeup
  <2> QED
    BY <2>4, <2>5, <2>6 DEF NoLostWakeup
<1> QED
  BY <1>5, <1>11, <1>12, <1>13, <1>14, <1>15, <1>16, <1>17, <1>18

(* schedule: with current queued again, the queue holds one node of every     *)
(* runnable process but idleproc, and the one it picks leaves it.             *)
LEMMA ScheduleIInv ==
    ASSUME IInv, schedule
    PROVE  IInv'
<1> DEFINE back == IF state[current] = "RUNNABLE" THEN {current} ELSE {}
           queue == Enqueued(back)
<1> USE ProcessAssumption DEF IInv
<1>1. \/ \E next \in Proc : /\ queue[next] > 0
                            /\ rq' = Dequeued(queue, next)
                            /\ current' = next
      \/ /\ \A p \in Proc : queue[p] = 0
         /\ rq' = queue
         /\ current' = idleproc
  BY DEF schedule
<1>2. /\ time_slice' = Refilled(back)
      /\ need_resched' = [need_resched EXCEPT ![current] = FALSE]
      /\ scheduling' = FALSE /\ scheduling /\ halted = "NO"
      /\ UNCHANGED <<state, wait_state, exiting, parent, nr_process, kbd_queue, wakeup_flags,
                     chars, timer_list, expires, pc, wait_for, halted>>
  BY DEF schedule, tableVars, stdinVars, timerVars
<1>3. queue \in [Proc -> Nat]
  BY EnqueuedType
<1>4. \A q \in Proc : queue[q] = IF state[q] = "RUNNABLE" /\ q # idleproc THEN 1 ELSE 0
  BY DEF Enqueued, RunQueueExact, TypeOK
<1> HIDE DEF queue
<1>5. /\ rq' \in [Proc -> Nat] /\ current' \in Proc /\ state[current'] = "RUNNABLE"
      /\ \A q \in Proc : rq'[q] = IF state[q] = "RUNNABLE" /\ q \notin {current', idleproc}
                                  THEN 1 ELSE 0
  <2>1. ASSUME NEW next \in Proc, queue[next] > 0, rq' = Dequeued(queue, next), current' = next
        PROVE  <1>5!:
    <3>1. state[next] = "RUNNABLE" /\ next # idleproc /\ queue[next] = 1
      BY <1>4, <2>1
    <3>2. \A q \in Proc : rq'[q] = IF q = next THEN 0 ELSE queue[q]
      BY <1>3, <2>1, <3>1 DEF Dequeued
    <3>3. rq' \in [Proc -> Nat]
      BY <1>3, <2>1, <3>1 DEF Dequeued
    <3> QED
      BY <1>4, <2>1, <3>1, <3>2, <3>3
  <2>2. CASE (\A p \in Proc : queue[p] = 0) /\ rq' = queue /\ current' = idleproc
    BY <1>3, <1>4, <2>2 DEF RunnerOK
  <2> QED
    BY <1>1, <2>1, <2>2
<1>6. TypeOK'
  <2>1. time_slice' \in [Proc -> 0..MAX_TIME_SLICE] /\ need_resched' \in [Proc -> BOOLEAN]
    BY <1>2, RefillType DEF TypeOK
  <2>2. scheduling' \in BOOLEAN
    BY <1>2
  <2> QED
    BY <1>2, <1>5, <2>1, <2>2 DEF TypeOK
<1>7. ListOK'
  BY <1>2 DEF ListOK, NoRepeats
<1>8. RunQueueExact' /\ WaitStateMeansAsleep'
  BY <1>2, <1>5 DEF RunQueueExact, WaitStateMeansAsleep
<1>9. PlaceOK' /\ InitOK'
  BY <1>2 DEF PlaceOK, InitOK
<1>10. RunnerOK'
  BY <1>2, <1>5 DEF RunnerOK
<1>11. NoDanglingEntry' /\ ParentsAlive'
  BY <1>2 DEF NoDanglingEntry, ParentsAlive, Linked
<1>12. NoLostWakeup'
  BY <1>2 DEF NoLostWakeup, Linked, Children
<1> QED
  BY <1>6, <1>7, <1>8, <1>9, <1>10, <1>11, <1>12

-----------------------------------------------------------------------------
(* Every step of the kernel. *)

(* What a process does inside the kernel when it runs again. *)
LEMMA ResumeIInv ==
    ASSUME IInv, NEW p \in Proc, Resume(p)
    PROVE  IInv'
<1> USE ProcessAssumption
<1>1. CASE wait_resume(p)
  <2>1. /\ pc[p] = "wait" /\ current = p /\ ~scheduling /\ halted = "NO" /\ p # idleproc
        /\ UNCHANGED <<stdinVars, timerVars, current>>
    BY <1>1 DEF wait_resume, At, IInv, PlaceOK
  <2>2. ASSUME exiting[p], do_exit(p), wait_for' = [wait_for EXCEPT ![p] = {}]
        PROVE  IInv'
    <3>1. CASE p = initproc
      <4>1. /\ halted' = "PANIC"
            /\ UNCHANGED <<tableVars, schedVars, scheduling, pc>>
        BY <2>2, <3>1 DEF do_exit
      <4> QED
        BY <2>1, <2>2, <3>1, <4>1, HaltIInv
    <3>2. CASE p # initproc
      BY <2>1, <2>2, <3>2, ExitIInv
    <3> QED
      BY <3>1, <3>2
  <2>3. ASSUME do_wait(p, wait_for[p])
        PROVE  IInv'
    <3>1. wait_for[p] \in SUBSET Proc /\ (p = initproc => wait_for[p] = Proc)
      BY <2>1 DEF IInv, TypeOK, InitOK
    <3> QED
      BY <2>1, <2>3, <3>1, WaitIInv
  <2> QED
    BY <1>1, <2>2, <2>3 DEF wait_resume
<1>2. CASE sleep_resume(p)
  BY <1>2, SleepResumeIInv
<1>3. CASE read_resume(p)
  BY <1>3, ReadResumeIInv
<1>4. CASE trap_tail(p)
  <2>1. /\ p \in User /\ pc[p] = "trap_tail" /\ current = p /\ ~scheduling /\ halted = "NO"
        /\ UNCHANGED <<stdinVars, timerVars, current, wait_for>>
    BY <1>4 DEF trap_tail, At, IInv, PlaceOK
  <2>2. CASE do_exit(p)
    BY <2>1, <2>2, ExitIInv
  <2>3. CASE /\ GoTo(p, "user") /\ scheduling' = need_resched[p]
             /\ UNCHANGED <<tableVars, schedVars, halted>>
    <3>1. /\ UNCHANGED <<state, wait_state, exiting, parent, nr_process, need_resched,
                         time_slice, rq, kbd_queue, wakeup_flags, chars, timer_list, expires,
                         current, wait_for, halted>>
          /\ pc' = [pc EXCEPT ![p] = "user"]
      BY <2>1, <2>3 DEF tableVars, schedVars, stdinVars, timerVars, GoTo
    <3>2. scheduling' \in BOOLEAN
      BY <2>3 DEF IInv, TypeOK
    <3> QED
      BY <2>1, <3>1, <3>2, FrameIInv DEF IInv, TypeOK
  <2> QED
    BY <1>4, <2>2, <2>3 DEF trap_tail
<1> QED
  BY <1>1, <1>2, <1>3, <1>4 DEF Resume

(* Every system call of a user process. *)
LEMMA SyscallIInv ==
    ASSUME IInv, NEW p \in Proc, Syscall(p)
    PROVE  IInv'
<1> USE ProcessAssumption
<1>1. CASE sys_exit(p)
  <2>1. /\ p \in User /\ pc[p] = "user" /\ current = p /\ ~scheduling /\ halted = "NO"
        /\ do_exit(p) /\ UNCHANGED <<stdinVars, timerVars, current>> /\ wait_for' = wait_for
    BY <1>1 DEF sys_exit, At, IInv, PlaceOK
  <2> QED
    BY <2>1, ExitIInv
<1>2. CASE sys_wait(p)
  <2>1. /\ p \in User /\ pc[p] = "user" /\ current = p /\ ~scheduling /\ halted = "NO"
        /\ UNCHANGED <<stdinVars, timerVars, current>>
    BY <1>2 DEF sys_wait, At, IInv, PlaceOK
  <2>2. PICK who \in SUBSET Proc : do_wait(p, who)
    BY <1>2 DEF sys_wait
  <2> QED
    BY <2>1, <2>2, WaitIInv
<1>3. CASE sys_read(p)
  <2>1. /\ p \in User /\ pc[p] = "user" /\ current = p /\ ~scheduling /\ halted = "NO"
        /\ dev_stdin_read(p)
        /\ UNCHANGED <<exiting, parent, nr_process, schedVars, timerVars, current, wait_for, halted>>
    BY <1>3 DEF sys_read, At, IInv, PlaceOK
  <2> QED
    BY <2>1, StdinReadIInv
<1>4. CASE sys_fork(p)
  BY <1>4, ForkIInv
<1>5. CASE sys_kill(p)
  BY <1>5, KillIInv
<1>6. CASE sys_yield(p)
  BY <1>6, YieldIInv
<1>7. CASE sys_sleep(p)
  BY <1>7, SysSleepIInv
<1> QED
  BY <1>1, <1>2, <1>3, <1>4, <1>5, <1>6, <1>7 DEF Syscall

(* Every step of the kernel, interrupts included. *)
LEMMA NextIInv ==
    ASSUME IInv, [Next]_vars
    PROVE  IInv'
<1> USE ProcessAssumption
<1>1. CASE schedule
  BY <1>1, ScheduleIInv
<1>2. CASE init_main
  <2>1. /\ pc[initproc] = "init_loop" /\ current = initproc /\ ~scheduling /\ halted = "NO"
        /\ do_wait(initproc, Proc) /\ UNCHANGED <<stdinVars, timerVars, current>>
    BY <1>2 DEF init_main, At
  <2> QED
    BY <2>1, WaitIInv
<1>3. CASE cpu_idle
  <2>1. /\ UNCHANGED <<state, wait_state, exiting, parent, nr_process, need_resched, time_slice,
                       rq, kbd_queue, wakeup_flags, chars, timer_list, expires, current, pc,
                       wait_for, halted>>
        /\ scheduling' = TRUE
    BY <1>3 DEF cpu_idle, tableVars, schedVars, stdinVars, timerVars
  <2>2. TypeOK'
    BY <2>1 DEF IInv, TypeOK
  <2>3. (ListOK /\ RunQueueExact /\ WaitStateMeansAsleep)'
    BY <2>1 DEF IInv, ListOK, NoRepeats, RunQueueExact, WaitStateMeansAsleep
  <2>4. (PlaceOK /\ RunnerOK /\ InitOK)'
    BY <2>1 DEF IInv, PlaceOK, RunnerOK, InitOK
  <2>5. (NoDanglingEntry /\ ParentsAlive /\ NoLostWakeup)'
    BY <2>1 DEF IInv, NoDanglingEntry, ParentsAlive, NoLostWakeup, Linked, Children
  <2> QED
    BY <2>2, <2>3, <2>4, <2>5 DEF IInv
<1>4. CASE tick_kernel
  BY <1>4, TickIInv DEF tick_kernel
<1>5. ASSUME NEW p \in Proc, tick_user(p)
      PROVE  IInv'
  <2>1. /\ current = p /\ p \in User /\ ~scheduling /\ halted = "NO" /\ pc[p] = "user" /\ tick
        /\ pc' = [pc EXCEPT ![p] = "trap_tail"]
    BY <1>5 DEF tick_user, At, GoTo, IInv, PlaceOK
  <2> QED
    BY <2>1, TickIInv
<1>6. CASE UNCHANGED vars
  <2>1. UNCHANGED <<state, wait_state, exiting, parent, nr_process, need_resched, time_slice,
                    rq, kbd_queue, wakeup_flags, chars, timer_list, expires, current,
                    scheduling, pc, wait_for, halted>>
    BY <1>6 DEF vars, tableVars, schedVars, stdinVars, timerVars
  <2>2. TypeOK'
    BY <2>1 DEF IInv, TypeOK
  <2>3. (ListOK /\ RunQueueExact /\ WaitStateMeansAsleep)'
    BY <2>1 DEF IInv, ListOK, NoRepeats, RunQueueExact, WaitStateMeansAsleep
  <2>4. (PlaceOK /\ RunnerOK /\ InitOK)'
    BY <2>1 DEF IInv, PlaceOK, RunnerOK, InitOK
  <2>5. (NoDanglingEntry /\ ParentsAlive /\ NoLostWakeup)'
    BY <2>1 DEF IInv, NoDanglingEntry, ParentsAlive, NoLostWakeup, Linked, Children
  <2> QED
    BY <2>2, <2>3, <2>4, <2>5 DEF IInv
<1> QED
  BY <1>1, <1>2, <1>3, <1>4, <1>5, <1>6, SyscallIInv, ResumeIInv DEF Next

(* The inductive invariant holds in every reachable state. *)
THEOREM Invariance == Spec => []IInv
<1>1. Init => IInv
  BY InitIInv
<1>2. IInv /\ [Next]_vars => IInv'
  BY NextIInv
<1> QED
  BY <1>1, <1>2, PTL DEF Spec

-----------------------------------------------------------------------------
(* What follows from the inductive invariant. *)

(* Every variable of the life of a process keeps its type: in particular no   *)
(* time slice underflows and no process is on the run queue a negative number *)
(* of times.                                                                  *)
THEOREM TypeCorrect == Spec => []TypeOK
  BY Invariance, PTL DEF IInv

(* wakeup_proc, schedule and the class keep exactly the runnable processes    *)
(* that wait for the processor on the run queue, each once.                   *)
THEOREM RunQueueCorrect == Spec => []RunQueueExact
  BY Invariance, PTL DEF IInv

(* A process has a wait state exactly while it sleeps, so do_exit and do_kill  *)
(* never wake a zombie (the assertion of wakeup_proc).                        *)
THEOREM WaitStatesCorrect == Spec => []WaitStateMeansAsleep
  BY Invariance, PTL DEF IInv

(* Timers and wait-queue entries, which live on the stacks of do_sleep and     *)
(* dev_stdin_read, are linked only during these calls, whenever do_kill and    *)
(* the interrupts come.                                                       *)
THEOREM NoDangling == Spec => []NoDanglingEntry
  BY Invariance, PTL DEF IInv

(* The parent of a process is alive: do_exit gives orphans to initproc, and    *)
(* initproc never exits before the system stops.                              *)
THEOREM ParentsStayAlive == Spec => []ParentsAlive
  BY Invariance, PTL DEF IInv

(* Nobody sleeps in do_wait beside a zombie of its own, in do_sleep without a  *)
(* linked timer, or in dev_stdin_read beside an unread character.             *)
THEOREM NoWakeupIsLost == Spec => []NoLostWakeup
  BY Invariance, PTL DEF IInv

(* What has been freed is referred to by nothing.                              *)
LEMMA Unreferenced == IInv => FreedIsUnreferenced
<1> SUFFICES ASSUME IInv, NEW p \in Proc, state[p] = "UNUSED"
             PROVE  /\ p # current /\ rq[p] = 0 /\ ~Linked(p) /\ p \notin kbd_queue
                    /\ \A c \in Proc : state[c] # "UNUSED" => parent[c] # p
  BY DEF FreedIsUnreferenced
<1>1. p # current
  BY DEF IInv, RunnerOK
<1>2. rq[p] = 0
  BY DEF IInv, RunQueueExact
<1>3. ~Linked(p) /\ p \notin kbd_queue
  BY DEF IInv, PlaceOK, NoDanglingEntry
<1>4. ASSUME NEW c \in Proc, state[c] # "UNUSED"
      PROVE  parent[c] # p
  BY <1>4, ProcessAssumption DEF IInv, ParentsAlive, InitOK, RunnerOK
<1> QED
  BY <1>1, <1>2, <1>3, <1>4

(* What do_wait frees is not running, not queued anywhere, and not a parent.   *)
THEOREM FreedCorrect == Spec => []FreedIsUnreferenced
  BY Unreferenced, Invariance, PTL

-----------------------------------------------------------------------------
(* Births and deaths.                                                        *)

(* A step creates one process, frees one zombie of the running process, or   *)
(* does neither; and no step revives a zombie.                               *)
Born == \E c \in Proc : /\ state[c] = "UNUSED"
                        /\ state' = [state EXCEPT ![c] = "RUNNABLE"]
                        /\ nr_process' = nr_process + 1

Freed == \E c \in Proc : /\ state[c] = "ZOMBIE" /\ current = parent[c]
                         /\ state' = [state EXCEPT ![c] = "UNUSED"]
                         /\ nr_process' = nr_process - 1

SameProcesses == /\ \A q \in Proc : /\ state'[q] = "UNUSED" <=> state[q] = "UNUSED"
                                    /\ state[q] = "ZOMBIE" => state'[q] = "ZOMBIE"
                 /\ nr_process' = nr_process

(* exit neither creates nor frees a process. *)
LEMMA ExitProcesses ==
    ASSUME IInv, NEW p \in Proc, current = p, ~scheduling, do_exit(p)
    PROVE  SameProcesses
<1>1. state[p] = "RUNNABLE"
  BY DEF IInv, RunnerOK
<1>2. CASE p = initproc
  BY <1>2 DEF do_exit, tableVars, SameProcesses
<1>3. CASE p # initproc
  <2>1. /\ nr_process' = nr_process
        /\ \A q \in Proc : state'[q] = IF q = p THEN "ZOMBIE"
                              ELSE IF q \in WokenByExit(p) THEN "RUNNABLE" ELSE state[q]
    BY <1>3 DEF do_exit
  <2>2. \A q \in Proc : q \in WokenByExit(p) => state[q] = "SLEEPING"
    BY DEF WokenByExit, IInv, WaitStateMeansAsleep
  <2> QED
    BY <1>1, <2>1, <2>2 DEF SameProcesses
<1> QED
  BY <1>2, <1>3

(* do_wait frees at most one zombie child of its caller. *)
LEMMA WaitProcesses ==
    ASSUME IInv, NEW p \in Proc, current = p, ~scheduling, NEW who, do_wait(p, who)
    PROVE  Freed \/ SameProcesses
<1>1. state[p] = "RUNNABLE"
  BY DEF IInv, RunnerOK
<1>2. ASSUME NEW c \in WaitsFor(p, who), state[c] = "ZOMBIE", Reap(p, c)
      PROVE  Freed
  BY <1>2 DEF Reap, OneProcessLess, WaitsFor, Children, Freed
<1>3. CASE Sleep(p, "CHILD") /\ nr_process' = nr_process
  BY <1>1, <1>3 DEF Sleep, SameProcesses, IInv, TypeOK
<1>4. CASE UNCHANGED <<tableVars, schedVars>>
  BY <1>4 DEF tableVars, SameProcesses
<1> QED
  BY <1>2, <1>3, <1>4 DEF do_wait

(* Waking sleepers neither creates nor frees a process. *)
LEMMA WakeupProcesses ==
    ASSUME IInv, NEW S \in SUBSET Proc, wakeup_proc(S), nr_process' = nr_process,
           \A q \in S : state[q] \notin {"UNUSED", "ZOMBIE"}
    PROVE  SameProcesses
  BY WakeupEffect DEF SameProcesses, IInv

(* A timer interrupt neither creates nor frees a process. *)
LEMMA TickProcesses ==
    ASSUME IInv, tick
    PROVE  SameProcesses
<1>1. PICK k \in 0..Len(timer_list), typed \in BOOLEAN :
         /\ wakeup_proc({timer_list[i] : i \in 1..k} \cup IF typed THEN kbd_queue ELSE {})
         /\ nr_process' = nr_process
  BY Zenon DEF tick
<1> DEFINE due == {timer_list[i] : i \in 1..k}
           readers == IF typed THEN kbd_queue ELSE {}
           up == due \cup readers
<1>2. \A q \in due : q \in Proc /\ Linked(q)
  <2>1. /\ Len(timer_list) \in Nat /\ DOMAIN timer_list = 1..Len(timer_list)
        /\ \A i \in 1..Len(timer_list) : timer_list[i] \in Proc
    BY SeqFacts DEF IInv, ListOK
  <2>2. \A i \in 1..k : i \in 1..Len(timer_list)
    BY <2>1
  <2> QED
    BY <2>1, <2>2 DEF Linked
<1>3. \A q \in up : q \in Proc /\ pc[q] \in {"sleep", "read"}
  BY <1>2 DEF IInv, NoDanglingEntry, TypeOK
<1>4. \A q \in up : state[q] \notin {"UNUSED", "ZOMBIE"}
  BY <1>3 DEF IInv, PlaceOK
<1> QED
  BY <1>1, <1>3, <1>4, WakeupProcesses

(* Nor does kill, which wakes sleepers only. *)
LEMMA KillProcesses ==
    ASSUME IInv, NEW p \in Proc, sys_kill(p)
    PROVE  SameProcesses
<1> USE ProcessAssumption
<1>1. PICK q \in KillTargets :
         \/ UNCHANGED state
         \/ wakeup_proc({r \in {q} : wait_state[r] # "NONE"})
  BY DEF sys_kill
<1>2. nr_process' = nr_process
  BY DEF sys_kill
<1>3. \A r \in {r \in {q} : wait_state[r] # "NONE"} : state[r] = "SLEEPING" /\ r \in Proc
  BY DEF IInv, WaitStateMeansAsleep
<1>4. CASE UNCHANGED state
  BY <1>2, <1>4 DEF SameProcesses
<1>5. CASE wakeup_proc({r \in {q} : wait_state[r] # "NONE"})
  BY <1>2, <1>3, <1>5, WakeupProcesses
<1> QED
  BY <1>1, <1>4, <1>5

(* Nor do sleep and a read of the keyboard, where the caller itself sleeps. *)
LEMMA SleepProcesses ==
    ASSUME IInv, NEW p \in Proc, sys_sleep(p) \/ sys_read(p) \/ read_resume(p)
    PROVE  SameProcesses
<1>1. /\ current = p /\ ~scheduling /\ nr_process' = nr_process
      /\ (\E reason : Sleep(p, reason)) \/ UNCHANGED state
  BY DEF sys_sleep, sys_read, read_resume, At, dev_stdin_read
<1>2. ASSUME NEW reason, Sleep(p, reason)
      PROVE  SameProcesses
  BY <1>1, <1>2, ProcessAssumption DEF Sleep, SameProcesses, IInv, RunnerOK, TypeOK
<1> QED
  BY <1>1, <1>2 DEF SameProcesses

(* The three kinds of steps are all there are. *)
LEMMA BirthsAndDeaths ==
    ASSUME IInv, [Next]_vars
    PROVE  Born \/ Freed \/ SameProcesses
<1> USE ProcessAssumption
<1>1. ASSUME NEW p \in Proc, At(p, pc[p])
      PROVE  current = p /\ ~scheduling /\ state[p] = "RUNNABLE"
  BY <1>1 DEF At, IInv, RunnerOK
<1>2. CASE UNCHANGED tableVars
  BY <1>2 DEF tableVars, SameProcesses
<1>3. CASE init_main
  <2>1. current = initproc /\ ~scheduling /\ do_wait(initproc, Proc)
    BY <1>3 DEF init_main, At
  <2> QED
    BY <2>1, WaitProcesses
<1>4. CASE tick
  BY <1>4, TickProcesses
<1>5. ASSUME NEW p \in Proc, sys_fork(p)
      PROVE  Born \/ SameProcesses
  BY <1>2, <1>5 DEF sys_fork, Born, SameProcesses, tableVars
<1>6. ASSUME NEW p \in Proc, sys_exit(p)
      PROVE  SameProcesses
  BY <1>6, ExitProcesses DEF sys_exit, At
<1>7. ASSUME NEW p \in Proc, sys_wait(p)
      PROVE  Freed \/ SameProcesses
  BY <1>7, WaitProcesses DEF sys_wait, At
<1>8. ASSUME NEW p \in Proc, wait_resume(p)
      PROVE  Freed \/ SameProcesses
  BY <1>8, ExitProcesses, WaitProcesses DEF wait_resume, At
<1>9. ASSUME NEW p \in Proc, sys_kill(p)
      PROVE  SameProcesses
  BY <1>9, KillProcesses
<1>11. ASSUME NEW p \in Proc, sys_sleep(p) \/ sys_read(p) \/ read_resume(p)
       PROVE  SameProcesses
  BY <1>11, SleepProcesses
<1>13. ASSUME NEW p \in Proc, trap_tail(p)
       PROVE  SameProcesses
  <2>1. current = p /\ ~scheduling /\ (do_exit(p) \/ UNCHANGED tableVars)
    BY <1>13 DEF trap_tail, At
  <2> QED
    BY <2>1, ExitProcesses DEF tableVars, SameProcesses
<1>14. schedule \/ cpu_idle \/ UNCHANGED vars \/ (\E p \in Proc : sys_yield(p) \/ sleep_resume(p))
          => UNCHANGED tableVars
  BY DEF schedule, cpu_idle, vars, sys_yield, sleep_resume
<1>15. tick_kernel \/ (\E p \in Proc : tick_user(p)) => tick
  BY DEF tick_kernel, tick_user
<1> QED
  BY <1>2, <1>3, <1>4, <1>5, <1>6, <1>7, <1>8, <1>9, <1>11, <1>13, <1>14, <1>15
     DEF Next, Syscall, Resume

(* A zombie is freed by its parent only, nothing else is freed, and a zombie   *)
(* never lives again.                                                         *)
THEOREM ReapingCorrect == Spec => ReapedByParentOnly
<1>1. IInv /\ [Next]_vars =>
        [\A p \in Proc :
           /\ state'[p] = "UNUSED" /\ state[p] # "UNUSED" =>
                 state[p] = "ZOMBIE" /\ current = parent[p]
           /\ state[p] = "ZOMBIE" => state'[p] \in {"ZOMBIE", "UNUSED"}]_vars
  <2> SUFFICES ASSUME IInv, [Next]_vars, NEW p \in Proc
               PROVE  /\ state'[p] = "UNUSED" /\ state[p] # "UNUSED" =>
                            state[p] = "ZOMBIE" /\ current = parent[p]
                      /\ state[p] = "ZOMBIE" => state'[p] \in {"ZOMBIE", "UNUSED"}
    OBVIOUS
  <2>1. CASE Born
    BY <2>1 DEF Born, IInv, TypeOK
  <2>2. CASE Freed
    BY <2>2 DEF Freed, IInv, TypeOK
  <2>3. CASE SameProcesses
    BY <2>3 DEF SameProcesses
  <2> QED
    BY <2>1, <2>2, <2>3, BirthsAndDeaths
<1> QED
  BY <1>1, Invariance, PTL DEF Spec, ReapedByParentOnly

(* idleproc and initproc are two.                                             *)
LEMMA KernelThreads ==
    IsFiniteSet({idleproc, initproc}) /\ Cardinality({idleproc, initproc}) = 2
<1>1. {idleproc, initproc} = {idleproc} \cup {initproc} /\ initproc \notin {idleproc}
  BY ProcessAssumption
<1>2. IsFiniteSet({idleproc}) /\ Cardinality({idleproc}) = 1
  BY FS_Singleton
<1>3. IsFiniteSet({idleproc} \cup {initproc})
      /\ Cardinality({idleproc} \cup {initproc}) = Cardinality({idleproc}) + 1
  BY <1>1, <1>2, FS_AddElement
<1> QED
  BY <1>1, <1>2, <1>3

(* nr_process counts the existing processes, so do_fork's limit is enforced on *)
(* what it is meant to limit and init_main's assertion about it can be met.   *)
THEOREM CountCorrect == Spec => []CountExact
<1> DEFINE Existing == {p \in Proc : state[p] # "UNUSED"}
<1>1. IsFiniteSet(Proc)
  <2>1. IsFiniteSet({idleproc, initproc})
    BY KernelThreads
  <2> QED
    BY <2>1, FS_Union, ProcessAssumption, FiniteAssumption
<1>2. Init => CountExact
  <2> SUFFICES ASSUME Init PROVE CountExact
    OBVIOUS
  <2>1. PICK u \in User :
           state = [p \in Proc |-> IF p \in {u, idleproc, initproc} THEN "RUNNABLE" ELSE "UNUSED"]
    BY DEF Init
  <2>2. Existing = ({u} \cup {idleproc}) \cup {initproc}
    BY <2>1, ProcessAssumption
  <2>3. IsFiniteSet({u}) /\ Cardinality({u}) = 1
    BY FS_Singleton
  <2>4. IsFiniteSet({u} \cup {idleproc}) /\ Cardinality({u} \cup {idleproc}) = 2
    <3>1. idleproc \notin {u}
      BY ProcessAssumption
    <3>2. Cardinality({u} \cup {idleproc}) = Cardinality({u}) + 1
      BY <2>3, <3>1, FS_AddElement
    <3> QED
      BY <2>3, <3>2, FS_AddElement
  <2>5. Cardinality(Existing) = 3
    <3> DEFINE Two == {u} \cup {idleproc}
    <3>1. initproc \notin Two /\ IsFiniteSet(Two) /\ Cardinality(Two) = 2
      BY <2>4, ProcessAssumption
    <3>2. Existing = Two \cup {initproc}
      BY <2>2
    <3> HIDE DEF Two
    <3>3. Cardinality(Two \cup {initproc}) = Cardinality(Two) + 1
      BY <3>1, FS_AddElement
    <3> QED
      BY <3>1, <3>2, <3>3
  <2> QED
    BY <2>5 DEF Init, CountExact
<1>3. IInv /\ CountExact /\ [Next]_vars => CountExact'
  <2> SUFFICES ASSUME IInv, CountExact, [Next]_vars PROVE CountExact'
    OBVIOUS
  <2>1. IsFiniteSet(Existing)
    BY <1>1, FS_Subset
  <2>2. CASE Born
    <3>1. PICK c \in Proc : /\ state[c] = "UNUSED"
                            /\ state' = [state EXCEPT ![c] = "RUNNABLE"]
                            /\ nr_process' = nr_process + 1
      BY <2>2 DEF Born
    <3>2. Existing' = Existing \cup {c} /\ c \notin Existing
      BY <3>1 DEF IInv, TypeOK
    <3>3. Cardinality(Existing') = Cardinality(Existing) + 1
      BY <2>1, <3>2, FS_AddElement
    <3> QED
      BY <3>1, <3>3 DEF CountExact
  <2>3. CASE Freed
    <3>1. PICK c \in Proc : /\ state[c] = "ZOMBIE"
                            /\ state' = [state EXCEPT ![c] = "UNUSED"]
                            /\ nr_process' = nr_process - 1
      BY <2>3 DEF Freed
    <3>2. Existing' = Existing \ {c} /\ c \in Existing
      BY <3>1 DEF IInv, TypeOK
    <3>3. Cardinality(Existing') = Cardinality(Existing) - 1
      BY <2>1, <3>2, FS_RemoveElement
    <3> QED
      BY <3>1, <3>3 DEF CountExact
  <2>4. CASE SameProcesses
    <3>1. Existing' = Existing
      BY <2>4 DEF SameProcesses
    <3> QED
      BY <2>4, <3>1 DEF CountExact, SameProcesses
  <2> QED
    BY <2>2, <2>3, <2>4, BirthsAndDeaths
<1> QED
  BY <1>2, <1>3, Invariance, PTL DEF Spec

-----------------------------------------------------------------------------
(* The end of init_main.                                                     *)

(* The parents of the user processes lead to initproc: a rank grows from     *)
(* every parent to its children, and initproc's is the lowest.  A process in *)
(* a ring of parents would never be handed to initproc, and init_main would  *)
(* leave its loop with the process still there.                              *)
Ranks(r) == /\ r \in [Proc -> Nat] /\ r[initproc] = 0
            /\ \A p \in User : state[p] # "UNUSED" => r[parent[p]] < r[p]

QuitInv == /\ \E r : Ranks(r)
           /\ \A p \in User : state[p] # "UNUSED" => parent[p] # idleproc
           /\ halted = "QUIT" => \A p \in User : state[p] = "UNUSED"

(* A user process creates a child of its own, or nobody appears and only     *)
(* initproc gets new children.                                               *)
Forks == \E p, c \in User : /\ state[p] # "UNUSED" /\ state[c] = "UNUSED"
                            /\ state' = [state EXCEPT ![c] = "RUNNABLE"]
                            /\ parent' = [parent EXCEPT ![c] = p]

Adopts == \A q \in User : state'[q] # "UNUSED" =>
              state[q] # "UNUSED" /\ parent'[q] \in {parent[q], initproc}

(* init_main leaves its loop only when do_wait finds no child.               *)
Leaves == halted' = "QUIT" =>
              UNCHANGED state /\ (halted = "QUIT" \/ Children(initproc) = {})

(* A call of do_wait frees, and init_main's may end its loop.                *)
LEMMA WaitAdopts ==
    ASSUME IInv, NEW p \in Proc, current = p, ~scheduling, halted = "NO",
           NEW who, p = initproc => who = Proc, do_wait(p, who)
    PROVE  Adopts /\ Leaves
<1> USE ProcessAssumption
<1>1. state[p] = "RUNNABLE"
  BY DEF IInv, RunnerOK
<1>2. ASSUME NEW c \in WaitsFor(p, who), state[c] = "ZOMBIE", Reap(p, c)
      PROVE  Adopts /\ Leaves
  <2>1. /\ state' = [state EXCEPT ![c] = "UNUSED"]
        /\ parent' = [parent EXCEPT ![c] = idleproc]
        /\ halted' = "NO"
    BY <1>2 DEF Reap
  <2> QED
    BY <2>1 DEF Adopts, Leaves, IInv, TypeOK
<1>3. CASE Sleep(p, "CHILD") /\ parent' = parent /\ halted' = halted
  BY <1>1, <1>3 DEF Sleep, Adopts, Leaves, IInv, TypeOK
<1>4. CASE /\ WaitsFor(p, who) = {} /\ UNCHANGED tableVars
           /\ p # initproc => halted' = halted
  <2>1. Children(p) \subseteq Proc
    BY DEF Children
  <2>2. p = initproc => Children(p) = {}
    BY <1>4, <2>1 DEF WaitsFor
  <2> QED
    BY <1>4, <2>2 DEF tableVars, Adopts, Leaves
<1> QED
  BY <1>2, <1>3, <1>4 DEF do_wait

(* exit hands the children over.                                             *)
LEMMA ExitAdopts ==
    ASSUME IInv, NEW p \in Proc, current = p, ~scheduling, halted = "NO", do_exit(p)
    PROVE  Adopts /\ Leaves
<1> USE ProcessAssumption
<1>1. CASE p = initproc
  BY <1>1 DEF do_exit, tableVars, Adopts, Leaves
<1>2. CASE p # initproc
  <2>1. /\ halted' = "NO"
        /\ \A q \in Proc : parent'[q] \in {parent[q], initproc}
    BY <1>2 DEF do_exit, ParentAfterExit
  <2>2. SameProcesses
    BY ExitProcesses
  <2> QED
    BY <2>1, <2>2 DEF Adopts, Leaves, SameProcesses
<1> QED
  BY <1>1, <1>2

(* Every step forks or adopts, and only do_wait lets init_main leave.        *)
LEMMA ForksAndAdopts ==
    ASSUME IInv, [Next]_vars
    PROVE  (Forks \/ Adopts) /\ Leaves
<1> USE ProcessAssumption
<1>1. ASSUME SameProcesses, UNCHANGED parent, halted' # "QUIT"
      PROVE  Adopts /\ Leaves
  BY <1>1 DEF SameProcesses, Adopts, Leaves
<1>2. ASSUME UNCHANGED <<state, parent, halted>>
      PROVE  Adopts /\ Leaves
  BY <1>2 DEF Adopts, Leaves
<1>3. CASE init_main
  <2>1. current = initproc /\ ~scheduling /\ halted = "NO" /\ do_wait(initproc, Proc)
    BY <1>3 DEF init_main, At
  <2> QED
    BY <2>1, WaitAdopts
<1>4. CASE tick_kernel \/ \E p \in Proc : tick_user(p)
  <2>1. tick /\ halted = "NO"
    BY <1>4 DEF tick_kernel, tick_user, At
  <2>2. UNCHANGED <<parent, halted>>
    BY <2>1, Zenon DEF tick
  <2> QED
    BY <1>1, <2>1, <2>2, TickProcesses
<1>5. ASSUME NEW p \in Proc, sys_fork(p)
      PROVE  (Forks \/ Adopts) /\ Leaves
  <2>1. /\ p \in User /\ current = p /\ halted = "NO" /\ halted' = "NO"
        /\ state[p] # "UNUSED"
    BY <1>5 DEF sys_fork, At, IInv, PlaceOK, RunnerOK
  <2>2. CASE UNCHANGED <<tableVars, schedVars>>
    BY <1>2, <2>1, <2>2 DEF tableVars
  <2>3. ASSUME NEW c \in User, state[c] = "UNUSED",
               state' = [state EXCEPT ![c] = "RUNNABLE"],
               parent' = [parent EXCEPT ![c] = p]
        PROVE  Forks /\ Leaves
    BY <2>1, <2>3 DEF Forks, Leaves
  <2> QED
    BY <1>5, <2>2, <2>3 DEF sys_fork
<1>6. ASSUME NEW p \in Proc, sys_exit(p)
      PROVE  Adopts /\ Leaves
  BY <1>6, ExitAdopts DEF sys_exit, At
<1>7. ASSUME NEW p \in Proc, sys_wait(p)
      PROVE  Adopts /\ Leaves
  <2>1. p \in User /\ current = p /\ ~scheduling /\ halted = "NO"
    BY <1>7 DEF sys_wait, At, IInv, PlaceOK
  <2> QED
    BY <1>7, <2>1, WaitAdopts DEF sys_wait
<1>8. ASSUME NEW p \in Proc, wait_resume(p)
      PROVE  Adopts /\ Leaves
  <2>1. /\ current = p /\ ~scheduling /\ halted = "NO"
        /\ p = initproc => wait_for[p] = Proc
    BY <1>8 DEF wait_resume, At, IInv, InitOK
  <2> QED
    BY <1>8, <2>1, ExitAdopts, WaitAdopts DEF wait_resume
<1>9. ASSUME NEW p \in Proc, sys_kill(p) \/ sys_sleep(p) \/ sys_read(p) \/ read_resume(p)
      PROVE  Adopts /\ Leaves
  <2>1. halted' # "QUIT" /\ UNCHANGED parent
    BY <1>9 DEF sys_kill, sys_sleep, sys_read, read_resume, At
  <2>2. SameProcesses
    <3>1. CASE sys_kill(p)
      BY <3>1, KillProcesses
    <3>2. CASE sys_sleep(p) \/ sys_read(p) \/ read_resume(p)
      BY <3>2, SleepProcesses
    <3> QED
      BY <1>9, <3>1, <3>2
  <2> QED
    BY <1>1, <2>1, <2>2
<1>10. ASSUME NEW p \in Proc, trap_tail(p)
       PROVE  Adopts /\ Leaves
  <2>1. /\ current = p /\ ~scheduling /\ halted = "NO"
        /\ do_exit(p) \/ UNCHANGED <<state, parent, halted>>
    BY <1>10 DEF trap_tail, At, tableVars
  <2> QED
    BY <1>2, <2>1, ExitAdopts
<1>11. schedule \/ cpu_idle \/ UNCHANGED vars \/ (\E p \in Proc : sys_yield(p) \/ sleep_resume(p))
          => UNCHANGED <<state, parent, halted>>
  BY DEF schedule, cpu_idle, vars, sys_yield, sleep_resume, tableVars
<1> QED
  BY <1>2, <1>3, <1>4, <1>5, <1>6, <1>7, <1>8, <1>9, <1>10, <1>11 DEF Next, Syscall, Resume

(* If any user process is left, one is a child of initproc: the one of lowest *)
(* rank.                                                                      *)
LEMMA SomebodyIsInitsChild ==
    ASSUME IInv, QuitInv, NEW q \in User, state[q] # "UNUSED"
    PROVE  Children(initproc) # {}
<1> USE ProcessAssumption
<1>1. PICK r : Ranks(r)
  BY DEF QuitInv
<1> DEFINE R == OpToRel(<, Nat)
           heights == {n \in Nat : \E p \in User : state[p] # "UNUSED" /\ n = r[p]}
<1>2. IsWellFoundedOn(R, Nat)
  BY NatLessThanWellFounded, Zenon DEF OpToRel
<1>3. heights \subseteq Nat /\ heights # {}
  BY <1>1 DEF Ranks
<1>4. PICK n \in heights : \A m \in heights : <<m, n>> \notin R
  <2> HIDE DEF R, heights
  <2> QED
    BY <1>2, <1>3, WFMin
<1>5. PICK p \in User : state[p] # "UNUSED" /\ n = r[p]
  BY <1>4
<1>6. parent[p] \in Proc /\ state[parent[p]] # "UNUSED" /\ r[parent[p]] < r[p]
  BY <1>1, <1>5 DEF Ranks, IInv, TypeOK, ParentsAlive
<1>7. parent[p] \notin User
  <2> SUFFICES ASSUME parent[p] \in User PROVE FALSE
    OBVIOUS
  <2>1. r[parent[p]] \in heights /\ r[parent[p]] \in Nat /\ n \in Nat
    BY <1>1, <1>3, <1>4, <1>6 DEF Ranks
  <2>2. <<r[parent[p]], n>> \in R
    BY <1>5, <1>6, <2>1 DEF OpToRel
  <2> QED
    BY <1>4, <2>1, <2>2
<1>8. parent[p] = initproc
  BY <1>5, <1>6, <1>7 DEF QuitInv
<1> QED
  BY <1>5, <1>8 DEF Children

(* The ranks survive every step: a child is ranked above its parent, and who  *)
(* is adopted was above somebody.                                            *)
LEMMA QuitInvStep ==
    ASSUME IInv, QuitInv, [Next]_vars
    PROVE  QuitInv'
<1> USE ProcessAssumption
<1>1. (Forks \/ Adopts) /\ Leaves /\ TypeOK'
  BY ForksAndAdopts, NextIInv DEF IInv
<1>2. PICK r : Ranks(r)
  BY DEF QuitInv
<1>3. ASSUME Forks
      PROVE  /\ \E s : Ranks(s)'
             /\ \A q \in User : state'[q] # "UNUSED" => parent'[q] # idleproc
  <2>1. PICK p, c \in User : /\ state[p] # "UNUSED" /\ state[c] = "UNUSED"
                             /\ state' = [state EXCEPT ![c] = "RUNNABLE"]
                             /\ parent' = [parent EXCEPT ![c] = p]
    BY <1>3 DEF Forks
  <2> DEFINE s == [r EXCEPT ![c] = r[p] + 1]
  <2>2. s \in [Proc -> Nat] /\ s[initproc] = 0
    BY <1>2 DEF Ranks
  <2>3. ASSUME NEW q \in User, state'[q] # "UNUSED"
        PROVE  s[parent'[q]] < s[q] /\ parent'[q] # idleproc
    <3>1. CASE q = c
      <4>1. parent'[q] = p /\ p # c
        BY <2>1, <3>1 DEF IInv, TypeOK
      <4>2. r[p] \in Nat /\ s[p] = r[p] /\ s[c] = r[p] + 1
        BY <1>2, <4>1 DEF Ranks
      <4> QED
        BY <3>1, <4>1, <4>2
    <3>2. CASE q # c
      <4>1. state[q] # "UNUSED" /\ parent'[q] = parent[q] /\ parent[q] \in Proc
        BY <2>1, <2>3, <3>2 DEF IInv, TypeOK
      <4>2. parent[q] # c
        BY <2>1, <4>1, Unreferenced DEF FreedIsUnreferenced
      <4> QED
        BY <1>2, <3>2, <4>1, <4>2 DEF Ranks, QuitInv
    <3> QED
      BY <3>1, <3>2
  <2>4. Ranks(s)'
    BY <2>2, <2>3 DEF Ranks
  <2> QED
    BY <2>3, <2>4
<1>4. ASSUME Adopts
      PROVE  /\ Ranks(r)'
             /\ \A q \in User : state'[q] # "UNUSED" => parent'[q] # idleproc
  <2>1. ASSUME NEW q \in User, state'[q] # "UNUSED"
        PROVE  r[parent'[q]] < r[q] /\ parent'[q] # idleproc
    <3>1. state[q] # "UNUSED" /\ parent'[q] \in {parent[q], initproc}
      BY <1>4, <2>1 DEF Adopts
    <3>2. parent[q] \in Proc /\ parent[q] # idleproc
      BY <3>1 DEF QuitInv, IInv, TypeOK
    <3>3. /\ r[q] \in Nat /\ r[parent[q]] \in Nat /\ r[initproc] = 0
          /\ r[parent[q]] < r[q]
      BY <1>2, <3>1, <3>2 DEF Ranks
    <3> QED
      BY <3>1, <3>2, <3>3
  <2> QED
    BY <1>2, <2>1 DEF Ranks
<1>5. halted' = "QUIT" => \A p \in User : state'[p] = "UNUSED"
  BY <1>1, SomebodyIsInitsChild DEF Leaves, QuitInv
<1> QED
  BY <1>1, <1>3, <1>4, <1>5 DEF QuitInv

(* When init_main leaves its loop every user process is gone, however their   *)
(* parents died: its last assertions (nr_process == 2, and only its own       *)
(* kernel threads on the list) hold.                                         *)
THEOREM QuitsLast == Spec => []InitQuitsLast
<1> USE ProcessAssumption
<1>1. Init => QuitInv
  <2> SUFFICES ASSUME Init PROVE QuitInv
    OBVIOUS
  <2>1. PICK u \in User :
           /\ state = [p \in Proc |-> IF p \in {u, idleproc, initproc} THEN "RUNNABLE" ELSE "UNUSED"]
           /\ parent = [p \in Proc |-> IF p = u THEN initproc ELSE idleproc]
    BY DEF Init
  <2> DEFINE r == [p \in Proc |-> IF p = initproc THEN 0 ELSE 1]
  <2>2. Ranks(r)
    BY <2>1 DEF Ranks
  <2> HIDE DEF r
  <2>3. halted = "NO"
    BY DEF Init
  <2> QED
    BY <2>1, <2>2, <2>3 DEF QuitInv
<1>2. IInv /\ QuitInv /\ [Next]_vars => QuitInv'
  BY QuitInvStep
<1>3. IInv /\ QuitInv /\ CountExact => InitQuitsLast
  <2> SUFFICES ASSUME IInv, QuitInv, CountExact, halted = "QUIT"
               PROVE  nr_process = 2 /\ Children(initproc) = {}
    BY DEF InitQuitsLast
  <2>1. {p \in Proc : state[p] # "UNUSED"} = {idleproc, initproc}
    BY DEF IInv, QuitInv, RunnerOK, InitOK
  <2>2. nr_process = 2
    BY <2>1, KernelThreads DEF CountExact
  <2>3. Children(initproc) = {}
    BY DEF Children, IInv, QuitInv, InitOK
  <2> QED
    BY <2>2, <2>3
<1> QED
  BY <1>1, <1>2, <1>3, Invariance, CountCorrect, PTL DEF Spec

=============================================================================
