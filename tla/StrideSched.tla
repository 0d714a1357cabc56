----------------------------- MODULE StrideSched -----------------------------
(***************************************************************************)
(* The stride scheduling class of lab8 and the scheduler core that calls   *)
(* it: processes are forked, run, give up the processor, sleep, are woken  *)
(* and exit.  Strides are unsigned integers of Width bits (32 in the code) *)
(* compared by the sign of their difference; the ready processes are kept  *)
(* in a skew heap.  Why a process blocks or is woken is left open here:    *)
(* Process models that.                                                    *)
(***************************************************************************)
EXTENDS Integers, FiniteSets, SkewHeap

CONSTANTS idleproc,
          initproc,      \* the process that is there first and never exits
          Width,         \* bits of a stride
          Priorities,    \* what user programs give lab6_set_priority
          Sleepers,      \* processes that may sleep and be woken
          MayExit        \* processes other than initproc may exit

StrideAssumption ==
    /\ Width \in Nat /\ Width > 2
    /\ Priorities \in SUBSET (Nat \ {0}) /\ Priorities # {}
    /\ Sleepers \subseteq Node /\ MayExit \in BOOLEAN
    /\ idleproc \notin Node \cup {NULL} /\ initproc \in Node

Proc == Node
Modulus == 2^Width
BIG_STRIDE == 2^(Width - 2)
\* User programs stay in a range where the stride moves at all.
PriorityBound == \A n \in Priorities : n <= BIG_STRIDE

VARIABLES state,          \* "absent", "runnable" or "sleeping"
          current,
          lab6_stride, lab6_priority,
          heap,           \* the lab6_run_pool links of all processes
          lab6_run_pool,  \* the root of the heap
          proc_num

vars == <<state, current, lab6_stride, lab6_priority, heap, lab6_run_pool, proc_num>>

-----------------------------------------------------------------------------
(* The scheduling class. *)

\* Pairs for which proc_stride_comp_f returns -1: the difference, taken
\* modulo the width and read as a signed number, is negative.
proc_stride_comp_f(stride) ==
    {<<a, b>> \in Node \X Node : (stride[a] - stride[b]) % Modulus >= Modulus \div 2}

\* What a pick adds to the stride.  The unsigned division of the target gives
\* all ones for the divisor 0.
Pass(p) == IF lab6_priority[p] = 0 THEN Modulus - 1
           ELSE BIG_STRIDE \div lab6_priority[p]

\* stride_enqueue and stride_dequeue on a run queue given as a record.
stride_enqueue(q, p, stride) ==
    LET ins == skew_heap_insert(q.heap, q.root, p, proc_stride_comp_f(stride))
    IN [heap |-> ins.heap, root |-> ins.root, num |-> q.num + 1]

stride_dequeue(q, p, stride) ==
    LET rem == skew_heap_remove(q.heap, q.root, p, proc_stride_comp_f(stride))
    IN [heap |-> rem.heap, root |-> rem.root, num |-> q.num - 1]

\* The stride stays; the stride moves by the same amount for everybody.
Mutant_NoAdvance(p) == lab6_stride
Mutant_SameForAll(p) == [lab6_stride EXCEPT ![p] = (@ + BIG_STRIDE) % Modulus]

\* stride_pick_next moves the stride of the root, which stays in the heap.
stride_pick_next(p) == [lab6_stride EXCEPT ![p] = (@ + Pass(p)) % Modulus]

Queue == [heap |-> heap, root |-> lab6_run_pool, num |-> proc_num]
SetQueue(q) == /\ heap' = q.heap
               /\ lab6_run_pool' = q.root
               /\ proc_num' = q.num

-----------------------------------------------------------------------------
(* The scheduler core. *)

\* schedule() with the run queue as it is after the current process went
\* back to it, or did not.  (The quantifiers only name a value.)
PickFrom(queue) ==
    \E q \in {queue} :
       IF q.root = NULL
       THEN /\ current' = idleproc
            /\ SetQueue(q)
            /\ UNCHANGED lab6_stride
       ELSE /\ current' = q.root
            /\ lab6_stride' = stride_pick_next(q.root)
            /\ \E rest \in {stride_dequeue(q, q.root, stride_pick_next(q.root))} :
                  SetQueue(rest)

\* The current process gives up the processor and stays runnable: do_yield,
\* or the end of its time slice.
yield(p) ==
    /\ current = p
    /\ PickFrom(stride_enqueue(Queue, p, lab6_stride))
    /\ UNCHANGED <<state, lab6_priority>>

sleep(p) ==
    /\ p \in Sleepers
    /\ current = p
    /\ state' = [state EXCEPT ![p] = "sleeping"]
    /\ PickFrom(Queue)
    /\ UNCHANGED lab6_priority

\* An event makes a sleeping process runnable; a current one is never asleep
\* when an interrupt comes, since schedule() follows at once.
wakeup_proc(p) ==
    /\ state[p] = "sleeping"
    /\ state' = [state EXCEPT ![p] = "runnable"]
    /\ SetQueue(stride_enqueue(Queue, p, lab6_stride))
    /\ UNCHANGED <<current, lab6_stride, lab6_priority>>

\* do_fork: alloc_proc sets stride and priority to 0 and the child is woken.
do_fork(p, child) ==
    /\ current = p
    /\ state[child] = "absent"
    /\ state' = [state EXCEPT ![child] = "runnable"]
    /\ lab6_stride' = [lab6_stride EXCEPT ![child] = 0]
    /\ lab6_priority' = [lab6_priority EXCEPT ![child] = 0]
    /\ SetQueue(stride_enqueue(Queue, child, lab6_stride'))
    /\ UNCHANGED current

\* do_exit switches away for good.
do_exit(p) ==
    /\ MayExit
    /\ current = p /\ p # initproc
    /\ state' = [state EXCEPT ![p] = "absent"]
    /\ PickFrom(Queue)
    /\ UNCHANGED lab6_priority

\* A system call of the current process; 0 is turned into 1.
lab6_set_priority(p, n) ==
    /\ current = p
    /\ lab6_priority' = [lab6_priority EXCEPT ![p] = n]
    /\ UNCHANGED <<state, current, lab6_stride, heap, lab6_run_pool, proc_num>>

\* cpu_idle calls schedule() whenever need_resched is set, which every tick does.
cpu_idle ==
    /\ current = idleproc
    /\ lab6_run_pool # NULL
    /\ PickFrom(Queue)
    /\ UNCHANGED <<state, lab6_priority>>

Next == \/ cpu_idle
        \/ \E p \in Proc :
              \/ yield(p) \/ sleep(p) \/ wakeup_proc(p) \/ do_exit(p)
              \/ \E child \in Proc : do_fork(p, child)
              \/ \E n \in Priorities : lab6_set_priority(p, n)

\* One process runs, the others are not there.  It was picked once with the
\* stride 0 and the priority 0 of alloc_proc.
Init == /\ state = [q \in Proc |-> IF q = initproc THEN "runnable" ELSE "absent"]
        /\ current = initproc
        /\ lab6_stride = [q \in Proc |-> IF q = initproc THEN Modulus - 1 ELSE 0]
        /\ lab6_priority = [q \in Proc |-> 0]
        /\ heap = SkewHeapInit
        /\ lab6_run_pool = NULL
        /\ proc_num = 0

Spec == Init /\ [][Next]_vars

\* The timer preempts a process that keeps the processor, and the idle
\* process gives way.
FairSpec == Spec /\ WF_vars(cpu_idle) /\ \A p \in Proc : WF_vars(yield(p))

-----------------------------------------------------------------------------
Queued == {p \in Proc : state[p] = "runnable" /\ p # current}

(* Types; the pool counts its members. *)
TypeOK == /\ state \in [Proc -> {"absent", "runnable", "sleeping"}]
          /\ current \in Proc \cup {idleproc}
          /\ lab6_stride \in [Proc -> 0..(Modulus - 1)]
          /\ lab6_priority \in [Proc -> Nat]
          /\ heap \in Heap
          /\ lab6_run_pool \in Link
          /\ proc_num = Cardinality(Queued)

\* Whatever stale links removal leaves in the nodes it takes out, the pool is
\* a binary tree with correct parent links that holds exactly the runnable
\* processes that wait for the processor.
PoolIsTree == /\ IsTree(heap, lab6_run_pool)
              /\ Nodes(heap, lab6_run_pool) = Queued

\* The comment of stride_pick_next: it picks "the element from the
\* run-queue with the minimum value of stride".
PicksMinimum ==
    lab6_run_pool # NULL =>
      \A p \in Queued : <<p, lab6_run_pool>> \notin proc_stride_comp_f(lab6_stride)

\* Nobody starves: a process that waits for the processor gets it, although
\* strides wrap around, new processes start at 0 and sleepers come back with
\* old strides.
NoStarvation == \A p \in Proc : (p \in Queued) ~> (current = p)

\* What holds of the pool between any two steps.
Inv == TypeOK /\ PoolIsTree
=============================================================================
