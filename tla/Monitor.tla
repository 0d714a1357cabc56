------------------------------ MODULE Monitor ------------------------------
(***************************************************************************)
(* The kernel's monitors (lab8/kern/sync/monitor.c): a mutex, a semaphore  *)
(* next on which signallers wait, and one condition variable per element   *)
(* of Cond, each with a semaphore and a count of its waiters.  A signaller *)
(* hands the monitor to the thread it wakes and gets it back when that     *)
(* thread leaves or waits again (Hoare's rule).                            *)
(*                                                                         *)
(* cond_signal and cond_wait are sequences of steps; a thread inside them  *)
(* has the condition variable in cv[p] and its return place in ret[p].     *)
(***************************************************************************)
EXTENDS Semaphore

VARIABLES next_count, \* signallers that wait on next
          count,      \* count[c]: threads that wait on condition variable c
          pc, cv, ret

monVars == <<next_count, count>>

mutex == <<"mutex", 0>>
next == <<"next", 0>>
cvsem(c) == <<"cv", c>>

At(p, place) == running = p /\ p \in ready /\ pc[p] = place

GoTo(p, place) == pc' = [pc EXCEPT ![p] = place]

Call(p, place, c, back) == /\ GoTo(p, place)
                           /\ cv' = [cv EXCEPT ![p] = c]
                           /\ ret' = [ret EXCEPT ![p] = back]

monitor_init(C) ==
    /\ sem_init([x \in {mutex, next} \cup {cvsem(c) : c \in C} |-> IF x = mutex THEN 1 ELSE 0])
    /\ next_count = 0
    /\ count = [c \in C |-> 0]

\* Leaving the monitor: a waiting signaller gets it back first.
Mutant_FreesMutex == up(mutex)
LeaveMonitor == \/ next_count > 0 /\ up(next)
                \/ next_count <= 0 /\ up(mutex)

-----------------------------------------------------------------------------
(* cond_signal(&cv[c]); without a waiter it does nothing. *)

SignalOrNot(p) ==
    \/ count[cv[p]] > 0 /\ next_count' = next_count + 1 /\ GoTo(p, "signal_up")
    \/ count[cv[p]] <= 0 /\ GoTo(p, ret[p]) /\ UNCHANGED next_count

cond_signal(p) ==
    \/ /\ At(p, "signal")
       /\ SignalOrNot(p)
       /\ UNCHANGED <<semVars, ready, count>>
    \/ /\ At(p, "signal_up")
       /\ up(cvsem(cv[p]))
       /\ GoTo(p, "signal_down")
       /\ UNCHANGED monVars
    \/ /\ At(p, "signal_down")
       /\ down(p, next)
       /\ GoTo(p, "signal_end")
       /\ UNCHANGED monVars
    \/ /\ At(p, "signal_end")
       /\ next_count' = next_count - 1
       /\ GoTo(p, ret[p])
       /\ UNCHANGED <<semVars, ready, count>>

(* cond_wait(&cv[c]). *)

cond_wait(p) ==
    \/ /\ At(p, "wait")
       /\ count' = [count EXCEPT ![cv[p]] = @ + 1]
       /\ GoTo(p, "wait_up")
       /\ UNCHANGED <<semVars, ready, next_count>>
    \/ /\ At(p, "wait_up")
       /\ LeaveMonitor
       /\ GoTo(p, "wait_down")
       /\ UNCHANGED monVars
    \/ /\ At(p, "wait_down")
       /\ down(p, cvsem(cv[p]))
       /\ GoTo(p, "wait_end")
       /\ UNCHANGED monVars
    \/ /\ At(p, "wait_end")
       /\ count' = [count EXCEPT ![cv[p]] = @ - 1]
       /\ GoTo(p, ret[p])
       /\ UNCHANGED <<semVars, ready, next_count>>

MonitorPlaces == {"signal", "signal_up", "signal_down", "signal_end",
                  "wait", "wait_up", "wait_down", "wait_end"}
=============================================================================
