------------------------------- MODULE Timer -------------------------------
(***************************************************************************)
(* do_sleep on top of the timer list: processes go to sleep for a number   *)
(* of ticks, the timer interrupt fires their timers, and a process that    *)
(* do_kill wakes early removes its own timer when it runs again.           *)
(*                                                                         *)
(* now and deadline are history variables: the code keeps no absolute      *)
(* times, and the properties say that it does not need to.                 *)
(***************************************************************************)
EXTENDS TimerList

CONSTANTS MaxSleep,          \* bound on the argument of do_sleep
          MaxNow             \* bound on the number of ticks explored

ASSUME TimerAssumption == MaxSleep \in Nat \ {0} /\ MaxNow \in Nat

VARIABLES in_sleep,          \* processes between add_timer and del_timer in do_sleep
          now, deadline      \* history: ticks so far; the tick p asked to be woken at

vars == <<timer_list, expires, in_sleep, now, deadline>>

Init == /\ TimerInit
        /\ in_sleep = {}
        /\ now = 0
        /\ deadline = [p \in Proc |-> 0]

\* do_sleep up to its call of schedule(); do_sleep(0) returns at once.
do_sleep(p) ==
    /\ p \notin in_sleep
    /\ \E t \in 1..MaxSleep : /\ add_timer(p, t)
                              /\ deadline' = [deadline EXCEPT ![p] = now + t]
    /\ in_sleep' = in_sleep \cup {p}
    /\ UNCHANGED now

\* do_sleep once schedule() has returned: after the timer fired, or earlier
\* when do_kill made the process runnable.
do_sleep_return(p) ==
    /\ p \in in_sleep
    /\ del_timer(p)
    /\ in_sleep' = in_sleep \ {p}
    /\ deadline' = [deadline EXCEPT ![p] = 0]
    /\ UNCHANGED now

\* The part of the timer interrupt that works on the list.
run_timer_list ==
    /\ now < MaxNow
    /\ now' = now + 1
    /\ \E k \in 0..Len(timer_list) : Fires(k) /\ ExpireFirst(k)
    /\ UNCHANGED <<in_sleep, deadline>>

Next == run_timer_list \/ \E p \in Proc : do_sleep(p) \/ do_sleep_return(p)

Spec == Init /\ [][Next]_vars

-----------------------------------------------------------------------------
(* Type correctness: a list of processes without repetition, natural deltas. *)
TypeOK == /\ timer_list \in Seq(Proc)
          /\ expires \in [Proc -> Nat]
          /\ in_sleep \in SUBSET Proc
          /\ now \in Nat
          /\ deadline \in [Proc -> Nat]

\* No timer is linked twice, and every linked timer belongs to a process that
\* is still inside do_sleep: the timer lives on that call's stack, so a link
\* that outlived the call would dangle (do_sleep's del_timer prevents it).
LinksAlive ==
    /\ \A i, j \in DOMAIN timer_list : i # j => timer_list[i] # timer_list[j]
    /\ \A i \in DOMAIN timer_list : timer_list[i] \in in_sleep

\* The deltas always encode the deadlines the processes asked for, whatever
\* insertions and early removals happened in between.  In particular the first
\* delta is never 0, which run_timer_list asserts (sched.c:178).
DeltasEncodeDeadlines ==
    \A i \in DOMAIN timer_list :
       LET p == timer_list[i] IN
       IF i = 1 THEN /\ expires[p] = deadline[p] - now
                     /\ expires[p] > 0
                ELSE expires[p] = deadline[p] - deadline[timer_list[i - 1]]

\* The list is ordered by deadline, and no linked timer is overdue.
FiresInOrder ==
    \A i, j \in DOMAIN timer_list :
       /\ deadline[timer_list[i]] > now
       /\ i < j => deadline[timer_list[i]] <= deadline[timer_list[j]]

\* An alarm that rang is not forgotten: a process inside do_sleep whose timer
\* is no longer linked has reached its deadline.
NoEarlyFire ==
    \A p \in in_sleep : ~Linked(p) => deadline[p] <= now

\* The timer list implements the alarm clock.
AC == INSTANCE AlarmClock WITH
        alarm <- [p \in Proc |-> IF Linked(p) THEN deadline[p] ELSE 0],
        rung  <- {p \in in_sleep : ~Linked(p)}
ImplementsAlarmClock == AC!Spec
=============================================================================
