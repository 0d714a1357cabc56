----------------------------- MODULE TimerList -----------------------------
(***************************************************************************)
(* The kernel's timer list (lab8/kern/schedule/sched.c).                   *)
(*                                                                         *)
(* timer_list holds the timers of the sleeping processes in the order they *)
(* fire.  A timer's "expires" field counts ticks FROM ITS PREDECESSOR, not *)
(* from now, so one decrement of the first timer per tick ages them all.   *)
(* A process has at most one timer, a local variable of do_sleep, so a     *)
(* timer is named by its process.                                          *)
(*                                                                         *)
(* Interrupts are off in all three operations, so each is one step.        *)
(***************************************************************************)
EXTENDS Integers, Sequences

CONSTANT Proc                \* the processes that may sleep

VARIABLES timer_list,        \* processes that own a linked timer, next to fire first
          expires            \* expires[p]: p's ticks after its predecessor's expiry

timerVars == <<timer_list, expires>>

\* The timer link of p is on the list: !list_empty(&timer->timer_link).
Linked(p) == \E i \in DOMAIN timer_list : timer_list[i] = p

InsertAfter(s, k, e) ==
    [i \in 1..(Len(s) + 1) |-> IF i <= k THEN s[i]
                               ELSE IF i = k + 1 THEN e ELSE s[i - 1]]

RemoveIndex(s, k) ==
    [i \in 1..(Len(s) - 1) |-> IF i < k THEN s[i] ELSE s[i + 1]]

DropFirst(s, k) == [i \in 1..(Len(s) - k) |-> s[i + k]]

-----------------------------------------------------------------------------
TimerInit == /\ timer_list = <<>>
             /\ expires = [p \in Proc |-> 0]

(***************************************************************************)
(* add_timer walks past every timer that fires no later than the new one.  *)
(* w[i] is the value of timer->expires once i timers have been passed; the *)
(* walk ends behind the k-th timer, and the timer it stops in front of     *)
(* then counts from the new one.                                           *)
(***************************************************************************)
Passed(w, k) == \A i \in 1..k : w[i] = w[i - 1] - expires[timer_list[i]]

Mutant_SuccessorKeepsTicks(p, t) ==
    \E k \in 0..Len(timer_list) : \E w \in [0..k -> 0..t] :
       /\ w[0] = t
       /\ Passed(w, k)
       /\ k < Len(timer_list) => w[k] < expires[timer_list[k + 1]]
       /\ timer_list' = InsertAfter(timer_list, k, p)
       /\ expires' = [expires EXCEPT ![p] = w[k]]

add_timer(p, t) ==
    \E k \in 0..Len(timer_list) : \E w \in [0..k -> 0..t] :
       /\ w[0] = t
       /\ Passed(w, k)
       /\ k < Len(timer_list) => w[k] < expires[timer_list[k + 1]]
       /\ timer_list' = InsertAfter(timer_list, k, p)
       /\ expires' = [q \in Proc |->
             IF q = p THEN w[k]
             ELSE IF k < Len(timer_list) /\ q = timer_list[k + 1]
                  THEN expires[q] - w[k]
                  ELSE expires[q]]

(***************************************************************************)
(* del_timer unlinks a timer and gives its remaining ticks to its          *)
(* successor; it does nothing to a timer that has fired.  The field of an  *)
(* unlinked timer is dead (do_sleep returns) and is modelled as 0.         *)
(***************************************************************************)
Mutant_NotUnlinked(p) == UNCHANGED timerVars

del_timer(p) ==
    \/ /\ ~Linked(p)
       /\ UNCHANGED timerVars
    \/ \E k \in 1..Len(timer_list) :
          /\ timer_list[k] = p
          /\ timer_list' = RemoveIndex(timer_list, k)
          /\ expires' = [q \in Proc |->
                IF q = p THEN 0
                ELSE IF k < Len(timer_list) /\ q = timer_list[k + 1]
                     THEN expires[q] + expires[p]
                     ELSE expires[q]]

(***************************************************************************)
(* One tick: the first timer is decremented, and while the first timer is  *)
(* at 0 it is unlinked and its process woken.  Fires(k) says that the loop *)
(* removes the first k timers.                                             *)
(***************************************************************************)
Aged(i) == expires[timer_list[i]] - (IF i = 1 THEN 1 ELSE 0)

Mutant_FiresOne(k) ==
    k = IF timer_list # <<>> /\ Aged(1) = 0 THEN 1 ELSE 0

Fires(k) == /\ k \in 0..Len(timer_list)
            /\ \A i \in 1..k : Aged(i) = 0
            /\ k < Len(timer_list) => Aged(k + 1) # 0

ExpireFirst(k) ==
    /\ timer_list' = DropFirst(timer_list, k)
    /\ expires' = [q \in Proc |->
          IF timer_list # <<>> /\ q = timer_list[1] THEN expires[q] - 1
          ELSE expires[q]]
=============================================================================
