----------------------------- MODULE Semaphore -----------------------------
(***************************************************************************)
(* The kernel's semaphores (lab8/kern/sync/sem.c) and the threads that use *)
(* them.  A thread is ready when it runs or could run; __down takes it     *)
(* off until __up hands it the token.                                      *)
(*                                                                         *)
(* up and down run with interrupts off, so each is one step.  WT_KSEM has  *)
(* no WT_INTERRUPTED bit and a waiter sits in no other queue: only up ends *)
(* the wait, and wait_current_del after schedule() finds nothing to do.    *)
(***************************************************************************)
EXTENDS Integers, Sequences

CONSTANT Preemptive   \* FALSE: threads run until they block, as in this kernel;
                      \* TRUE: the processor may change hands at any point

ASSUME PreemptiveAssumption == Preemptive \in BOOLEAN

VARIABLES value,      \* value[s]: tokens of semaphore s
          wait_queue, \* wait_queue[s]: the threads blocked on s, first come first
          ready,      \* the threads that are not blocked and not asleep
          running     \* the thread that has the processor

semVars == <<value, wait_queue>>

\* The threads that wait for a token of s.
Waiters(s) == {wait_queue[s][i] : i \in 1..Len(wait_queue[s])}

\* A semaphore no process has used yet.
sem_init(init) == /\ value = init
                  /\ wait_queue = [s \in DOMAIN init |-> <<>>]

\* The token is counted although somebody waits for it.
Mutant_NobodyWoken(s) ==
    /\ value' = [value EXCEPT ![s] = @ + 1]
    /\ UNCHANGED <<wait_queue, ready>>

\* __up gives the token to the first waiter, and counts it only if there is none.
up(s) ==
    \/ /\ wait_queue[s] = <<>>
       /\ value' = [value EXCEPT ![s] = @ + 1]
       /\ UNCHANGED <<wait_queue, ready>>
    \/ /\ wait_queue[s] # <<>>
       /\ wait_queue' = [wait_queue EXCEPT ![s] = Tail(@)]
       /\ ready' = ready \cup {Head(wait_queue[s])}
       /\ UNCHANGED value

\* __down takes a token or queues the thread behind the other waiters.
down(p, s) ==
    \/ /\ value[s] > 0
       /\ value' = [value EXCEPT ![s] = @ - 1]
       /\ UNCHANGED <<wait_queue, ready>>
    \/ /\ value[s] <= 0
       /\ wait_queue' = [wait_queue EXCEPT ![s] = Append(@, p)]
       /\ ready' = ready \ {p}
       /\ UNCHANGED value

\* schedule() on behalf of the threads: the next one has to be ready.  (do_sleep and
\* down call it once the thread is off; a preemptive kernel might at any time.)
Switch == /\ Preemptive \/ running \notin ready
          /\ running' \in ready \ {running}
=============================================================================
