------------------------------ MODULE MCDining ------------------------------
(***************************************************************************)
(* The two philosopher programs of check_sync: with semaphores (PhilSema)  *)
(* and with a monitor (PhilMonitor).  They share nothing but the           *)
(* processor; part says which one a behaviour shows.                       *)
(***************************************************************************)
EXTENDS PhilSema

VARIABLES part, mvalue, mwait_queue, mready, mrunning, next_count, count, mpc, cv, ret,
          state_condvar, miter

Mon == INSTANCE PhilMonitor
   WITH value <- mvalue, wait_queue <- mwait_queue, ready <- mready, running <- mrunning,
        pc <- mpc, iter <- miter

ASSUME MonitorBounds == Mon!PhilAssumption

monitorVars == <<mvalue, mwait_queue, mready, mrunning, next_count, count, mpc, cv, ret,
                 state_condvar, miter>>
mcVars == <<part, vars, monitorVars>>

MCInit == \/ part = "sema" /\ Init /\ Mon!Init /\ mrunning = 0
          \/ part = "monitor" /\ Mon!Init /\ Init /\ running = 0

Sema(A) == part = "sema" /\ A /\ UNCHANGED <<part, monitorVars>>
Monitor(A) == part = "monitor" /\ A /\ UNCHANGED <<part, vars>>

MCNext == Sema(Next) \/ Monitor(Mon!Next)

\* The fairness of each program.
MCSpec == /\ MCInit /\ [][MCNext]_mcVars
          /\ WF_mcVars(MCNext)
          /\ WF_mcVars(Sema(\E i \in Phil : philosopher(i) \/ wake(i)))
          /\ WF_mcVars(Monitor(\E i \in Phil : Mon!philosopher(i) \/ Mon!wake(i)))

\* Every philosopher of either program eats TIMES times and its thread ends, so that
\* check_sync returns.
ThreadsEnd == <>((part = "sema" /\ AllFed) \/ (part = "monitor" /\ Mon!AllFed))
=============================================================================
