---------------------------- MODULE PhilMonitor ----------------------------
(***************************************************************************)
(* The dining philosophers with a monitor (lab8/kern/sync/check_sync.c):   *)
(* philosopher i waits on condition variable i until a neighbour that puts *)
(* its forks down has set its state to EATING.                             *)
(***************************************************************************)
EXTENDS Monitor

CONSTANTS N, TIMES

PhilAssumption == N \in Nat /\ N >= 2 /\ TIMES \in Nat \ {0}

VARIABLES state_condvar,  \* THINKING, HUNGRY or EATING
          iter            \* iter[i]: rounds begun

vars == <<value, wait_queue, ready, running, monVars, pc, cv, ret, state_condvar, iter>>

Phil == 0..(N - 1)
LEFT(i) == (i - 1 + N) % N
RIGHT(i) == (i + 1) % N
Sem == {mutex, next} \cup {cvsem(i) : i \in Phil}

Set(i, st) == state_condvar' = [state_condvar EXCEPT ![i] = st]

\* phi_test_condvar(j) called by thread i, which goes on at back.
MayEat(j) == /\ state_condvar[j] = "HUNGRY"
             /\ state_condvar[LEFT(j)] # "EATING" /\ state_condvar[RIGHT(j)] # "EATING"

phi_test_condvar(i, j, back) ==
    \/ MayEat(j) /\ Set(j, "EATING") /\ Call(i, "signal", j, back)
    \/ ~MayEat(j) /\ GoTo(i, back) /\ UNCHANGED <<state_condvar, cv, ret>>

-----------------------------------------------------------------------------
(* philosopher_using_condvar. *)

\* do_sleep takes the thread off until a timer fires; after the last round the
\* thread exits.
think(i) ==
    /\ At(i, "think")
    /\ \/ iter[i] < TIMES /\ iter' = [iter EXCEPT ![i] = @ + 1] /\ GoTo(i, "take")
       \/ iter[i] >= TIMES /\ GoTo(i, "quit") /\ UNCHANGED iter
    /\ ready' = ready \ {i}
    /\ UNCHANGED <<semVars, running, monVars, cv, ret, state_condvar>>

eat(i) == /\ At(i, "eat")
          /\ GoTo(i, "put")
          /\ ready' = ready \ {i}
          /\ UNCHANGED <<semVars, running, monVars, cv, ret, state_condvar, iter>>

\* The timer of do_sleep fires.
wake(i) == /\ pc[i] \in {"take", "put"} /\ i \notin ready
           /\ ready' = ready \cup {i}
           /\ UNCHANGED <<semVars, running, monVars, pc, cv, ret, state_condvar, iter>>

\* phi_take_forks_condvar.
take(i) == /\ At(i, "take")
           /\ down(i, mutex)
           /\ GoTo(i, "hungry")
           /\ UNCHANGED <<running, monVars, cv, ret, state_condvar, iter>>

hungry(i) == /\ At(i, "hungry")
             /\ Set(i, "HUNGRY")
             /\ GoTo(i, "test")
             /\ UNCHANGED <<semVars, ready, running, monVars, cv, ret, iter>>

test(i) == /\ At(i, "test")
           /\ phi_test_condvar(i, i, "tested")
           /\ UNCHANGED <<semVars, ready, running, monVars, iter>>

Mutant_NeverWaits(i) == GoTo(i, "leave_take") /\ UNCHANGED <<cv, ret>>
WaitIfHungry(i) == IF state_condvar[i] = "HUNGRY" THEN Call(i, "wait", i, "leave_take")
                   ELSE GoTo(i, "leave_take") /\ UNCHANGED <<cv, ret>>

tested(i) == /\ At(i, "tested")
             /\ WaitIfHungry(i)
             /\ UNCHANGED <<semVars, ready, running, monVars, state_condvar, iter>>

leave_take(i) == /\ At(i, "leave_take")
                 /\ LeaveMonitor
                 /\ GoTo(i, "eat")
                 /\ UNCHANGED <<running, monVars, cv, ret, state_condvar, iter>>

\* phi_put_forks_condvar.
put(i) == /\ At(i, "put")
          /\ down(i, mutex)
          /\ GoTo(i, "putdown")
          /\ UNCHANGED <<running, monVars, cv, ret, state_condvar, iter>>

putdown(i) == /\ At(i, "putdown")
              /\ Set(i, "THINKING")
              /\ GoTo(i, "testleft")
              /\ UNCHANGED <<semVars, ready, running, monVars, cv, ret, iter>>

testleft(i) == /\ At(i, "testleft")
               /\ phi_test_condvar(i, LEFT(i), "testright")
               /\ UNCHANGED <<semVars, ready, running, monVars, iter>>

testright(i) == /\ At(i, "testright")
                /\ phi_test_condvar(i, RIGHT(i), "leave_put")
                /\ UNCHANGED <<semVars, ready, running, monVars, iter>>

leave_put(i) == /\ At(i, "leave_put")
                /\ LeaveMonitor
                /\ GoTo(i, "think")
                /\ UNCHANGED <<running, monVars, cv, ret, state_condvar, iter>>

monitor(i) == /\ cond_signal(i) \/ cond_wait(i)
              /\ UNCHANGED <<running, cv, ret, state_condvar, iter>>

-----------------------------------------------------------------------------
\* check_sync has created the threads and waits for them.
Init == /\ monitor_init(Phil)
        /\ ready = Phil /\ running \in Phil
        /\ state_condvar = [i \in Phil |-> "THINKING"]
        /\ iter = [i \in Phil |-> 0]
        /\ pc = [i \in Phil |-> "think"]
        /\ cv = [i \in Phil |-> i]
        /\ ret = [i \in Phil |-> "think"]

philosopher(i) == \/ think(i) \/ take(i) \/ hungry(i) \/ test(i) \/ tested(i) \/ leave_take(i)
                  \/ eat(i) \/ put(i) \/ putdown(i) \/ testleft(i) \/ testright(i)
                  \/ leave_put(i) \/ monitor(i)

switch == Switch /\ UNCHANGED <<semVars, ready, monVars, pc, cv, ret, state_condvar, iter>>

\* Everybody has quit, and check_sync goes on.
AllFed == \A i \in Phil : pc[i] = "quit"
Done == AllFed /\ UNCHANGED vars

Next == switch \/ Done \/ \E i \in Phil : philosopher(i) \/ wake(i)

Spec == Init /\ [][Next]_vars

\* The processor and the timers never stop, and a thread gets to execute something between two
\* switches.  Nothing is assumed of the order in which threads get the processor.
FairSpec == Spec /\ WF_vars(Next) /\ WF_vars(\E i \in Phil : philosopher(i) \/ wake(i))

-----------------------------------------------------------------------------
(* Properties. *)

Places == MonitorPlaces \cup {"think", "take", "hungry", "test", "tested", "leave_take", "eat",
                              "put", "putdown", "testleft", "testright", "leave_put", "quit"}

(* Type correctness; no semaphore ever holds more than one token. *)
TypeOK ==
    /\ value \in [Sem -> 0..1]
    /\ wait_queue \in [Sem -> Seq(Phil)]
    /\ ready \in SUBSET Phil /\ running \in Phil
    /\ next_count \in 0..1
    /\ count \in [Phil -> 0..1]
    /\ state_condvar \in [Phil -> {"THINKING", "HUNGRY", "EATING"}]
    /\ iter \in [Phil -> 0..TIMES]
    /\ pc \in [Phil -> Places]
    /\ cv \in [Phil -> Phil]
    /\ ret \in [Phil -> Places]

Blocked(i) == \E x \in Sem : i \in Waiters(x)

\* Thread i owns the monitor: it is between its entry and its exit, not blocked,
\* and not between giving the monitor up and being let in again.
Owns(i) == /\ pc[i] \notin {"think", "take", "eat", "put", "quit", "signal_down", "wait_down"}
           /\ ~Blocked(i)

\* At most one thread owns the monitor, whoever hands it to whom.
MonitorExclusive == \A i, j \in Phil : Owns(i) /\ Owns(j) => i = j

\* A thread that comes back from cond_wait finds its condition true without
\* testing it again: nobody got in between signal and wake-up.
ConditionHolds == \A i \in Phil : pc[i] = "wait_end" /\ ~Blocked(i) => state_condvar[i] = "EATING"

\* Philosopher i is eating: it has left phi_take_forks_condvar and has not put its
\* forks down yet.
Eating(i) == pc[i] \in {"eat", "put", "putdown"}

\* Neighbours never eat at the same time.
ForksExclusive == \A i \in Phil : Eating(i) => ~Eating(LEFT(i)) /\ ~Eating(RIGHT(i))

\* When the monitor is free, a hungry philosopher has an eating neighbour.
NobodyForgotten ==
    value[mutex] = 1 =>
       \A i \in Phil : state_condvar[i] = "HUNGRY" =>
          state_condvar[LEFT(i)] = "EATING" \/ state_condvar[RIGHT(i)] = "EATING"

\* The rounds philosopher i has finished: it is in one as long as its forks, or
\* its wish for them, stand.
Meals(i) == IF state_condvar[i] = "THINKING" /\ pc[i] \notin {"take", "hungry"}
            THEN iter[i] ELSE iter[i] - 1

Phase(i) == IF Eating(i) THEN "eating"
            ELSE IF state_condvar[i] = "THINKING" THEN "thinking" ELSE "hungry"

Table == INSTANCE Dining WITH phase <- [h \in Phil |-> Phase(h)],
                              meals <- [h \in Phil |-> Meals(h)]

\* The threads implement the abstract table.
MonitorImplementsDining == Table!Spec

\* Every philosopher eats TIMES times and its thread ends, so check_sync returns.
Terminates == <>AllFed

\* What holds of the monitor and of the table between any two steps.
MonitorInv == TypeOK /\ MonitorExclusive /\ ConditionHolds /\ ForksExclusive /\ NobodyForgotten
=============================================================================
