------------------------------ MODULE PhilSema ------------------------------
(***************************************************************************)
(* The dining philosophers with semaphores (lab8/kern/sync/check_sync.c):  *)
(* one mutex around the table's state, one semaphore per philosopher that  *)
(* holds a token when the philosopher may eat.                             *)
(*                                                                         *)
(* pc[i] is the next statement of thread i; pc moves past a down() even if *)
(* the thread blocks in it.                                                *)
(***************************************************************************)
EXTENDS Semaphore

CONSTANTS N, TIMES

ASSUME PhilAssumption == N \in Nat /\ N >= 2 /\ TIMES \in Nat \ {0}

VARIABLES state_sema,  \* THINKING, HUNGRY or EATING, as shared under the mutex
          iter,        \* iter[i]: rounds begun
          pc

vars == <<value, wait_queue, ready, running, state_sema, iter, pc>>

Phil == 0..(N - 1)
LEFT(i) == (i - 1 + N) % N
RIGHT(i) == (i + 1) % N

mutex == <<"mutex", 0>>
s(i) == <<"s", i>>
Sem == {mutex} \cup {s(i) : i \in Phil}

At(i, place) == running = i /\ i \in ready /\ pc[i] = place

GoTo(i, place) == pc' = [pc EXCEPT ![i] = place]

Set(i, st) == state_sema' = [state_sema EXCEPT ![i] = st]

\* phi_test_sema: lets philosopher i eat if it wants to and can.
Mutant_IgnoresRight(i) ==
    \/ /\ state_sema[i] = "HUNGRY" /\ state_sema[LEFT(i)] # "EATING"
       /\ Set(i, "EATING")
       /\ up(s(i))
    \/ /\ ~(state_sema[i] = "HUNGRY" /\ state_sema[LEFT(i)] # "EATING")
       /\ UNCHANGED <<state_sema, semVars, ready>>

MayEat(i) == /\ state_sema[i] = "HUNGRY"
             /\ state_sema[LEFT(i)] # "EATING" /\ state_sema[RIGHT(i)] # "EATING"

phi_test_sema(i) ==
    \/ MayEat(i) /\ Set(i, "EATING") /\ up(s(i))
    \/ ~MayEat(i) /\ UNCHANGED <<state_sema, semVars, ready>>

-----------------------------------------------------------------------------
(* philosopher_using_semaphore. *)

\* do_sleep takes the thread off until a timer fires; after the last round the
\* thread exits.
think(i) ==
    /\ At(i, "think")
    /\ \/ iter[i] < TIMES /\ iter' = [iter EXCEPT ![i] = @ + 1] /\ GoTo(i, "take")
       \/ iter[i] >= TIMES /\ GoTo(i, "quit") /\ UNCHANGED iter
    /\ ready' = ready \ {i}
    /\ UNCHANGED <<semVars, running, state_sema>>

eat(i) == /\ At(i, "eat")
          /\ GoTo(i, "put")
          /\ ready' = ready \ {i}
          /\ UNCHANGED <<semVars, running, state_sema, iter>>

\* The timer of do_sleep fires.
wake(i) == /\ pc[i] \in {"take", "put"} /\ i \notin ready
           /\ ready' = ready \cup {i}
           /\ UNCHANGED <<semVars, running, state_sema, iter, pc>>

\* phi_take_forks_sema.
take(i) == /\ At(i, "take")
           /\ down(i, mutex)
           /\ GoTo(i, "hungry")
           /\ UNCHANGED <<running, state_sema, iter>>

hungry(i) == /\ At(i, "hungry")
             /\ Set(i, "HUNGRY")
             /\ GoTo(i, "test")
             /\ UNCHANGED <<semVars, ready, running, iter>>

test(i) == /\ At(i, "test")
           /\ phi_test_sema(i)
           /\ GoTo(i, "release")
           /\ UNCHANGED <<running, iter>>

release(i) == /\ At(i, "release")
              /\ up(mutex)
              /\ GoTo(i, "getforks")
              /\ UNCHANGED <<running, state_sema, iter>>

getforks(i) == /\ At(i, "getforks")
               /\ down(i, s(i))
               /\ GoTo(i, "eat")
               /\ UNCHANGED <<running, state_sema, iter>>

\* phi_put_forks_sema.
put(i) == /\ At(i, "put")
          /\ down(i, mutex)
          /\ GoTo(i, "putdown")
          /\ UNCHANGED <<running, state_sema, iter>>

putdown(i) == /\ At(i, "putdown")
              /\ Set(i, "THINKING")
              /\ GoTo(i, "testleft")
              /\ UNCHANGED <<semVars, ready, running, iter>>

Mutant_Untested(i, j) == UNCHANGED <<state_sema, semVars, ready>>
TestFor(i, j) == phi_test_sema(j)

testleft(i) == /\ At(i, "testleft")
               /\ TestFor(i, LEFT(i))
               /\ GoTo(i, "testright")
               /\ UNCHANGED <<running, iter>>

testright(i) == /\ At(i, "testright")
                /\ TestFor(i, RIGHT(i))
                /\ GoTo(i, "leave")
                /\ UNCHANGED <<running, iter>>

leave(i) == /\ At(i, "leave")
            /\ up(mutex)
            /\ GoTo(i, "think")
            /\ UNCHANGED <<running, state_sema, iter>>

-----------------------------------------------------------------------------
\* check_sync has created the threads and waits for them.
Init == /\ sem_init([x \in Sem |-> IF x = mutex THEN 1 ELSE 0])
        /\ ready = Phil /\ running \in Phil
        /\ state_sema = [i \in Phil |-> "THINKING"]
        /\ iter = [i \in Phil |-> 0]
        /\ pc = [i \in Phil |-> "think"]

philosopher(i) == \/ think(i) \/ take(i) \/ hungry(i) \/ test(i) \/ release(i) \/ getforks(i)
                  \/ eat(i) \/ put(i) \/ putdown(i) \/ testleft(i) \/ testright(i) \/ leave(i)

switch == Switch /\ UNCHANGED <<semVars, ready, state_sema, iter, pc>>

\* Everybody has quit, and check_sync goes on.
AllFed == \A i \in Phil : pc[i] = "quit"
Done == AllFed /\ UNCHANGED vars

Next == switch \/ Done \/ \E i \in Phil : philosopher(i) \/ wake(i)

Spec == Init /\ [][Next]_vars

\* The processor and the timers never stop, and a thread gets to execute something between two
\* switches.  Nothing is assumed of the order in which threads get the processor.
FairSpec == Spec /\ WF_vars(Next) /\ WF_vars(\E i \in Phil : philosopher(i) \/ wake(i))

-----------------------------------------------------------------------------
(* Properties. *)

Places == {"think", "take", "hungry", "test", "release", "getforks", "eat",
           "put", "putdown", "testleft", "testright", "leave", "quit"}

(* Type correctness; no semaphore ever holds more than one token. *)
TypeOK ==
    /\ value \in [Sem -> 0..1]
    /\ wait_queue \in [Sem -> Seq(Phil)]
    /\ ready \in SUBSET Phil /\ running \in Phil
    /\ state_sema \in [Phil -> {"THINKING", "HUNGRY", "EATING"}]
    /\ iter \in [Phil -> 0..TIMES]
    /\ pc \in [Phil -> Places]

\* Philosopher i is eating: it is past the down() of its semaphore, and not
\* blocked in it.
Eating(i) == pc[i] \in {"eat", "put", "putdown"} /\ i \notin Waiters(s(i))

\* Neighbours never eat at the same time.
ForksExclusive == \A i \in Phil : Eating(i) => ~Eating(LEFT(i)) /\ ~Eating(RIGHT(i))

\* Whoever is in the queue of a semaphore is off the processor and waits for
\* nothing else: the assertion of __up on the wait state of the thread it wakes.
WaitersAreOff ==
    \A x \in Sem : \A i \in Waiters(x) :
       i \notin ready /\ \A y \in Sem \ {x} : i \notin Waiters(y)

\* When nobody is in the critical section, a hungry philosopher has an eating
\* neighbour: put_forks forgets nobody.
NobodyForgotten ==
    value[mutex] = 1 =>
       \A i \in Phil : state_sema[i] = "HUNGRY" =>
          state_sema[LEFT(i)] = "EATING" \/ state_sema[RIGHT(i)] = "EATING"

Meals(i) == IF pc[i] \in {"think", "quit", "testleft", "testright", "leave"}
            THEN iter[i] ELSE iter[i] - 1

Phase(i) == IF Eating(i) THEN "eating"
            ELSE IF state_sema[i] = "THINKING" THEN "thinking" ELSE "hungry"

Table == INSTANCE Dining WITH phase <- [h \in Phil |-> Phase(h)],
                              meals <- [h \in Phil |-> Meals(h)]

\* The threads implement the abstract table: forks are taken both at once, and
\* nobody eats more than TIMES times.
ImplementsDining == Table!Spec

\* Every philosopher eats TIMES times and its thread ends, so check_sync returns.
Terminates == <>AllFed
=============================================================================
