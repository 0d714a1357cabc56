------------------------------- MODULE Dining -------------------------------
(***************************************************************************)
(* What the dining philosophers of lab8/kern/sync/check_sync.c promise:    *)
(* nobody eats beside an eating neighbour, and everybody eats TIMES times. *)
(* No semaphores, no monitor, no threads.                                  *)
(***************************************************************************)
EXTENDS Integers

CONSTANTS N,         \* number of philosophers
          TIMES      \* meals of each

VARIABLES phase,     \* "thinking", "hungry" or "eating"
          meals      \* meals[i]: how often philosopher i has eaten

Phil == 0..(N - 1)
LEFT(i) == (i - 1 + N) % N
RIGHT(i) == (i + 1) % N

Init == /\ phase = [i \in Phil |-> "thinking"]
        /\ meals = [i \in Phil |-> 0]

GetHungry(i) == /\ phase[i] = "thinking" /\ meals[i] < TIMES
                /\ phase' = [phase EXCEPT ![i] = "hungry"]
                /\ UNCHANGED meals

Eat(i) == /\ phase[i] = "hungry"
          /\ phase[LEFT(i)] # "eating" /\ phase[RIGHT(i)] # "eating"
          /\ phase' = [phase EXCEPT ![i] = "eating"]
          /\ UNCHANGED meals

Stop(i) == /\ phase[i] = "eating"
           /\ phase' = [phase EXCEPT ![i] = "thinking"]
           /\ meals' = [meals EXCEPT ![i] = @ + 1]

Next == \E i \in Phil : GetHungry(i) \/ Eat(i) \/ Stop(i)

Spec == Init /\ [][Next]_<<phase, meals>>
=============================================================================
