----------------------------- MODULE AlarmClock -----------------------------
(***************************************************************************)
(* What the timer list promises, without a list and without deltas: every  *)
(* sleeping process has an absolute alarm time, an alarm rings exactly on  *)
(* the tick it was set for, and setting or cancelling one alarm never      *)
(* moves another.                                                          *)
(***************************************************************************)
EXTENDS Naturals

CONSTANTS Proc, MaxSleep, MaxNow

VARIABLES now,    \* ticks since boot
          alarm,  \* alarm[p]: the tick p is to be woken at, 0 when none is set
          rung    \* processes whose alarm rang and that have not resumed yet

avars == <<now, alarm, rung>>

Init == /\ now = 0
        /\ alarm = [p \in Proc |-> 0]
        /\ rung = {}

Set(p) == /\ alarm[p] = 0
          /\ p \notin rung
          /\ \E t \in 1..MaxSleep : alarm' = [alarm EXCEPT ![p] = now + t]
          /\ UNCHANGED <<now, rung>>

\* p goes on: after its alarm, or before it when it was woken early.
Clear(p) == /\ alarm[p] # 0 \/ p \in rung
            /\ alarm' = [alarm EXCEPT ![p] = 0]
            /\ rung' = rung \ {p}
            /\ UNCHANGED now

Tick == /\ now < MaxNow
        /\ now' = now + 1
        /\ alarm' = [p \in Proc |-> IF alarm[p] = now + 1 THEN 0 ELSE alarm[p]]
        /\ rung' = rung \cup {p \in Proc : alarm[p] = now + 1}

Next == Tick \/ \E p \in Proc : Set(p) \/ Clear(p)

Spec == Init /\ [][Next]_avars
=============================================================================
