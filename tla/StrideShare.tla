----------------------------- MODULE StrideShare -----------------------------
(***************************************************************************)
(* The stride class under the load of user/priority.c: a process sets its  *)
(* priority and forks the others in its first time slice; each of them     *)
(* computes for ever.  The processes of Setters make lab6_set_priority     *)
(* their first call, the others never call it.                             *)
(***************************************************************************)
EXTENDS StrideSched

CONSTANTS Setters,
          MaxRuns        \* bound on the picks of a process that are explored

ShareAssumption == Setters \subseteq Proc /\ MaxRuns \in Nat

VARIABLE runs            \* how often each process was given the processor

shareVars == <<vars, runs>>

\* A setter has no other call to make before the priority is set.
Settled(p) == p \in Setters => lab6_priority[p] # 0

\* The forks of the first slice.
fork_in_first_slice(p, child) ==
    /\ Settled(p)
    /\ \A q \in Proc \ {p} : runs[q] = 0
    /\ runs[p] = 1
    /\ do_fork(p, child)
    /\ UNCHANGED runs

\* The end of a time slice, once all processes are there.
slice_end(p) ==
    /\ Settled(p)
    /\ \A q \in Proc : state[q] = "runnable"
    /\ yield(p)
    /\ runs[current'] < MaxRuns
    /\ runs' = [runs EXCEPT ![current'] = @ + 1]

set_first(p, n) ==
    /\ p \in Setters
    /\ lab6_priority[p] = 0
    /\ lab6_set_priority(p, n)
    /\ UNCHANGED runs

ShareNext == \E p \in Proc :
                \/ slice_end(p)
                \/ \E child \in Proc : fork_in_first_slice(p, child)
                \/ \E n \in Priorities : set_first(p, n)

ShareInit == /\ Init
             /\ runs = [p \in Proc |-> IF p = current THEN 1 ELSE 0]

ShareSpec == ShareInit /\ [][ShareNext]_shareVars

-----------------------------------------------------------------------------
\* The stride of p had strides no width: the first pick of a process comes
\* before it could set its priority and moves the stride by -1.
Service(p) == IF runs[p] = 0 THEN 0 ELSE (runs[p] - 1) * Pass(p) - 1

\* Processor time is shared in proportion to the priorities: at every moment
\* any two processes have the same number of picks, each weighed with the
\* inverse of the priority, up to the largest weight.  Wrap-around of the
\* strides does not disturb this.
ShareProportional ==
    \A p, q \in Proc :
       (\A r \in Proc : state[r] = "runnable") =>
          Service(p) - Service(q) <= BIG_STRIDE

\* "bigger value will get more CPU time" (proc.h:96): a process with a
\* smaller priority is never two picks ahead of one with a bigger priority.
BiggerMeansMore ==
    \A p, q \in Proc :
       lab6_priority[p] < lab6_priority[q] => runs[p] <= runs[q] + 1
=============================================================================
