------------------------------ MODULE MCCalls ------------------------------
(***************************************************************************)
(* Two parts of the system calls that share no state: the semaphores of    *)
(* the file systems (LockOrder) and the pid that do_fork takes (GetPid).   *)
(* part says which one a behaviour shows.                                  *)
(***************************************************************************)
EXTENDS LockOrder, GetPid

VARIABLE part

mcVars == <<part, vars, pidVars>>

MCInit == part \in {"locks", "pids"} /\ Init /\ PidInit

InLocks(A) == part = "locks" /\ A /\ UNCHANGED <<part, pidVars>>
InPids(A) == part = "pids" /\ A /\ UNCHANGED <<part, vars>>

MCNext == InLocks(Next) \/ InPids(PidNext)

\* The fairness of each.
MCSpec == /\ MCInit /\ [][MCNext]_mcVars
          /\ WF_mcVars(InLocks(Next))
          /\ \A p \in Proc : WF_mcVars(InLocks(WakeUp(p)))
          /\ WF_mcVars(InPids(Search))
=============================================================================
