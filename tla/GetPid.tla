------------------------------- MODULE GetPid -------------------------------
(***************************************************************************)
(* get_pid: the search for a pid that no process has.  last_pid and        *)
(* next_safe are static: between the two lies a window of pids known to be *)
(* free, which a call that stays inside it does not check again, whatever  *)
(* processes were created or freed meanwhile.                              *)
(*                                                                         *)
(* The scan of proc_list is modelled element by element, so that a proof   *)
(* needs no induction over the list.                                       *)
(***************************************************************************)
EXTENDS Integers, FiniteSets

CONSTANTS MAX_PID, MAX_PROCESS

\* static_assert(MAX_PID > MAX_PROCESS), and idleproc is not the only process.
ASSUME PidAssumption == /\ MAX_PID \in Nat /\ MAX_PROCESS \in Nat
                        /\ MAX_PROCESS > 1 /\ MAX_PID > MAX_PROCESS

VARIABLES pids,           \* the pids of the processes on proc_list
          last_pid, next_safe,
          ahead,          \* pids of the processes the scan has not reached
          phase              \* "out", "scan" or "found"

pidVars == <<pids, last_pid, next_safe, ahead, phase>>

PidInit == /\ pids = {}
           /\ last_pid = MAX_PID /\ next_safe = MAX_PID
           /\ ahead = {}
           /\ phase = "out"

Rescan(next) == next >= MAX_PID \/ next >= next_safe

\* The end of the window is not drawn in.
Mutant_KeepsWindow(pid) == next_safe

\* A pid above the candidate bounds the window.
Bounded(pid) == IF pid > last_pid /\ next_safe > pid THEN pid ELSE next_safe

\* The candidate after a taken one.
After == IF last_pid + 1 >= MAX_PID THEN 1 ELSE last_pid + 1

\* do_fork calls get_pid unless the limit of processes is reached; idleproc
\* counts although it is not on the list.
get_pid ==
    /\ phase = "out"
    /\ Cardinality(pids) + 1 < MAX_PROCESS
    /\ last_pid' = After
    /\ IF Rescan(last_pid + 1)
       THEN next_safe' = MAX_PID /\ ahead' = pids /\ phase' = "scan"
       ELSE UNCHANGED <<next_safe, ahead>> /\ phase' = "found"
    /\ UNCHANGED pids

\* The search is repeated with the candidate that was taken.
Mutant_RepeatsSame(pid) ==
    /\ phase = "scan"
    /\ pid \in ahead
    /\ IF pid = last_pid
       THEN IF last_pid + 1 >= next_safe
            THEN next_safe' = MAX_PID /\ ahead' = pids /\ UNCHANGED last_pid
            ELSE last_pid' = last_pid + 1 /\ ahead' = ahead \ {pid} /\ UNCHANGED next_safe
       ELSE next_safe' = Bounded(pid) /\ ahead' = ahead \ {pid} /\ UNCHANGED last_pid
    /\ UNCHANGED <<pids, phase>>

\* The next process on the list, which is in no particular order of pids.
scan(pid) ==
    /\ phase = "scan"
    /\ pid \in ahead
    /\ IF pid = last_pid
       THEN IF last_pid + 1 >= next_safe
            THEN /\ last_pid' = After
                 /\ next_safe' = MAX_PID
                 /\ ahead' = pids
            ELSE /\ last_pid' = last_pid + 1
                 /\ ahead' = ahead \ {pid}
                 /\ UNCHANGED next_safe
       ELSE /\ next_safe' = Bounded(pid)
            /\ ahead' = ahead \ {pid}
            /\ UNCHANGED last_pid
    /\ UNCHANGED <<pids, phase>>

scan_end ==
    /\ phase = "scan" /\ ahead = {}
    /\ phase' = "found"
    /\ UNCHANGED <<pids, last_pid, next_safe, ahead>>

\* do_fork goes on to link the new process.
link ==
    /\ phase = "found"
    /\ pids' = pids \cup {last_pid}
    /\ phase' = "out"
    /\ UNCHANGED <<last_pid, next_safe, ahead>>

\* do_wait frees a process, between two calls.
reap(pid) ==
    /\ phase = "out"
    /\ pids' = pids \ {pid}
    /\ UNCHANGED <<last_pid, next_safe, ahead, phase>>

PidNext == get_pid \/ scan_end \/ link \/ \E pid \in pids : scan(pid) \/ reap(pid)

PidSpec == PidInit /\ [][PidNext]_pidVars
\* The code does not stop inside the search.
Search == scan_end \/ \E pid \in pids : scan(pid)
PidFairSpec == PidSpec /\ WF_pidVars(Search)

-----------------------------------------------------------------------------
(* Types and ranges: every pid in use fits below MAX_PID, 0 is idleproc's. *)
PidTypeOK == /\ pids \subseteq 1..(MAX_PID - 1)
             /\ last_pid \in 1..MAX_PID
             /\ next_safe \in 1..MAX_PID
             /\ ahead \subseteq pids
             /\ phase \in {"out", "scan", "found"}

\* Between calls, however many processes came and went since the last scan,
\* no process has a pid inside the window that the next calls hand out
\* unchecked.
WindowFree ==
    phase = "out" => \A pid \in pids : pid <= last_pid \/ pid >= next_safe

\* The pid that get_pid returns belongs to nobody.
PidUnique == phase = "found" => last_pid \notin pids /\ last_pid < MAX_PID

\* The search finds a pid: in whatever order the list is scanned, it does not
\* start again for ever.
SearchEnds == (phase = "scan") ~> (phase = "found")
=============================================================================
