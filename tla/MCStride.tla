------------------------------ MODULE MCStride ------------------------------
(***************************************************************************)
(* The stride scheduler on three instances; part says which one a          *)
(* behaviour shows: "share" counts picks under all priorities, "exits"     *)
(* lets processes come, sleep and go, and "live" runs for ever under the   *)
(* fairness of the timer interrupt.                                        *)
(***************************************************************************)
EXTENDS Integers

CONSTANTS p1, p2, p3, p4, NULL, idleproc, MaxRuns

VARIABLES part, state, current, lab6_stride, lab6_priority, heap, lab6_run_pool, proc_num, runs

Few == {p1, p2, p3}
All == Few \cup {p4}
Exits == INSTANCE StrideSched
            WITH Node <- Few, initproc <- p1, Width <- 3, Priorities <- {2}, Sleepers <- {p1, p3},
                 MayExit <- TRUE
Live == INSTANCE StrideSched
            WITH Node <- Few, initproc <- p1, Width <- 3, Priorities <- {1}, Sleepers <- {p3},
                 MayExit <- FALSE
Share == INSTANCE StrideShare
            WITH Node <- All, initproc <- p1, Width <- 5, Priorities <- 1..4, Sleepers <- {},
                 MayExit <- FALSE, Setters <- All

ASSUME SmallBounds == Exits!StrideAssumption /\ Exits!PriorityBound /\ Exits!SkewHeapAssumption
ASSUME LiveBounds == Live!StrideAssumption /\ Live!PriorityBound
ASSUME ShareBounds == Share!StrideAssumption /\ Share!PriorityBound /\ Share!ShareAssumption

mcVars == <<part, state, current, lab6_stride, lab6_priority, heap, lab6_run_pool, proc_num, runs>>

MCInit == \/ part = "share" /\ Share!ShareInit
          \/ part = "exits" /\ Exits!Init /\ runs = [p \in Few |-> 0]
          \/ part = "live" /\ Live!Init /\ runs = [p \in Few |-> 0]

LiveStep(A) == part = "live" /\ A /\ UNCHANGED <<part, runs>>
MCNext == \/ part = "share" /\ Share!ShareNext /\ UNCHANGED part
          \/ part = "exits" /\ Exits!Next /\ UNCHANGED <<part, runs>>
          \/ LiveStep(Live!Next)

MCSpec == MCInit /\ [][MCNext]_mcVars
          /\ WF_mcVars(LiveStep(Live!cpu_idle)) /\ \A p \in Few : WF_mcVars(LiveStep(Live!yield(p)))

\* The pool is a tree of exactly the processes that wait for the processor, whatever links
\* the nodes that left it keep.
PoolIsTree == part = "exits" => Exits!Inv
\* Processor time is shared in proportion to the priorities: no process is ahead of another
\* by more than one weighed pick, and the pick is the one furthest behind.
ShareProportional == part = "share" => Share!ShareProportional /\ Share!PicksMinimum
\* A process that waits for the processor gets it.
NoStarvation == \A p \in Few : (part = "live" /\ p \in Live!Queued) ~> (part = "live" /\ current = p)
=============================================================================
