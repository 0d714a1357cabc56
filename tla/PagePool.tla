------------------------------ MODULE PagePool ------------------------------
(***************************************************************************)
(* First fit, as the head of default_pmm.c describes it: a request gets    *)
(* the first run of free pages that is large enough, and fails only when   *)
(* there is none (Next).  Without that promise (LooseNext) it gets some    *)
(* run of free pages or fails.                                             *)
(***************************************************************************)
EXTENDS Integers

CONSTANTS NPages, NULL

VARIABLES used,      \* pages in the hands of callers
          result     \* the last request and its answer; <<>> when pages were given back

vars == <<used, result>>

Run(base, n) == base..(base + n - 1)
Pages == Run(0, NPages)
FreeRuns(n) == {base \in Pages : Run(base, n) \subseteq Pages \ used}

Alloc(n) ==
    \/ /\ FreeRuns(n) = {}
       /\ result' = <<n, NULL>> /\ UNCHANGED used
    \/ \E base \in FreeRuns(n) :
          /\ \A other \in FreeRuns(n) : base <= other
          /\ used' = used \cup Run(base, n)
          /\ result' = <<n, base>>

Free(base, n) ==
    /\ Run(base, n) \subseteq used
    /\ used' = used \ Run(base, n)
    /\ result' = <<>>

Fit(n) ==
    \/ result' = <<n, NULL>> /\ UNCHANGED used
    \/ \E base \in FreeRuns(n) :
          used' = used \cup Run(base, n) /\ result' = <<n, base>>

Next == \E n \in 1..NPages : Alloc(n) \/ \E base \in Pages : Free(base, n)
LooseNext == \E n \in 1..NPages : Fit(n) \/ \E base \in Pages : Free(base, n)

Init == used = {} /\ result = <<>>

Spec == Init /\ [][Next]_vars
=============================================================================
