------------------------------- MODULE Family -------------------------------
(***************************************************************************)
(* The family tree of processes as do_wait and do_exit want it: every      *)
(* process has the list of its children, youngest first.                   *)
(***************************************************************************)
EXTENDS Sequences, SequencesExt

CONSTANTS Proc, initproc

VARIABLE kids        \* of each existing process

Exists == DOMAIN kids

Init == kids = [p \in {initproc} |-> <<>>]

Born(p, child) ==
    kids' = [q \in Exists \cup {child} |->
                IF q = child THEN <<>>
                ELSE IF q = p THEN <<child>> \o kids[p] ELSE kids[q]]

\* The youngest child of p becomes initproc's youngest.
Adopted(p) ==
    kids' = [kids EXCEPT ![p] = Tail(@), ![initproc] = <<Head(kids[p])>> \o @]

\* The i-th child of p has no children and is taken away.
Gone(p, i) ==
    /\ kids[kids[p][i]] = <<>>
    /\ kids' = [q \in Exists \ {kids[p][i]} |-> IF q = p THEN RemoveAt(kids[p], i) ELSE kids[q]]

Next == \E p \in Exists :
           \/ \E child \in Proc \ Exists : Born(p, child)
           \/ p # initproc /\ kids[p] # <<>> /\ Adopted(p)
           \/ \E i \in DOMAIN kids[p] : Gone(p, i)

Spec == Init /\ [][Next]_kids
=============================================================================
