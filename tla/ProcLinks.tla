------------------------------ MODULE ProcLinks ------------------------------
(***************************************************************************)
(* The pointers that tie processes together: parent, cptr (youngest child),*)
(* optr (older sibling), yptr (younger sibling).  set_links and            *)
(* remove_links change them for fork and wait, the loop at the end of      *)
(* do_exit hands all children over to initproc, one in each round.         *)
(***************************************************************************)
EXTENDS Integers, FiniteSets, Sequences, SequencesExt, FiniteSetsExt

CONSTANTS Task,        \* addresses of a struct proc_struct
          init_task,   \* init_task
          NIL          \* the null pointer

(* There is room for finitely many, and NIL is not one of them. *)
ASSUME LinksAssumption == IsFiniteSet(Task) /\ init_task \in Task /\ NIL \notin Task

VARIABLES exists,        \* allocated and linked, zombies included
          zombies,
          parent, cptr, yptr, optr,
          exiting        \* the process in the adoption loop of do_exit, or NIL

linksVars == <<exists, zombies, parent, cptr, yptr, optr, exiting>>

Alive == exists \ zombies
\* Assignments through a pointer that may be NIL.
Set(f, p, v) == IF p = NIL THEN f ELSE [f EXCEPT ![p] = v]

-----------------------------------------------------------------------------
\* The older sibling does not learn of the newcomer.
Mutant_OneWay(p, child) ==
    /\ parent' = [parent EXCEPT ![child] = p]
    /\ optr' = [optr EXCEPT ![child] = cptr[p]]
    /\ yptr' = [yptr EXCEPT ![child] = NIL]
    /\ cptr' = [cptr EXCEPT ![p] = child, ![child] = NIL]

\* alloc_proc cleared the pointers of child; it becomes p's youngest.
set_links(p, child) ==
    /\ parent' = [parent EXCEPT ![child] = p]
    /\ optr' = [optr EXCEPT ![child] = cptr[p]]
    /\ yptr' = Set([yptr EXCEPT ![child] = NIL], cptr[p], child)
    /\ cptr' = [cptr EXCEPT ![p] = child, ![child] = NIL]

remove_links(q) ==
    /\ yptr' = Set(yptr, optr[q], yptr[q])
    /\ optr' = Set(optr, yptr[q], optr[q])
    /\ cptr' = IF yptr[q] = NIL THEN [cptr EXCEPT ![parent[q]] = optr[q]] ELSE cptr

link_child(p, child) ==
    /\ exiting = NIL
    /\ p \in Alive /\ child \notin exists
    /\ exists' = exists \cup {child}
    /\ set_links(p, child)
    /\ UNCHANGED <<zombies, exiting>>

\* do_exit up to the loop; init_task must not exit.
begin_exit(p) ==
    /\ exiting = NIL
    /\ p \in Alive \ {init_task}
    /\ zombies' = zombies \cup {p}
    /\ exiting' = p
    /\ UNCHANGED <<exists, parent, cptr, yptr, optr>>

\* The orphan replaces init_task's children instead of preceding them.
Mutant_ForgetsOlder ==
    /\ exiting # NIL
    /\ LET q == cptr[exiting] IN
       IF q = NIL
       THEN exiting' = NIL /\ UNCHANGED <<parent, cptr, yptr, optr>>
       ELSE /\ cptr' = [cptr EXCEPT ![exiting] = optr[q], ![init_task] = q]
            /\ optr' = [optr EXCEPT ![q] = NIL]
            /\ yptr' = [yptr EXCEPT ![q] = NIL]
            /\ parent' = [parent EXCEPT ![q] = init_task]
            /\ UNCHANGED exiting
    /\ UNCHANGED <<exists, zombies>>

\* One round of the loop; it ends when there are no children left.
adopt ==
    /\ exiting # NIL
    /\ LET q == cptr[exiting] IN
       IF q = NIL
       THEN exiting' = NIL /\ UNCHANGED <<parent, cptr, yptr, optr>>
       ELSE /\ cptr' = [cptr EXCEPT ![exiting] = optr[q], ![init_task] = q]
            /\ optr' = [optr EXCEPT ![q] = cptr[init_task]]
            /\ yptr' = Set([yptr EXCEPT ![q] = NIL], cptr[init_task], q)
            /\ parent' = [parent EXCEPT ![q] = init_task]
            /\ UNCHANGED exiting
    /\ UNCHANGED <<exists, zombies>>

\* proc of the loop in do_wait over the optr pointers, after k rounds.
Chain(first, older) ==
    LET proc[k \in 0..Cardinality(Task)] ==
           IF k = 0 THEN first ELSE IF proc[k - 1] = NIL THEN NIL ELSE older[proc[k - 1]] IN
    proc
\* Those that the loop sees, in order.
Listed(first, older) ==
    LET proc == Chain(first, older) IN
    [i \in 1..Min({k \in DOMAIN proc : proc[k] = NIL}) |-> proc[i - 1]]
ChildList(p) == Listed(cptr[p], optr)

Reap(q) ==
    /\ remove_links(q)
    /\ exists' = exists \ {q}
    /\ zombies' = zombies \ {q}
    /\ UNCHANGED <<parent, exiting>>

\* do_wait(0): the first zombie of the list.
do_wait_any(p) ==
    /\ exiting = NIL
    /\ p \in Alive
    /\ \E i \in DOMAIN ChildList(p) :
          /\ ChildList(p)[i] \in zombies
          /\ \A j \in 1..(i - 1) : ChildList(p)[j] \notin zombies
          /\ Reap(ChildList(p)[i])

\* do_wait(pid): found through the hash list, checked against the parent.
do_wait_pid(p, q) ==
    /\ exiting = NIL
    /\ p \in Alive
    /\ q \in zombies /\ parent[q] = p
    /\ Reap(q)

LinksNext == \/ adopt
             \/ \E p \in Task : \/ begin_exit(p) \/ do_wait_any(p)
                                \/ \E q \in Task : link_child(p, q) \/ do_wait_pid(p, q)

LinksInit == /\ exists = {init_task} /\ zombies = {}
             /\ parent = [p \in Task |-> NIL]
             /\ cptr = [p \in Task |-> NIL]
             /\ yptr = [p \in Task |-> NIL]
             /\ optr = [p \in Task |-> NIL]
             /\ exiting = NIL

LinksSpec == LinksInit /\ [][LinksNext]_linksVars

-----------------------------------------------------------------------------
(* Types. *)
LinksTypeOK == /\ exists \subseteq Task /\ zombies \subseteq exists
               /\ \A f \in {parent, cptr, yptr, optr} : f \in [Task -> Task \cup {NIL}]
               /\ exiting \in Task \cup {NIL}

\* yptr is the inverse of optr in every list that remove_links may cut next,
\* so that removal from the middle works: a wrong back pointer would show up
\* only when its owner's older sibling dies.
BackPointersMatch ==
    exiting = NIL =>
      \A q \in exists \ {init_task} :
         /\ optr[q] # NIL => optr[q] \in exists /\ yptr[optr[q]] = q
         /\ IF yptr[q] = NIL THEN cptr[parent[q]] = q
            ELSE yptr[q] \in exists /\ optr[yptr[q]] = q

\* The list a parent walks holds exactly the processes that name it as their
\* parent: do_wait(0) sees the same children as do_wait(pid).
ListIsChildren ==
    \A p \in exists :
       LET list == ChildList(p) IN
       /\ ToSet(list) = {q \in exists : parent[q] = p}
       /\ Len(list) = Cardinality(ToSet(list))

\* The pointers implement the family tree (set_links, remove_links, do_exit).
Tree == INSTANCE Family
           WITH Proc <- Task, initproc <- init_task, kids <- [p \in exists |-> ChildList(p)]
ImplementsFamily == Tree!Spec

\* The sibling pointers of a list are each other's inverse, and it holds exactly the children
\* (set_links, remove_links, the adoption loop of do_exit).
LinksInv == LinksTypeOK /\ BackPointersMatch /\ ListIsChildren
=============================================================================
