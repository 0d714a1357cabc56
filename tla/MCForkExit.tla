----------------------------- MODULE MCForkExit -----------------------------
(***************************************************************************)
(* What fork and execve build and exit takes apart: address spaces, the    *)
(* kernel objects of a process and its family links.  part says which of   *)
(* them a behaviour shows.                                                 *)
(*                                                                         *)
(* Address spaces have sixteen pages of two addresses: tables of four      *)
(* entries, two tables in a directory.  Pages 0 and 1 are not user pages;  *)
(* the stack area is the last three pages, inside one table as in the code.*)
(***************************************************************************)
EXTENDS AddressSpace, ProcMemory, ProcLinks, TLC

CONSTANTS m1, m2, p1, p2, p3, p4

Segment(va, memsz, write) == [va |-> va, memsz |-> memsz, write |-> write]
\* All in the table of pages 4 to 7, as the programs of the repository; two
\* overlap, one is below user space.
InOneTable == {Segment(8, 2, FALSE), Segment(10, 3, TRUE), Segment(9, 2, TRUE), Segment(0, 2, TRUE)}
\* Pages 3 and 4 have different tables.
InTwoTables == {Segment(6, 1, FALSE), Segment(8, 1, TRUE), Segment(7, 2, TRUE)}
Layouts == {InOneTable, InTwoTables}

VARIABLE part

mcVars == <<part, spaceVars, vars, linksVars>>

MCInit == part \in {"spaces", "objects", "links"} /\ SpacesInit /\ Init /\ LinksInit

MCNext == \/ part = "spaces" /\ SpacesNext /\ UNCHANGED <<part, vars, linksVars>>
          \/ part = "objects" /\ Next /\ UNCHANGED <<part, spaceVars, linksVars>>
          \/ part = "links" /\ LinksNext /\ UNCHANGED <<part, spaceVars, vars>>

MCSpec == MCInit /\ [][MCNext]_mcVars

Symmetric == Permutations({m1, m2}) \cup Permutations({p1,p2,p3,p4})
=============================================================================
