------------------------------ MODULE MCMemory ------------------------------
(***************************************************************************)
(* The allocators: first fit (PageAlloc), the buddy system of lab 2        *)
(* (Buddy) and the kernel heap (Slob).  Each has a memory of its own here; *)
(* part says which one a behaviour shows, as init_pmm_manager chooses one  *)
(* of the first two.                                                       *)
(***************************************************************************)
EXTENDS PageAlloc, Buddy, Slob, TLC

VARIABLE part

MCInit == part \in {"first_fit", "buddy", "slob"} /\ PagesInit /\ BuddyInit /\ HeapInit

MCNext == \/ part = "first_fit" /\ PagesNext /\ UNCHANGED <<part, buddyVars, heapVars>>
          \/ part = "buddy" /\ BuddyNext /\ UNCHANGED <<part, pagesVars, heapVars>>
          \/ part = "slob" /\ HeapNext /\ UNCHANGED <<part, pagesVars, buddyVars>>

MCSpec == MCInit /\ [][MCNext]_<<part, pagesVars, buddyVars, heapVars>>
=============================================================================
