----------------------------- MODULE BuddyPool -----------------------------
(***************************************************************************)
(* What a buddy allocator promises: a request gets some aligned run of     *)
(* free pages of its size, and fails only if there is none.                *)
(***************************************************************************)
EXTENDS Integers

CONSTANTS MaxOrder,
          Size,      \* pages in a block of each order, powers of two
          Wanted,    \* the orders that are asked for
          NULL

VARIABLES held,      \* the blocks of callers: first page and order
          result     \* the last order asked for and the answer; <<>> after a return

vars == <<held, result>>

Pages == 0..(Size[MaxOrder] - 1)
PagesOf(block, k) == block..(block + Size[k] - 1)
Taken == UNION {PagesOf(h[1], h[2]) : h \in held}
Fits(b, k) == b % Size[k] = 0 /\ PagesOf(b, k) \subseteq Pages \ Taken

Alloc(k) ==
    \/ /\ result' = <<k, NULL>> /\ UNCHANGED held
       /\ \A b \in Pages : ~ Fits(b, k)
    \/ \E b \in Pages :
          /\ result' = <<k, b>>
          /\ held' = held \cup {<<b, k>>}
          /\ Fits(b, k)

Free(h) == held' = held \ {h} /\ result' = <<>>

Next == (\E k \in Wanted : Alloc(k)) \/ (\E h \in held : Free(h))

Init == held = {} /\ result = <<>>

Spec == Init /\ [][Next]_vars
=============================================================================
