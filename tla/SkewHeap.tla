------------------------------ MODULE SkewHeap ------------------------------
(***************************************************************************)
(* The skew heap of libs/skew_heap.h, node by node.  A heap is a record of *)
(* three functions, the fields of struct skew_heap_entry of every node;    *)
(* `before` is the set of pairs (a, b) for which the comparator returns -1.*)
(*                                                                         *)
(* Operators on a heap that return a node as well return a record          *)
(* [heap, root].                                                           *)
(***************************************************************************)
LOCAL INSTANCE Naturals
LOCAL INSTANCE FiniteSets

CONSTANTS Node, NULL

SkewHeapAssumption == NULL \notin Node

Link == Node \cup {NULL}
Heap == [left : [Node -> Link], right : [Node -> Link], parent : [Node -> Link]]

SkewHeapInit == [f \in {"left", "right", "parent"} |-> [n \in Node |-> NULL]]

\* The comparator decides which root stays; its right subtree is merged with
\* the other heap and becomes the left one.  The parent of the new root is
\* left alone.
RECURSIVE skew_heap_merge(_, _, _, _)
skew_heap_merge(h, a, b, before) ==
    IF a = NULL THEN [heap |-> h, root |-> b]
    ELSE IF b = NULL THEN [heap |-> h, root |-> a]
    ELSE LET top == IF <<a, b>> \in before THEN a ELSE b
             low == IF top = a THEN b ELSE a
             m   == skew_heap_merge(h, IF top = a THEN h.right[a] ELSE a,
                                       IF top = a THEN b ELSE h.right[b], before)
         IN [heap |-> [m.heap EXCEPT !.right[top]     = h.left[top],
                                     !.left[top]      = m.root,
                                     !.parent[m.root] = top],
             root |-> top]

\* The node is not cleared.
Mutant_StaleLinks(h, a, b, before) == skew_heap_merge(h, a, b, before)

\* The node is cleared first: removal leaves its old links in it.
skew_heap_insert(h, a, b, before) ==
    skew_heap_merge([h EXCEPT !.left[b] = NULL, !.right[b] = NULL, !.parent[b] = NULL],
                    a, b, before)

\* The two subtrees of b replace it, under its parent if it has one.
skew_heap_remove(h, a, b, before) ==
    LET p    == h.parent[b]
        m    == skew_heap_merge(h, h.left[b], h.right[b], before)
        hung == IF m.root = NULL THEN m.heap
                ELSE [m.heap EXCEPT !.parent[m.root] = p]
        side == IF hung.left[p] = b THEN "left" ELSE "right"
    IN IF p = NULL THEN [heap |-> hung, root |-> m.root]
       ELSE [heap |-> [hung EXCEPT ![side][p] = m.root], root |-> a]

-----------------------------------------------------------------------------
(* What a well-formed heap is, for the properties of its users. *)

Below(h, n) == {h.left[n], h.right[n]} \ {NULL}

RECURSIVE NodesFrom(_, _, _)
\* The nodes that the links lead to from the nodes in `front`.
NodesFrom(h, front, seen) ==
    IF front = {} THEN seen
    ELSE NodesFrom(h, UNION {Below(h, n) : n \in front} \ (seen \cup front), seen \cup front)

Nodes(h, root) == NodesFrom(h, {root} \ {NULL}, {})

\* A binary tree: the root has no parent, every other node hangs under the
\* parent it names, on one side only.
IsTree(h, root) ==
    /\ root # NULL => h.parent[root] = NULL
    /\ \A n \in Nodes(h, root) :
          /\ h.left[n] # NULL => h.parent[h.left[n]] = n
          /\ h.right[n] # NULL => h.parent[h.right[n]] = n /\ h.right[n] # h.left[n]
=============================================================================
