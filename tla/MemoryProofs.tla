---------------------------- MODULE MemoryProofs ----------------------------
(***************************************************************************)
(* Proofs about memory, from the pages up to what a process owns.          *)
(*                                                                         *)
(* PageAlloc, for every number of pages and every set of sizes: the list   *)
(* is exactly the maximal runs of free pages until a block is freed behind *)
(* all others, and covers exactly the free pages until a link that such a  *)
(* block has to itself is followed (PagesCorrect); requests are answered   *)
(* accordingly (PagesRefinement).                                          *)
(*                                                                         *)
(* ProcMemory: between any two steps of fork, execve, exit and wait every  *)
(* process holds exactly what it needs, for any number of processes        *)
(* (ObjectsCorrect).  The inductive invariant is a table: what is          *)
(* allocated at each label of the code, and what may be.                   *)
(*                                                                         *)
(* Slob, for every number of pages and every set of sizes: all units of    *)
(* the heap are in disjoint blocks, and the free list is sorted and merged *)
(* after every call (HeapCorrect).                                         *)
(*                                                                         *)
(* Buddy, for every number of pages and every set of requests: all memory  *)
(* is in disjoint aligned blocks, merged as far as possible (BuddyCorrect),*)
(* and a request is refused only if no block of its size could be cut from *)
(* the free pages (BuddyRefinement).                                       *)
(***************************************************************************)
EXTENDS ProcMemory, PageAlloc, Slob, Buddy, FiniteSetTheorems, SequenceTheorems,
        WellFoundedInduction, TLAPS

-----------------------------------------------------------------------------
(***************************************************************************)
(* The list of free blocks. *)
(***************************************************************************)

Link == Pages \cup {free_list}

\* x is the first element of F above e, or free_list without one; free_list is
\* below all pages.
After(F, e, x) == \/ x \in F /\ e < x /\ \A f \in F : e < f => x <= f
                  \/ x = free_list /\ \A f \in F : f <= e

\* The last element of F below e, all of F being below free_list.
Below(e, f) == e = free_list \/ f < e
Before(F, e, x) == \/ x \in F /\ Below(e, x) /\ \A f \in F : Below(e, f) => f <= x
                   \/ x = free_list /\ \A f \in F : ~ Below(e, f)

(* The list l links the pages of F in the order of their addresses, except *)
(* that pages of B may have themselves in front.                            *)
Chained(l, F, B) ==
    /\ l \in [{"next", "prev"} -> [Link -> Link]]
    /\ F \subseteq Pages
    /\ \A e \in F \cup {free_list} : /\ After(F, e, l.next[e])
                                     /\ Before(F, e, l.prev[e]) \/ (e \in B /\ l.prev[e] = e)
Linked(l, F) == Chained(l, F, {})

(* p starts a run of free pages that its property counts and that cannot be *)
(* longer.                                                                  *)
Sized(prop, U, p) ==
    /\ prop[p] \in 1..(NPages - p)
    /\ \A x \in Run(p, prop[p]) : x \notin U
    /\ p + prop[p] = NPages \/ p + prop[p] \in U

(* The first pages of the runs of free pages when those of U are not. *)
Starts(U) == {p \in Pages \ U : p = 0 \/ p - 1 \in U}

\* Every run has its size.
AllSized(prop, U) == \A p \in Starts(U) : Sized(prop, U, p)

(* As long as no block was freed behind all others. *)
RunsIInv ==
    /\ PagesTypeOK
    /\ linkage = "merged"
    /\ Linked(links, Starts(used))
    /\ AllSized(property, used)
    /\ flagged = Starts(used)
    /\ nr_free = Cardinality(Pages \ used)
    /\ NeverStops

-----------------------------------------------------------------------------
(* Steps that never lead from inside B to outside stay in B: the only       *)
(* induction the proofs need.                                               *)
LEMMA StaysIn ==
    ASSUME NEW n \in Nat, NEW B, 0 \in B,
           \A i \in 1..n : i - 1 \in B => i \in B
    PROVE  \A i \in 0..n : i \in B
<1> DEFINE Out == {i \in 0..n : i \notin B}
           R == {ss \in Nat \X Nat : ss[1] < ss[2]}
<1>1. SUFFICES ASSUME Out # {} PROVE FALSE OBVIOUS
<1>2. Out \subseteq Nat OBVIOUS
<1>3. IsWellFoundedOn(R, Nat) BY NatLessThanWellFounded, Zenon DEF OpToRel
<1>4. PICK m \in Out : \A y \in Out : ~ (<<y, m>> \in R) BY <1>1, <1>2, <1>3, WFMin
<1>5. m \in 1..n /\ m \notin B /\ m - 1 \in 0..n BY <1>4
<1>6. m - 1 \notin Out
  <2>1. <<m - 1, m>> \in R BY <1>5
  <2> QED BY <1>4, <2>1, Zenon
<1> QED BY <1>5, <1>6

(* A set of numbers that is not empty has a least element. *)
LEMMA Least ==
    ASSUME NEW S, S \subseteq Nat, S # {}
    PROVE  \E m \in S : \A y \in S : m <= y
<1> DEFINE R == {ss \in Nat \X Nat : ss[1] < ss[2]}
<1>1. IsWellFoundedOn(R, Nat) BY NatLessThanWellFounded, Zenon DEF OpToRel
<1>2. PICK m \in S : \A y \in S : ~ (<<y, m>> \in R) BY <1>1, WFMin
<1>3. ASSUME NEW y \in S PROVE m <= y
  <2>1. <<y, m>> \notin R BY <1>2, <1>3, Zenon
  <2> QED BY <2>1
<1> QED BY <1>3

(* Min finds it. *)
LEMMA MinIsLeast ==
    ASSUME NEW S, S \subseteq Nat, S # {}
    PROVE  Min(S) \in S /\ \A y \in S : Min(S) <= y
  BY Least DEF Min

(* What RemoveAt of the community modules returns. *)
LEMMA RemoveAtIs ==
    ASSUME NEW T, NEW s \in Seq(T), NEW k \in DOMAIN s
    PROVE  LET r == RemoveAt(s, k) IN
           /\ r \in Seq(T) /\ Len(r) = Len(s) - 1 /\ DOMAIN r = 1..(Len(s) - 1)
           /\ \A i \in 1..(Len(s) - 1) : r[i] = IF i < k THEN s[i] ELSE s[i + 1]
<1> DEFINE a == SubSeq(s, 1, k - 1)
           b == SubSeq(s, k + 1, Len(s))
<1>1. Len(s) \in Nat /\ k \in 1..Len(s) /\ \A i \in 1..Len(s) : s[i] \in T OBVIOUS
<1>2. a \in Seq(T) /\ Len(a) = k - 1 /\ \A i \in 1..(k - 1) : a[i] = s[i]
  <2>1. 1 \in Int /\ k - 1 \in Int /\ \A i \in 1..(k - 1) : s[i] \in T BY <1>1
  <2> QED BY <1>1, <2>1, SubSeqProperties
<1>3. b \in Seq(T) /\ Len(b) = Len(s) - k /\ \A i \in 1..(Len(s) - k) : b[i] = s[k + i]
  <2>1. k + 1 \in Int /\ Len(s) \in Int /\ \A i \in (k + 1)..Len(s) : s[i] \in T BY <1>1
  <2> QED BY <1>1, <2>1, SubSeqProperties
<1> HIDE DEF a, b
<1>4. /\ a \o b \in Seq(T) /\ Len(a \o b) = Len(s) - 1
      /\ \A i \in 1..(Len(s) - 1) : (a \o b)[i] = IF i <= k - 1 THEN a[i] ELSE b[i - (k - 1)]
  <2>1. /\ a \o b \in Seq(T) /\ Len(a \o b) = Len(a) + Len(b)
        /\ \A i \in 1..(Len(a) + Len(b)) : (a \o b)[i] = IF i <= Len(a) THEN a[i] ELSE b[i - Len(a)]
    BY <1>2, <1>3, ConcatProperties
  <2>2. Len(a) + Len(b) = Len(s) - 1 BY <1>1, <1>2, <1>3
  <2> QED BY <1>2, <2>1, <2>2
<1>5. \A i \in 1..(Len(s) - 1) : (a \o b)[i] = IF i < k THEN s[i] ELSE s[i + 1]
  <2> SUFFICES ASSUME NEW i \in 1..(Len(s) - 1)
               PROVE  (a \o b)[i] = IF i < k THEN s[i] ELSE s[i + 1]
    OBVIOUS
  <2>1. CASE i < k BY <1>1, <1>2, <1>4, <2>1
  <2>2. CASE ~ (i < k)
    <3>1. i - (k - 1) \in 1..(Len(s) - k) /\ k + (i - (k - 1)) = i + 1 /\ ~ (i <= k - 1)
      BY <1>1, <2>2
    <3> QED BY <1>3, <1>4, <2>2, <3>1
  <2> QED BY <2>1, <2>2
<1>6. RemoveAt(s, k) = a \o b BY DEF RemoveAt, a, b
<1> QED BY <1>4, <1>5, <1>6, LenProperties

(* A walk of n steps exists, wherever a step leads. *)
IsWalk(at, n, start, step) == at[0] = start /\ \A k \in 1..n : at[k] = step[at[k - 1]]

(* The walk of n steps along a function exists. *)
LEMMA WalkExists ==
    ASSUME NEW S, NEW step \in [S -> S], NEW start \in S, NEW n \in Nat
    PROVE  \E at \in [0..n -> S] : IsWalk(at, n, start, step)
<1> DEFINE B == {k \in 0..n : \E at \in [0..k -> S] : IsWalk(at, k, start, step)}
<1>1. 0 \in B
  <2> DEFINE one == [i \in 0..0 |-> start]
  <2>1. one \in [0..0 -> S] /\ one[0] = start /\ 1..0 = {} OBVIOUS
  <2>2. IsWalk(one, 0, start, step) BY <2>1, Zenon DEF IsWalk
  <2>3. 0 \in 0..n OBVIOUS
  <2> QED BY <2>1, <2>2, <2>3, Zenon
<1>2. ASSUME NEW k \in 1..n, k - 1 \in B PROVE k \in B
  <2>1. PICK at \in [0..(k - 1) -> S] : IsWalk(at, k - 1, start, step) BY <1>2
  <2> DEFINE longer == [i \in 0..k |-> IF i = k THEN step[at[k - 1]] ELSE at[i]]
  <2>2. longer \in [0..k -> S] OBVIOUS
  <2>3. longer[0] = start BY <2>1 DEF IsWalk
  <2>4. ASSUME NEW i \in 1..k PROVE longer[i] = step[longer[i - 1]]
    <3>1. CASE i = k BY <3>1
    <3>2. CASE i < k BY <2>1, <3>2 DEF IsWalk
    <3> QED BY <3>1, <3>2
  <2>5. IsWalk(longer, k, start, step) BY <2>3, <2>4, Zenon DEF IsWalk
  <2>6. k \in 0..n OBVIOUS
  <2> QED BY <2>2, <2>5, <2>6, Zenon
<1>3. \A k \in 0..n : k \in B
  <2> HIDE DEF B
  <2> QED BY <1>1, <1>2, StaysIn
<1>4. n \in B BY <1>3
<1> QED BY <1>4

-----------------------------------------------------------------------------
(* The loop over the list. *)
LEMMA WalkProperties ==
    ASSUME NEW l \in [{"next", "prev"} -> [Link -> Link]]
    PROVE  /\ Walk(l) \in [0..NPages -> Link]
           /\ Walk(l)[0] = l.next[free_list]
           /\ \A k \in 1..NPages :
                 Walk(l)[k] = IF Walk(l)[k - 1] = free_list THEN free_list ELSE l.next[Walk(l)[k - 1]]
<1> DEFINE step == [e \in Link |-> IF e = free_list THEN free_list ELSE l.next[e]]
           rec(at) == [k \in 0..NPages |-> IF k = 0 THEN l.next[free_list]
                        ELSE IF at[k - 1] = free_list THEN free_list ELSE l.next[at[k - 1]]]
<1>0. NPages \in Nat /\ l.next \in [Link -> Link] /\ free_list \in Link BY PageAssumption DEF Link
<1>1. step \in [Link -> Link] /\ l.next[free_list] \in Link BY <1>0
<1>2. PICK at \in [0..NPages -> Link] :
          at[0] = l.next[free_list] /\ \A k \in 1..NPages : at[k] = step[at[k - 1]]
  <2> HIDE DEF step
  <2>1. \E at \in [0..NPages -> Link] :
           at[0] = l.next[free_list] /\ \A k \in 1..NPages : at[k] = step[at[k - 1]]
    <3>1. \E at \in [0..NPages -> Link] : IsWalk(at, NPages, l.next[free_list], step)
      BY <1>0, <1>1, WalkExists
    <3> QED BY <3>1, Zenon DEF IsWalk
  <2> QED BY <2>1, Zenon
<1>3. at = rec(at)
  <2>1. ASSUME NEW k \in 0..NPages PROVE at[k] = rec(at)[k]
    <3>1. CASE k = 0 BY <1>2, <3>1
    <3>2. CASE k # 0
      <4>1. k \in 1..NPages /\ k - 1 \in 0..NPages BY <1>0, <3>2
      <4>2. at[k] = step[at[k - 1]] /\ at[k - 1] \in Link BY <1>2, <4>1
      <4> QED BY <3>2, <4>2
    <3> QED BY <3>1, <3>2
  <2> QED BY <2>1
<1>4. Walk(l) = CHOOSE f : f = rec(f) BY DEF Walk
<1>5. Walk(l) = rec(Walk(l))
  <2> HIDE DEF rec
  <2> QED BY <1>3, <1>4
<1>6. /\ DOMAIN Walk(l) = 0..NPages
      /\ Walk(l)[0] = l.next[free_list]
      /\ \A k \in 1..NPages :
            Walk(l)[k] = IF Walk(l)[k - 1] = free_list THEN free_list ELSE l.next[Walk(l)[k - 1]]
  <2> DEFINE w == Walk(l)
  <2> SUFFICES /\ DOMAIN w = 0..NPages
               /\ w[0] = l.next[free_list]
               /\ \A k \in 1..NPages : w[k] = IF w[k - 1] = free_list THEN free_list ELSE l.next[w[k - 1]]
    OBVIOUS
  <2>1. w = rec(w) BY <1>5
  <2>2. /\ DOMAIN rec(w) = 0..NPages
        /\ rec(w)[0] = l.next[free_list]
        /\ \A k \in 1..NPages :
              rec(w)[k] = IF w[k - 1] = free_list THEN free_list ELSE l.next[w[k - 1]]
    <3> HIDE DEF w
    <3> QED BY <1>0
  <2> HIDE DEF w, rec
  <2> QED BY <2>1, <2>2
<1>7. \A k \in 0..NPages : Walk(l)[k] \in Link
  <2> DEFINE w == Walk(l)
             B == {k \in 0..NPages : w[k] \in Link}
  <2>1. 0 \in B BY <1>0, <1>1, <1>6
  <2>2. \A k \in 1..NPages : k - 1 \in B => k \in B BY <1>0, <1>6
  <2>3. \A k \in 0..NPages : k \in B
    <3> HIDE DEF B
    <3> QED BY <1>0, <2>1, <2>2, StaysIn
  <2> QED BY <2>3
<1> QED BY <1>5, <1>6, <1>7

(* free_list is no page, but below them all. *)
LEMMA LinkNumbers ==
    /\ free_list = -1 /\ free_list \in Int /\ free_list \notin Pages
    /\ NPages \in Nat /\ NPages > 0
    /\ \A p \in Pages : p \in Int /\ 0 <= p /\ p < NPages /\ p # free_list /\ free_list < p
    /\ Link = Pages \cup {free_list}
  BY PageAssumption DEF free_list, Pages, Link

(* The loop over the list l sees the pages of F, and each one once, in the  *)
(* order of their addresses.                                                *)
LEMMA WalkChained ==
    ASSUME NEW l, NEW F, NEW B, Chained(l, F, B)
    PROVE  /\ Walk(l) \in [0..NPages -> F \cup {free_list}]
           /\ \A k \in 1..NPages : Walk(l)[k] # free_list => Walk(l)[k - 1] # free_list /\ Walk(l)[k - 1] < Walk(l)[k]
           /\ ReachesEnd(l)
           /\ \A e \in F : \E k \in 0..NPages : Walk(l)[k] = e
<1> DEFINE w == Walk(l)
<1>0. /\ NPages \in Nat
      /\ l \in [{"next", "prev"} -> [Link -> Link]]
      /\ free_list \in Int /\ free_list = -1 /\ free_list \notin F
      /\ \A f \in F : f \in Int /\ 0 <= f /\ f < NPages /\ free_list < f
      /\ \A e \in F \cup {free_list} : After(F, e, l.next[e])
  BY LinkNumbers DEF Chained
<1>1. /\ w \in [0..NPages -> Link] /\ w[0] = l.next[free_list]
      /\ \A k \in 1..NPages : w[k] = IF w[k - 1] = free_list THEN free_list ELSE l.next[w[k - 1]]
  BY <1>0, WalkProperties
<1> HIDE DEF w
<1>2. \A k \in 0..NPages : w[k] \in F \cup {free_list}
  <2> DEFINE K == {k \in 0..NPages : w[k] \in F \cup {free_list}}
  <2>1. 0 \in K BY <1>0, <1>1 DEF After
  <2>2. \A k \in 1..NPages : k - 1 \in K => k \in K BY <1>0, <1>1 DEF After
  <2>3. \A k \in 0..NPages : k \in K
    <3> HIDE DEF K
    <3> QED BY <1>0, <2>1, <2>2, StaysIn
  <2> QED BY <2>3
<1>3. \A k \in 1..NPages : w[k] # free_list => w[k - 1] # free_list /\ w[k - 1] < w[k]
  <2> SUFFICES ASSUME NEW k \in 1..NPages, w[k] # free_list
               PROVE  w[k - 1] # free_list /\ w[k - 1] < w[k]
    OBVIOUS
  <2>1. k - 1 \in 0..NPages /\ w[k - 1] # free_list /\ w[k] = l.next[w[k - 1]] BY <1>0, <1>1
  <2>2. w[k - 1] \in F /\ After(F, w[k - 1], w[k]) BY <1>0, <1>2, <2>1
  <2> QED BY <2>1, <2>2 DEF After
<1>4. w[NPages] = free_list
  <2> DEFINE K == {k \in 0..NPages : w[k] = free_list \/ w[k] >= k}
  <2>1. 0 \in K BY <1>0, <1>2
  <2>2. ASSUME NEW k \in 1..NPages, k - 1 \in K PROVE k \in K
    <3>1. CASE w[k] = free_list BY <3>1
    <3>2. CASE w[k] # free_list
      <4>1. w[k - 1] # free_list /\ w[k - 1] < w[k] /\ w[k - 1] >= k - 1 BY <1>3, <2>2, <3>2
      <4>2. w[k] \in F /\ w[k - 1] \in F
        <5>1. k \in 0..NPages /\ k - 1 \in 0..NPages BY <1>0
        <5> QED BY <1>2, <3>2, <4>1, <5>1
      <4> QED BY <1>0, <4>1, <4>2
    <3> QED BY <3>1, <3>2
  <2>3. \A k \in 0..NPages : k \in K
    <3> HIDE DEF K
    <3> QED BY <1>0, <2>1, <2>2, StaysIn
  <2>4. w[NPages] = free_list \/ w[NPages] >= NPages BY <1>0, <2>3
  <2> QED BY <1>0, <1>2, <2>4
<1>5. ASSUME NEW e \in F PROVE \E k \in 0..NPages : w[k] = e
  <2> DEFINE K == {k \in 0..NPages : \/ \E i \in 0..NPages : w[i] = e
                                     \/ w[k] # free_list /\ w[k] < e}
  <2>1. 0 \in K
    <3>1. After(F, free_list, w[0]) /\ e \in Int /\ free_list < e BY <1>0, <1>1, <1>5
    <3>2. w[0] \in F /\ w[0] <= e /\ w[0] # free_list /\ 0 \in 0..NPages
      BY <1>0, <1>5, <3>1 DEF After
    <3>3. w[0] = e \/ w[0] < e
      <4>1. w[0] \in Int BY <1>0, <3>2
      <4> QED BY <3>1, <3>2, <4>1
    <3> QED BY <3>2, <3>3
  <2>2. ASSUME NEW k \in 1..NPages, k - 1 \in K PROVE k \in K
    <3>1. CASE \E i \in 0..NPages : w[i] = e BY <3>1
    <3>2. CASE w[k - 1] # free_list /\ w[k - 1] < e
      <4>1. k \in 0..NPages /\ w[k - 1] \in F /\ w[k] = l.next[w[k - 1]] BY <1>0, <1>1, <1>2, <3>2
      <4>2. After(F, w[k - 1], w[k]) BY <1>0, <4>1
      <4>3. w[k] \in F /\ w[k] <= e /\ w[k] # free_list BY <1>0, <1>5, <3>2, <4>1, <4>2 DEF After
      <4>4. w[k] = e \/ w[k] < e BY <1>0, <1>5, <4>3
      <4> QED BY <4>1, <4>3, <4>4
    <3> QED BY <2>2, <3>1, <3>2
  <2>3. \A k \in 0..NPages : k \in K
    <3> HIDE DEF K
    <3> QED BY <1>0, <2>1, <2>2, StaysIn
  <2>4. NPages \in K BY <1>0, <2>3
  <2> QED BY <1>4, <2>4
<1> QED BY <1>1, <1>2, <1>3, <1>4, <1>5 DEF w, ReachesEnd

(* The loop over a linked list sees its pages, once each. *)
LEMMA EntriesChained ==
    ASSUME NEW l, NEW F, NEW B, Chained(l, F, B)
    PROVE  Entries(l) = F
<1>1. free_list \notin F /\ F \subseteq Pages BY DEF Chained, Pages, free_list
<1>2. /\ DOMAIN Walk(l) = 0..NPages
      /\ \A k \in 0..NPages : Walk(l)[k] \in F \cup {free_list}
      /\ \A e \in F : \E k \in 0..NPages : Walk(l)[k] = e
  <2>1. Walk(l) \in [0..NPages -> F \cup {free_list}] BY WalkChained
  <2>2. \A e \in F : \E k \in 0..NPages : Walk(l)[k] = e BY WalkChained
  <2> QED BY <2>1, <2>2
<1>3. \A e \in Entries(l) : e \in F BY <1>2 DEF Entries, Range
<1>4. \A e \in F : e \in Entries(l) BY <1>1, <1>2 DEF Entries, Range
<1> QED BY <1>3, <1>4

(* The loop breaks at the lowest entry in S. *)
LEMMA FirstChained ==
    ASSUME NEW l, NEW F, NEW B, Chained(l, F, B), NEW S, free_list \notin S
    PROVE  \/ First(l, S) = free_list /\ F \cap S = {}
           \/ First(l, S) \in F \cap S /\ \A e \in F \cap S : First(l, S) <= e
<1> DEFINE w == Walk(l)
<1>0. /\ NPages \in Nat
      /\ free_list \in Int /\ free_list = -1 /\ free_list \notin F
      /\ \A f \in F : f \in Int /\ 0 <= f /\ f < NPages /\ free_list < f
  BY LinkNumbers DEF Chained
<1>1. /\ w \in [0..NPages -> F \cup {free_list}]
      /\ \A k \in 1..NPages : w[k] # free_list => w[k - 1] # free_list /\ w[k - 1] < w[k]
      /\ \A e \in F : \E k \in 0..NPages : w[k] = e
  BY WalkChained
<1>2. CASE Rounds(l, S) = {}
  <2>1. First(l, S) = free_list BY <1>2 DEF First
  <2>2. \A e \in F : e \notin S BY <1>1, <1>2 DEF Rounds
  <2> QED BY <2>1, <2>2
<1>3. CASE Rounds(l, S) # {}
  <2> DEFINE m == Min(Rounds(l, S))
  <2>1. m \in Rounds(l, S) /\ \A k \in Rounds(l, S) : m <= k BY <1>0, <1>3, MinIsLeast DEF Rounds
  <2>2. m \in 0..NPages /\ w[m] \in S /\ \A k \in 0..NPages : w[k] \in S => m <= k
    BY <2>1 DEF Rounds
  <2>3. First(l, S) = w[m] BY <1>3 DEF First
  <2> HIDE DEF m, w
  <2>4. w[m] \in F BY <1>1, <2>2
  <2>5. ASSUME NEW e \in F \cap S PROVE w[m] <= e
    <3>1. PICK j \in 0..NPages : w[j] = e BY <1>1
    <3>2. m <= j BY <2>2, <3>1
    <3> DEFINE K == {k \in 0..NPages : k < m \/ w[k] = free_list \/ w[m] <= w[k]}
    <3>3. 0 \in K
      <4>1. CASE m = 0 BY <1>0, <2>4, <4>1
      <4>2. CASE m # 0 BY <1>0, <2>2, <4>2
      <4> QED BY <4>1, <4>2
    <3>4. ASSUME NEW k \in 1..NPages, k - 1 \in K PROVE k \in K
      <4>0. k \in 0..NPages /\ k - 1 \in 0..NPages /\ m \in 0..NPages BY <1>0, <2>2
      <4>1. CASE k < m BY <4>0, <4>1
      <4>2. CASE k = m BY <1>0, <2>4, <4>0, <4>2
      <4>3. CASE k > m /\ w[k] # free_list
        <5>1. w[k - 1] # free_list /\ w[k - 1] < w[k] BY <1>1, <4>3
        <5>2. w[k] \in F /\ w[k - 1] \in F BY <1>1, <4>0, <4>3, <5>1
        <5>3. w[m] <= w[k - 1] BY <3>4, <4>0, <4>3, <5>1
        <5> QED BY <1>0, <2>4, <4>0, <5>1, <5>2, <5>3
      <4> QED BY <4>0, <4>1, <4>2, <4>3
    <3>5. \A k \in 0..NPages : k \in K
      <4> HIDE DEF K
      <4> QED BY <1>0, <3>3, <3>4, StaysIn
    <3>6. e # free_list /\ ~ (j < m) BY <2>2, <3>2
    <3> QED BY <3>1, <3>5, <3>6
  <2> QED BY <2>2, <2>3, <2>4, <2>5
<1> QED BY <1>2, <1>3

(* So it is with a list that reads the same in both directions. *)
LEMMA WalkLinked ==
    ASSUME NEW l, NEW F, Linked(l, F)
    PROVE  /\ ReachesEnd(l) /\ Entries(l) = F
           /\ \A k \in 1..NPages : Walk(l)[k] # free_list => Walk(l)[k - 1] < Walk(l)[k]
  BY WalkChained, EntriesChained DEF Linked

(* And the loop breaks at the lowest entry in S there, too. *)
LEMMA FirstLinked ==
    ASSUME NEW l, NEW F, Linked(l, F), NEW S, free_list \notin S
    PROVE  \/ First(l, S) = free_list /\ F \cap S = {}
           \/ First(l, S) \in F \cap S /\ \A e \in F \cap S : First(l, S) <= e
  BY FirstChained DEF Linked

-----------------------------------------------------------------------------
(* What becomes of the neighbours of e when elm comes in elsewhere. *)
Numbers(F) == free_list \in Int /\ \A f \in F : f \in Int /\ free_list < f

(* A page added between two neighbours is behind no other page than the     *)
(* first of them,                                                           *)
LEMMA AfterAdd ==
    ASSUME NEW F, Numbers(F), NEW elm \in Int, free_list < elm,
           NEW before \in F \cup {free_list}, NEW after, After(F, before, after),
           before < elm, after = free_list \/ elm < after,
           NEW e \in F \cup {free_list}, e # before, NEW x, After(F, e, x)
    PROVE  After(F \cup {elm}, e, x)
<1>0. e \in Int /\ before \in Int /\ (x \in F => x \in Int) /\ (after \in F => after \in Int)
  BY DEF Numbers
<1>1. before < e => elm < e BY <1>0 DEF After, Numbers
<1>2. e < before => before \in F BY <1>0 DEF Numbers
<1>3. e < elm => before \in F /\ e < before BY <1>0, <1>1, <1>2
<1>4. CASE x \in F /\ e < x /\ \A f \in F : e < f => x <= f
  <2>1. e < elm => x <= elm BY <1>0, <1>3, <1>4
  <2> QED BY <1>4, <2>1 DEF After
<1>5. CASE x = free_list /\ \A f \in F : f <= e
  <2>1. elm <= e BY <1>0, <1>3, <1>5
  <2> QED BY <1>5, <2>1 DEF After
<1> QED BY <1>4, <1>5 DEF After

(* and in front of no other than the second. *)
LEMMA BeforeAdd ==
    ASSUME NEW F, Numbers(F), NEW elm \in Int, free_list < elm,
           NEW after \in F \cup {free_list}, NEW before, Before(F, after, before),
           before < elm, after = free_list \/ elm < after,
           NEW e \in F \cup {free_list}, e # after, NEW x, Before(F, e, x)
    PROVE  Before(F \cup {elm}, e, x)
<1>0. e \in Int /\ after \in Int /\ (x \in F => x \in Int) /\ (before \in F => before \in Int)
  BY DEF Numbers
<1>1. e # free_list /\ Below(after, e) => e < elm
  <2> SUFFICES ASSUME e # free_list, Below(after, e) PROVE e < elm
    OBVIOUS
  <2>1. e \in F OBVIOUS
  <2>2. before \in F /\ e <= before BY <2>1 DEF Before
  <2> QED BY <1>0, <2>2
<1>2. Below(e, elm) => after \in F /\ Below(e, after) BY <1>0, <1>1 DEF Below, Numbers
<1>3. Below(e, elm) => elm < after BY <1>2 DEF Numbers
<1>4. CASE x \in F /\ Below(e, x) /\ \A f \in F : Below(e, f) => f <= x
  <2>1. Below(e, elm) => elm <= x
    <3>1. Below(e, elm) => after <= x BY <1>2, <1>4
    <3> QED BY <1>0, <1>3, <1>4, <3>1
  <2> QED BY <1>4, <2>1 DEF Before
<1>5. CASE x = free_list /\ \A f \in F : ~ Below(e, f)
  <2>1. ~ Below(e, elm) BY <1>2, <1>5
  <2> QED BY <1>5, <2>1 DEF Before
<1> QED BY <1>4, <1>5 DEF Before

(* And when it goes. *)
LEMMA AfterDel ==
    ASSUME NEW F, Numbers(F), NEW elm \in F, NEW before, Before(F, elm, before),
           NEW e \in F \cup {free_list}, e # elm, e # before, NEW x, After(F, e, x)
    PROVE  After(F \ {elm}, e, x) /\ x # elm
<1>0. e \in Int /\ elm \in Int /\ (before \in F => before \in Int) /\ (x \in F => x \in Int)
      /\ elm # free_list /\ free_list < elm
  BY DEF Numbers
<1>1. x # elm
  <2> SUFFICES ASSUME x = elm PROVE FALSE
    OBVIOUS
  <2>1. e < elm /\ \A f \in F : e < f => elm <= f BY <1>0 DEF After
  <2>2. Below(elm, e) BY <2>1 DEF Below
  <2>3. CASE e \in F
    <3>1. before \in F /\ before < elm /\ e <= before BY <1>0, <2>2, <2>3 DEF Before, Below
    <3> QED BY <1>0, <2>1, <3>1
  <2>4. CASE e = free_list
    <3>1. before \in F /\ before < elm BY <1>0, <2>4 DEF Before, Below
    <3>2. e < before BY <2>4, <3>1 DEF Numbers
    <3> QED BY <1>0, <2>1, <3>1, <3>2
  <2> QED BY <2>3, <2>4
<1> QED BY <1>1 DEF After

(* A page taken out is in front of its successor only, *)
LEMMA BeforeDel ==
    ASSUME NEW F, Numbers(F), NEW elm \in F, NEW after, After(F, elm, after),
           NEW e \in F \cup {free_list}, e # elm, e # after, NEW x, Before(F, e, x)
    PROVE  Before(F \ {elm}, e, x) /\ x # elm
<1>0. e \in Int /\ elm \in Int /\ (after \in F => after \in Int) /\ (x \in F => x \in Int)
      /\ elm # free_list /\ free_list < elm
  BY DEF Numbers
<1>1. x # elm
  <2> SUFFICES ASSUME x = elm PROVE FALSE
    OBVIOUS
  <2>1. Below(e, elm) /\ \A f \in F : Below(e, f) => f <= elm BY <1>0 DEF Before
  <2>3. CASE e \in F
    <3>1. e # free_list /\ elm < e BY <1>0, <2>1, <2>3 DEF Below, Numbers
    <3>2. after \in F /\ elm < after /\ after <= e BY <1>0, <2>3, <3>1 DEF After
    <3>3. Below(e, after) BY <1>0, <3>2 DEF Below
    <3>4. after <= elm BY <2>1, <3>2, <3>3
    <3> QED BY <1>0, <3>2, <3>4
  <2>4. CASE e = free_list
    <3>1. after \in F /\ elm < after BY <1>0, <2>4 DEF After
    <3>2. Below(e, after) BY <2>4 DEF Below
    <3>3. after <= elm BY <2>1, <3>1, <3>2
    <3> QED BY <1>0, <3>1, <3>3
  <2> QED BY <2>3, <2>4
<1> QED BY <1>1 DEF Before

(* What is next to elm. *)
LEMMA BesideAdd ==
    ASSUME NEW F, Numbers(F), NEW elm \in Int, free_list < elm,
           NEW before \in F \cup {free_list}, NEW after \in F \cup {free_list},
           After(F, before, after), Before(F, after, before),
           before < elm, after = free_list \/ elm < after
    PROVE  /\ After(F \cup {elm}, before, elm) /\ Before(F \cup {elm}, after, elm)
           /\ After(F \cup {elm}, elm, after) /\ Before(F \cup {elm}, elm, before)
<1>0. before \in Int /\ after \in Int BY DEF Numbers
<1>1. ASSUME NEW f \in F PROVE /\ before < f <=> elm < f
                               /\ f < elm <=> f <= before
                               /\ Below(after, f) <=> f <= before
                               /\ before < f => after \in F /\ after <= f
                               /\ f <= before => before \in F
  <2>1. f \in Int /\ free_list < f BY DEF Numbers
  <2>2. before < f => after \in F /\ after <= f /\ elm < f BY <1>0, <2>1 DEF After, Numbers
  <2>3. Below(after, f) => f <= before BY <1>0, <2>1 DEF Before
  <2>4. f <= before => Below(after, f) BY <1>0, <2>1 DEF Below
  <2> QED BY <1>0, <2>1, <2>2, <2>3, <2>4 DEF Numbers
<1>2. After(F \cup {elm}, before, elm) BY <1>0, <1>1 DEF After, Numbers
<1>3. Before(F \cup {elm}, after, elm)
  <2>1. Below(after, elm) BY DEF Below
  <2>2. ASSUME NEW f \in F, Below(after, f) PROVE f <= elm BY <1>0, <1>1, <2>2 DEF Numbers
  <2> QED BY <2>1, <2>2 DEF Before
<1>4. After(F \cup {elm}, elm, after)
  <2>1. CASE after \in F
    <3>1. elm < after BY <2>1 DEF Numbers
    <3> QED BY <1>1, <2>1, <3>1 DEF After
  <2>2. CASE after = free_list
    <3>1. free_list \notin F /\ \A f \in F : f \in Int BY DEF Numbers
    <3>2. \A f \in F : f <= elm BY <1>0, <1>1, <2>2, <3>1
    <3> QED BY <2>2, <3>2 DEF After
  <2> QED BY <2>1, <2>2
<1>5. Before(F \cup {elm}, elm, before)
  <2>1. elm # free_list /\ free_list \notin F BY DEF Numbers
  <2>2. CASE before \in F BY <1>1, <2>1, <2>2 DEF Before, Below
  <2>3. CASE before = free_list
    <3>1. \A f \in F : ~ (f < elm) BY <1>1, <2>1, <2>3
    <3> QED BY <2>1, <2>3, <3>1 DEF Before, Below
  <2> QED BY <2>2, <2>3
<1> QED BY <1>2, <1>3, <1>4, <1>5

(* and its neighbours become each other's. *)
LEMMA BesideDel ==
    ASSUME NEW F, Numbers(F), NEW elm \in F,
           NEW before, NEW after, After(F, elm, after), Before(F, elm, before)
    PROVE  After(F \ {elm}, before, after) /\ Before(F \ {elm}, after, before)
<1>0. /\ elm \in Int /\ elm # free_list /\ free_list \in Int /\ free_list < elm
      /\ after \in F => after \in Int /\ elm < after
      /\ before \in F => before \in Int /\ before < elm
      /\ free_list \notin F
  BY DEF Numbers, After, Before, Below
<1>1. after \in F \/ after = free_list BY DEF After
<1>2. before \in F \/ before = free_list BY DEF Before
<1>3. ASSUME NEW f \in F \ {elm} PROVE /\ f \in Int
                                       /\ before < f => elm < f
                                       /\ elm < f => after \in F /\ after <= f
                                       /\ f < elm => before \in F /\ f <= before
  <2>1. f \in Int /\ free_list < f BY DEF Numbers
  <2>2. f < elm => before \in F /\ f <= before BY <1>0, <2>1 DEF Before, Below
  <2>3. elm < f => after \in F /\ after <= f BY <1>0, <2>1 DEF After
  <2> QED BY <1>0, <2>1, <2>2, <2>3
<1>4. After(F \ {elm}, before, after)
  <2>1. CASE after \in F
    <3>1. after \in F \ {elm} /\ before < after BY <1>0, <1>2, <2>1
    <3> QED BY <1>3, <3>1 DEF After
  <2>2. CASE after = free_list
    <3>1. ASSUME NEW f \in F \ {elm} PROVE f <= before
      <4>1. f < elm BY <1>0, <1>3, <2>2
      <4> QED BY <1>3, <4>1
    <3> QED BY <2>2, <3>1 DEF After
  <2> QED BY <1>1, <2>1, <2>2
<1>5. Before(F \ {elm}, after, before)
  <2>1. ASSUME NEW f \in F \ {elm}, Below(after, f) PROVE before \in F /\ f <= before
    <3>1. f < elm BY <1>0, <1>3, <2>1 DEF Below
    <3> QED BY <1>3, <3>1
  <2>2. CASE before \in F
    <3>1. before \in F \ {elm} /\ Below(after, before) BY <1>0, <1>1, <2>2 DEF Below
    <3> QED BY <2>1, <3>1 DEF Before
  <2>3. CASE before = free_list BY <1>0, <2>1, <2>3 DEF Before
  <2> QED BY <1>2, <2>2, <2>3
<1> QED BY <1>4, <1>5

(* A page is put between two neighbours. *)
LEMMA BetweenChained ==
    ASSUME NEW l, NEW F, NEW B, Chained(l, F, B), NEW elm \in Pages, elm \notin F,
           NEW before \in F \cup {free_list}, NEW after \in F \cup {free_list},
           l.next[before] = after, Before(F, after, before),
           before < elm, after = free_list \/ elm < after
    PROVE  Chained(Between(l, elm, before, after), F \cup {elm}, B)
<1> DEFINE ll == Between(l, elm, before, after)
           FF == F \cup {elm}
<1>0. /\ NPages \in Nat /\ elm \in Int /\ 0 <= elm
      /\ free_list \in Int /\ free_list = -1 /\ free_list \notin F
      /\ \A f \in F : f \in Int /\ 0 <= f /\ f < NPages /\ free_list < f
      /\ l \in [{"next", "prev"} -> [Link -> Link]]
      /\ \A e \in F \cup {free_list} : After(F, e, l.next[e])
      /\ \A e \in F \cup {free_list} : Before(F, e, l.prev[e]) \/ (e \in B /\ l.prev[e] = e)
      /\ elm \in Link /\ before \in Link /\ after \in Link /\ F \subseteq Link /\ free_list \in Link
      /\ elm # before /\ elm # after
  BY LinkNumbers DEF Chained
<1>1. l.next \in [Link -> Link] /\ l.prev \in [Link -> Link] BY <1>0
<1>2. /\ ll.next = [[l.next EXCEPT ![before] = elm] EXCEPT ![elm] = after]
      /\ ll.prev = [[l.prev EXCEPT ![after] = elm] EXCEPT ![elm] = before]
      /\ ll \in [{"next", "prev"} -> [Link -> Link]]
  BY <1>0, <1>1 DEF Between
<1>3. /\ \A e \in Link : ll.next[e] = IF e = elm THEN after ELSE IF e = before THEN elm ELSE l.next[e]
      /\ \A e \in Link : ll.prev[e] = IF e = elm THEN before ELSE IF e = after THEN elm ELSE l.prev[e]
  BY <1>0, <1>1, <1>2
<1>4. After(F, before, after) /\ Before(F, after, before) BY <1>0
<1> HIDE DEF ll
<1>n. Numbers(F) BY <1>0 DEF Numbers
<1>b. /\ After(FF, before, elm) /\ Before(FF, after, elm)
      /\ After(FF, elm, after) /\ Before(FF, elm, before)
  BY <1>0, <1>n, <1>4, BesideAdd
<1>c. ll.next[elm] = after /\ ll.next[before] = elm /\ ll.prev[elm] = before /\ ll.prev[after] = elm
  BY <1>0, <1>3
<1>5. ASSUME NEW e \in FF \cup {free_list} PROVE After(FF, e, ll.next[e])
  <2>1. CASE e = elm BY <1>b, <1>c, <2>1
  <2>2. CASE e = before BY <1>b, <1>c, <2>2
  <2>3. CASE e # elm /\ e # before
    <3>1. ll.next[e] = l.next[e] /\ e \in F \cup {free_list} /\ After(F, e, l.next[e])
      BY <1>0, <1>3, <2>3
    <3>2. PICK x : x = l.next[e] OBVIOUS
    <3>3. After(F, e, x) /\ e # before /\ free_list < elm /\ elm \in Int BY <1>0, <2>3, <3>1, <3>2
    <3>4. After(F \cup {elm}, e, x) BY <1>4, <1>n, <3>1, <3>3, AfterAdd
    <3> QED BY <3>1, <3>2, <3>4
  <2> QED BY <2>1, <2>2, <2>3
<1>6. ASSUME NEW e \in FF \cup {free_list} PROVE Before(FF, e, ll.prev[e]) \/ (e \in B /\ ll.prev[e] = e)
  <2>1. CASE e = elm BY <1>b, <1>c, <2>1
  <2>2. CASE e = after BY <1>b, <1>c, <2>2
  <2>3. CASE e # elm /\ e # after
    <3>1. ll.prev[e] = l.prev[e] /\ e \in F \cup {free_list} BY <1>0, <1>3, <2>3
    <3>0. SUFFICES ASSUME Before(F, e, l.prev[e]) PROVE Before(FF, e, ll.prev[e])
      BY <1>0, <3>1
    <3>2. PICK x : x = l.prev[e] OBVIOUS
    <3>3. Before(F, e, x) /\ e # after /\ free_list < elm /\ elm \in Int BY <1>0, <2>3, <3>0, <3>1, <3>2
    <3>4. Before(F \cup {elm}, e, x) BY <1>4, <1>n, <3>1, <3>3, BeforeAdd
    <3> QED BY <3>1, <3>2, <3>4
  <2> QED BY <2>1, <2>2, <2>3
<1> QED BY <1>0, <1>2, <1>5, <1>6 DEF Chained, ll

(* The same in a list that reads the same in both directions, *)
LEMMA BetweenLinked ==
    ASSUME NEW l, NEW F, Linked(l, F), NEW elm \in Pages, elm \notin F,
           NEW before \in F \cup {free_list}, NEW after \in F \cup {free_list},
           l.next[before] = after, l.prev[after] = before,
           before < elm, after = free_list \/ elm < after
    PROVE  Linked(Between(l, elm, before, after), F \cup {elm})
<1>1. Chained(l, F, {}) BY DEF Linked
<1>2. Before(F, after, before) BY <1>1 DEF Chained
<1> QED BY <1>1, <1>2, BetweenChained DEF Linked

(* A page is taken out of the list. *)
LEMMA DelChained ==
    ASSUME NEW l, NEW F, NEW B, Chained(l, F, B), NEW elm \in F, l.prev[elm] # elm
    PROVE  Chained(list_del(l, elm), F \ {elm}, B)
<1> DEFINE ll == list_del(l, elm)
           FF == F \ {elm}
           before == l.prev[elm]
           after == l.next[elm]
<1>0. /\ NPages \in Nat
      /\ free_list \in Int /\ free_list = -1 /\ free_list \notin F
      /\ \A f \in F : f \in Int /\ 0 <= f /\ f < NPages /\ free_list < f
      /\ l \in [{"next", "prev"} -> [Link -> Link]]
      /\ \A e \in F \cup {free_list} : After(F, e, l.next[e])
      /\ \A e \in F \cup {free_list} : Before(F, e, l.prev[e]) \/ (e \in B /\ l.prev[e] = e)
      /\ F \subseteq Link /\ free_list \in Link /\ elm \in Link
  BY LinkNumbers DEF Chained
<1>1. l.next \in [Link -> Link] /\ l.prev \in [Link -> Link] /\ before \in Link /\ after \in Link
  BY <1>0
<1>2. After(F, elm, after) /\ Before(F, elm, before) BY <1>0
<1>3. /\ ll.next = [l.next EXCEPT ![before] = after]
      /\ ll.prev = [l.prev EXCEPT ![after] = before]
      /\ ll \in [{"next", "prev"} -> [Link -> Link]]
  BY <1>0, <1>1 DEF list_del
<1> HIDE DEF ll, before, after
<1>4. /\ \A e \in Link : ll.next[e] = IF e = before THEN after ELSE l.next[e]
      /\ \A e \in Link : ll.prev[e] = IF e = after THEN before ELSE l.prev[e]
  BY <1>1, <1>3
<1>n. Numbers(F) BY <1>0 DEF Numbers
<1>5. ASSUME NEW e \in FF \cup {free_list} PROVE After(FF, e, ll.next[e])
  <2>1. CASE e = before BY <1>0, <1>n, <1>2, <1>4, <2>1, BesideDel
  <2>2. CASE e # before
    <3>1. ll.next[e] = l.next[e] /\ e \in F \cup {free_list} /\ After(F, e, l.next[e]) /\ e # elm
      BY <1>0, <1>4, <2>2 DEF free_list
    <3> QED BY <1>0, <1>2, <2>2, <1>n, <3>1, AfterDel
  <2> QED BY <2>1, <2>2
<1>6. ASSUME NEW e \in FF \cup {free_list} PROVE Before(FF, e, ll.prev[e]) \/ (e \in B /\ ll.prev[e] = e)
  <2>1. CASE e = after BY <1>0, <1>n, <1>2, <1>4, <2>1, BesideDel
  <2>2. CASE e # after
    <3>1. ll.prev[e] = l.prev[e] /\ e \in F \cup {free_list} /\ e # elm
      BY <1>0, <1>4, <2>2 DEF free_list
    <3>2. CASE Before(F, e, l.prev[e]) BY <1>0, <1>2, <2>2, <1>n, <3>1, <3>2, BeforeDel
    <3>3. CASE e \in B /\ l.prev[e] = e BY <3>1, <3>3
    <3> QED BY <1>0, <3>1, <3>2, <3>3
  <2> QED BY <2>1, <2>2
<1> QED BY <1>0, <1>3, <1>5, <1>6 DEF Chained, Pages, ll

(* and again where both directions agree. *)
LEMMA DelLinked ==
    ASSUME NEW l, NEW F, Linked(l, F), NEW elm \in F
    PROVE  Linked(list_del(l, elm), F \ {elm})
<1>1. Chained(l, F, {}) BY DEF Linked
<1>2. Before(F, elm, l.prev[elm]) BY <1>1 DEF Chained
<1>3. l.prev[elm] # elm /\ F \subseteq Pages BY <1>1, <1>2, LinkNumbers DEF Before, Below, Chained
<1> QED BY <1>1, <1>3, DelChained DEF Linked

-----------------------------------------------------------------------------

(* What a page is. *)
LEMMA PageIs ==
    ASSUME NEW x
    PROVE  x \in Pages <=> x \in Int /\ 0 <= x /\ x < NPages
  BY PageAssumption DEF Pages

(* What a run of pages contains. *)
LEMMA InRun ==
    ASSUME NEW base \in Int, NEW n \in Int, NEW x
    PROVE  x \in Run(base, n) <=> x \in Int /\ base <= x /\ x < base + n
  BY DEF Run

(* Every free page is in a run that has a first page. *)
LEMMA StartBelow ==
    ASSUME NEW U, NEW x \in Pages, x \notin U
    PROVE  \E s \in Starts(U) : s <= x /\ \A y \in s..x : y \notin U
<1> DEFINE S == {s \in Pages : s <= x /\ \A y \in s..x : y \notin U}
<1>0. NPages \in Nat /\ x \in Int /\ 0 <= x /\ x < NPages BY LinkNumbers
<1>1. x \in S BY <1>0
<1>2. S \subseteq Nat BY LinkNumbers
<1>3. PICK s \in S : \A y \in S : s <= y BY <1>1, <1>2, Least
<1>4. s \in Int /\ 0 <= s /\ s <= x /\ s \in Pages /\ s \notin U /\ \A y \in s..x : y \notin U
  BY <1>0, <1>3, LinkNumbers
<1>5. s = 0 \/ s - 1 \in U
  <2> SUFFICES ASSUME s # 0, s - 1 \notin U PROVE FALSE
    OBVIOUS
  <2>1. s - 1 \in Pages /\ s - 1 <= x BY <1>0, <1>4, PageIs
  <2>2. \A y \in (s - 1)..x : y \notin U BY <1>0, <1>4
  <2>3. s - 1 \in S BY <2>1, <2>2
  <2> QED BY <1>3, <1>4, <2>3
<1> QED BY <1>4, <1>5 DEF Starts

(* A start of a free run is free and the page below it is not. *)
LEMMA StartIs ==
    ASSUME NEW U, NEW p \in Starts(U)
    PROVE  p \in Pages /\ p \in Int /\ 0 <= p /\ p < NPages /\ p \notin U /\ (p = 0 \/ p - 1 \in U)
  BY LinkNumbers DEF Starts

(* A size that is right reaches up to the next used page. *)
LEMMA SizedIs ==
    ASSUME NEW prop, NEW U, NEW p \in Pages, Sized(prop, U, p)
    PROVE  /\ prop[p] \in Int /\ 1 <= prop[p] /\ p + prop[p] <= NPages
           /\ \A x \in Int : p <= x /\ x < p + prop[p] => x \notin U
           /\ p + prop[p] = NPages \/ p + prop[p] \in U
  BY LinkNumbers, InRun DEF Sized

(* Runs do not meet. *)
LEMMA RunsApart ==
    ASSUME NEW U, U \subseteq Pages, NEW prop, AllSized(prop, U),
           NEW p \in Starts(U), NEW q \in Starts(U), p < q
    PROVE  p + prop[p] < q
<1>1. p \in Int /\ q \in Int /\ q \in Pages /\ p \in Pages /\ q \notin U /\ q - 1 \in U /\ q < NPages /\ 0 <= p
  BY StartIs
<1>2. /\ prop[p] \in Int /\ 1 <= prop[p] /\ p + prop[p] <= NPages
      /\ \A x \in Int : p <= x /\ x < p + prop[p] => x \notin U
      /\ p + prop[p] = NPages \/ p + prop[p] \in U
  BY <1>1, SizedIs DEF AllSized
<1>3. ~ (p <= q - 1 /\ q - 1 < p + prop[p]) BY <1>1, <1>2
<1>4. p + prop[p] # q BY <1>1, <1>2, LinkNumbers
<1> QED BY <1>1, <1>2, <1>3, <1>4

(* A request for the first n pages of a run leaves the others as they are,  *)
(* and what it does not take as a new one.                                  *)
LEMMA StartsAlloc ==
    ASSUME NEW U, U \subseteq Pages, NEW prop, AllSized(prop, U),
           NEW p \in Starts(U), NEW n \in Int, 1 <= n, n <= prop[p]
    PROVE  /\ Run(p, n) \subseteq Pages /\ \A x \in Run(p, n) : x \notin U
           /\ p + n \notin Starts(U)
           /\ n = prop[p] => Starts(U \cup Run(p, n)) = Starts(U) \ {p}
           /\ n < prop[p] => /\ p + n \in Pages
                             /\ Starts(U \cup Run(p, n)) = (Starts(U) \ {p}) \cup {p + n}
<1> DEFINE V == U \cup Run(p, n)
<1>1. p \in Int /\ p \in Pages /\ p \notin U /\ 0 <= p /\ (p = 0 \/ p - 1 \in U) BY StartIs
<1>2. /\ prop[p] \in Int /\ 1 <= prop[p] /\ p + prop[p] <= NPages
      /\ \A x \in Int : p <= x /\ x < p + prop[p] => x \notin U
      /\ p + prop[p] = NPages \/ p + prop[p] \in U
  BY <1>1, SizedIs DEF AllSized
<1>3. \A x : x \in Run(p, n) <=> x \in Int /\ p <= x /\ x < p + n BY <1>1, InRun
<1>4. ASSUME NEW x \in Run(p, n) PROVE x \in Pages /\ x \notin U
  <2>1. x \in Int /\ p <= x /\ x < p + n BY <1>3
  <2>2. 0 <= x /\ x < NPages /\ x < p + prop[p] BY <1>1, <1>2, <2>1, LinkNumbers
  <2> QED BY <1>2, <2>1, <2>2, PageIs
<1>5. p + n \notin Starts(U)
  <2> SUFFICES ASSUME p + n \in Starts(U) PROVE FALSE
    OBVIOUS
  <2>1. p + n - 1 \in U BY <1>1, StartIs
  <2>2. p <= p + n - 1 /\ p + n - 1 < p + prop[p] /\ p + n - 1 \in Int BY <1>1, <1>2
  <2> QED BY <1>2, <2>1, <2>2
<1>6. ASSUME NEW q \in Starts(U) \ {p} PROVE q \in Starts(V)
  <2>1. q \in Pages /\ q \in Int /\ q \notin U /\ (q = 0 \/ q - 1 \in U) BY StartIs
  <2>2. q \notin Run(p, n)
    <3> SUFFICES ASSUME p < q, q < p + n PROVE FALSE
      BY <1>1, <1>3, <2>1
    <3>1. q - 1 \in Int /\ p <= q - 1 /\ q - 1 < p + prop[p] /\ q # 0 BY <1>1, <1>2, <2>1
    <3> QED BY <1>2, <2>1, <3>1
  <2> QED BY <2>1, <2>2 DEF Starts
<1>7. ASSUME NEW q \in Starts(V) PROVE q \in Starts(U) \ {p} \/ (q = p + n /\ n < prop[p])
  <2>1. q \in Pages /\ q \in Int /\ q \notin U /\ q \notin Run(p, n) /\ 0 <= q /\ q < NPages
        /\ (q = 0 \/ q - 1 \in U \/ q - 1 \in Run(p, n))
    BY StartIs
  <2>2. q # p BY <1>1, <1>3, <2>1
  <2>3. CASE q = 0 \/ q - 1 \in U BY <2>1, <2>2, <2>3 DEF Starts
  <2>4. CASE q - 1 \in Run(p, n)
    <3>1. q = p + n BY <1>1, <1>3, <2>1, <2>4
    <3>2. n # prop[p] BY <1>2, <2>1, <3>1
    <3> QED BY <1>2, <3>1, <3>2
  <2> QED BY <2>1, <2>3, <2>4
<1>8. n < prop[p] => p + n \in Pages /\ p + n \in Starts(V)
  <2> SUFFICES ASSUME n < prop[p] PROVE p + n \in Pages /\ p + n \in Starts(V)
    OBVIOUS
  <2>1. p + n \in Int /\ 0 <= p + n /\ p + n < NPages /\ p + n \notin U BY <1>1, <1>2, LinkNumbers
  <2>2. p + n \in Pages BY <2>1, PageIs
  <2>3. p + n \notin Run(p, n) /\ (p + n) - 1 \in Run(p, n) BY <1>1, <1>3, <2>1
  <2>4. p + n \in Pages \ V /\ (p + n) - 1 \in V BY <2>1, <2>2, <2>3
  <2> HIDE DEF V
  <2> QED BY <2>2, <2>4, Zenon DEF Starts
<1> HIDE DEF V
<1>9. n = prop[p] => Starts(V) = Starts(U) \ {p} BY <1>6, <1>7
<1>10. n < prop[p] => Starts(V) = (Starts(U) \ {p}) \cup {p + n} BY <1>6, <1>7, <1>8
<1> QED BY <1>4, <1>5, <1>8, <1>9, <1>10 DEF V

\* The page in front of base is free.
Low(U, base) == base # 0 /\ base - 1 \notin U

(* What is given back joins the runs it touches. *)
LEMMA StartsFree ==
    ASSUME NEW U, U \subseteq Pages, NEW base \in Pages, NEW n \in Int, 1 <= n, Run(base, n) \subseteq U
    PROVE  /\ base \notin Starts(U)
           /\ Low(U, base) => Starts(U \ Run(base, n)) = Starts(U) \ {base + n}
           /\ ~ Low(U, base) =>
                 Starts(U \ Run(base, n)) = (Starts(U) \cup {base}) \ {base + n}
           /\ base + n \in Starts(U) <=> base + n \in Pages \ U
<1> DEFINE V == U \ Run(base, n)
           low == Low(U, base)
<1>1. base \in Int /\ 0 <= base /\ base < NPages BY PageIs
<1>2. \A x : x \in Run(base, n) <=> x \in Int /\ base <= x /\ x < base + n BY <1>1, InRun
<1>3. base \in U /\ base + n - 1 \in U /\ base + n - 1 \in Run(base, n) /\ base \in Run(base, n) /\ base \notin Starts(U)
  BY <1>1, <1>2, StartIs
<1>4. base + n \in Starts(U) <=> base + n \in Pages \ U BY <1>1, <1>3 DEF Starts
<1>5. ASSUME NEW q \in Starts(U), q # base + n PROVE q \in Starts(V) /\ q # base
  <2>1. q \in Pages /\ q \in Int /\ q \notin U /\ (q = 0 \/ q - 1 \in U) BY StartIs
  <2>2. q - 1 \notin Run(base, n) /\ q # base BY <1>1, <1>2, <1>3, <1>5, <2>1
  <2> QED BY <2>1, <2>2 DEF Starts
<1>6. ASSUME NEW q \in Starts(V) PROVE q # base + n /\ (q \in Starts(U) \/ (q = base /\ ~ low))
  <2>1. q \in Pages /\ q \in Int /\ 0 <= q /\ (q \notin U \/ q \in Run(base, n))
        /\ (q = 0 \/ (q - 1 \in U /\ q - 1 \notin Run(base, n)))
    BY StartIs
  <2>2. q # base + n BY <1>1, <1>3, <2>1
  <2>3. CASE q \notin U BY <2>1, <2>2, <2>3 DEF Starts
  <2>4. CASE q \in Run(base, n)
    <3>1. q = base BY <1>1, <1>2, <2>1, <2>4
    <3> QED BY <2>1, <2>2, <3>1 DEF Low
  <2> QED BY <2>1, <2>3, <2>4
<1>7. ~ low => base \in Starts(V) BY <1>1, <1>2, <1>3 DEF Starts, Low
<1> HIDE DEF V
<1>8. low => Starts(V) = Starts(U) \ {base + n} BY <1>5, <1>6
<1>9. ~ low => Starts(V) = (Starts(U) \cup {base}) \ {base + n}
  <2>1. base # base + n BY <1>1
  <2> HIDE DEF low
  <2> QED BY <1>5, <1>6, <1>7, <2>1
<1> QED BY <1>3, <1>4, <1>8, <1>9 DEF V

(* Length measures a run. *)
LEMMA LengthIs ==
    ASSUME NEW prop, NEW p \in Pages, Sized(prop, used, p)
    PROVE  prop[p] = Length(p)
<1> DEFINE S == {n \in 1..(NPages - p) : Run(p, n) \cap used = {}}
<1>1. p \in Int /\ 0 <= p /\ p < NPages /\ NPages \in Nat BY LinkNumbers
<1>2. /\ prop[p] \in Int /\ 1 <= prop[p] /\ p + prop[p] <= NPages
      /\ \A x \in Int : p <= x /\ x < p + prop[p] => x \notin used
      /\ p + prop[p] = NPages \/ p + prop[p] \in used
  BY SizedIs
<1>3. prop[p] \in S
  <2>1. \A x \in Run(p, prop[p]) : x \notin used BY <1>1, <1>2, InRun
  <2> QED BY <1>1, <1>2, <2>1
<1>4. ASSUME NEW n \in S PROVE n <= prop[p]
  <2> SUFFICES ASSUME n > prop[p] PROVE FALSE
    BY <1>2
  <2>1. n \in Int /\ n <= NPages - p BY <1>1
  <2>2. p + prop[p] \in Run(p, n) /\ p + prop[p] \in used BY <1>1, <1>2, <2>1, InRun
  <2> QED BY <2>2
<1>5. \A n \in S : n \in Int BY <1>1
<1>6. Max(S) = prop[p]
  <2> HIDE DEF S
  <2> QED BY <1>2, <1>3, <1>4, <1>5 DEF Max
<1> QED BY <1>6 DEF Length

-----------------------------------------------------------------------------
(* The links of a list lead back. *)
LEMMA BackAgain ==
    ASSUME NEW F, Numbers(F), NEW e \in F \cup {free_list}, NEW x \in F \cup {free_list}
    PROVE  /\ \A y : After(F, e, x) /\ Before(F, x, y) => y = e
           /\ \A y : Before(F, e, x) /\ After(F, x, y) => y = e
<1>0. e \in Int /\ x \in Int /\ free_list \notin F /\ free_list \in Int BY DEF Numbers
<1>1. ASSUME NEW y, After(F, e, x), Before(F, x, y) PROVE y = e
  <2>1. e \in F => Below(x, e) BY <1>0, <1>1 DEF After, Below
  <2>2. CASE y \in F
    <3>1. y \in Int /\ free_list < y /\ Below(x, y) BY <1>0, <1>1, <2>2 DEF Before, Numbers
    <3>2. ~ (e < y) BY <1>0, <1>1, <2>2, <3>1 DEF After, Below
    <3>3. e \in F BY <1>0, <3>1, <3>2
    <3>4. e <= y BY <1>0, <1>1, <2>1, <2>2, <3>3 DEF Before
    <3> QED BY <1>0, <3>1, <3>2, <3>4
  <2>3. CASE y = free_list BY <1>0, <1>1, <2>1, <2>3 DEF Before
  <2> QED BY <1>1, <2>2, <2>3 DEF Before
<1>2. ASSUME NEW y, Before(F, e, x), After(F, x, y) PROVE y = e
  <2>1. e \in F => x < e BY <1>0, <1>2 DEF Before, Below, Numbers
  <2>2. CASE y \in F
    <3>1. y \in Int /\ x < y BY <1>0, <1>2, <2>2 DEF After, Numbers
    <3>2. ~ Below(e, y) BY <1>0, <1>2, <2>2, <3>1 DEF Before, Numbers
    <3>3. e \in F /\ e <= y BY <1>0, <3>1, <3>2 DEF Below
    <3>4. y <= e BY <1>0, <1>2, <2>1, <2>2, <3>3 DEF After
    <3> QED BY <1>0, <3>1, <3>3, <3>4
  <2>3. CASE y = free_list BY <1>0, <1>2, <2>1, <2>3 DEF After
  <2> QED BY <1>2, <2>2, <2>3 DEF After
<1> QED BY <1>1, <1>2

(* Each pointer of a linked list leads to the next start, and its partner   *)
(* back.                                                                    *)
LEMMA LinkedIs ==
    ASSUME NEW l, NEW F, Linked(l, F), NEW e \in F \cup {free_list}
    PROVE  /\ Numbers(F) /\ F \subseteq Pages /\ free_list \notin F
           /\ l.next[e] \in F \cup {free_list} /\ After(F, e, l.next[e])
           /\ l.prev[e] \in F \cup {free_list} /\ Before(F, e, l.prev[e])
           /\ l.prev[l.next[e]] = e
           /\ l.next[l.prev[e]] = e
<1>1. Numbers(F) /\ F \subseteq Pages /\ free_list \notin F BY LinkNumbers DEF Linked, Chained, Numbers
<1>2. \A x \in F \cup {free_list} : After(F, x, l.next[x]) /\ Before(F, x, l.prev[x]) BY DEF Linked, Chained
<1>3. l.next[e] \in F \cup {free_list} /\ l.prev[e] \in F \cup {free_list} BY <1>2 DEF After, Before
<1>4. l.prev[l.next[e]] = e BY <1>1, <1>2, <1>3, BackAgain
<1>5. l.next[l.prev[e]] = e BY <1>1, <1>2, <1>3, BackAgain
<1> QED BY <1>1, <1>2, <1>3, <1>4, <1>5

\* The type of the links.
LinkType == [{"next", "prev"} -> [Link -> Link]]

(* What a list with loose links is. *)
LEMMA ChainedIs ==
    ASSUME NEW l, NEW F, NEW B, Chained(l, F, B), NEW e \in F \cup {free_list}
    PROVE  /\ Numbers(F) /\ F \subseteq Pages /\ free_list \notin F /\ l \in LinkType
           /\ e \in Link /\ l.next[e] \in Link /\ l.prev[e] \in Link
           /\ l.next[e] \in F \cup {free_list} /\ After(F, e, l.next[e])
           /\ l.prev[e] # e => Before(F, e, l.prev[e]) /\ l.prev[e] \in F \cup {free_list}
<1>1. Numbers(F) /\ F \subseteq Pages /\ free_list \notin F /\ l \in LinkType
  BY LinkNumbers DEF Chained, Numbers, LinkType
<1>2. e \in Link /\ l.next[e] \in Link /\ l.prev[e] \in Link BY <1>1 DEF Link, LinkType
<1> QED BY <1>1, <1>2 DEF Chained, After, Before

(* In front of its successor a page stands itself. *)
LEMMA BeforeNext ==
    ASSUME NEW F, Numbers(F), NEW e \in F, NEW x \in F \cup {free_list}, After(F, e, x)
    PROVE  Before(F, x, e)
<1>1. e \in Int /\ free_list < e /\ free_list \in Int BY DEF Numbers
<1>2. CASE x \in F /\ e < x /\ \A f \in F : e < f => x <= f
  <2>1. x \in Int /\ x # free_list BY <1>2 DEF Numbers
  <2>2. ASSUME NEW f \in F, Below(x, f) PROVE f <= e
    <3>1. f \in Int /\ f < x BY <2>1, <2>2 DEF Below, Numbers
    <3>2. ~ (e < f) BY <1>2, <2>1, <3>1
    <3> QED BY <1>1, <3>1, <3>2
  <2> QED BY <1>2, <2>2 DEF Before, Below
<1>3. CASE x = free_list /\ \A f \in F : f <= e BY <1>3 DEF Before, Below
<1> QED BY <1>2, <1>3 DEF After

(* The links that a page and its new neighbours get. *)
LEMMA BetweenIs ==
    ASSUME NEW l \in LinkType, NEW elm \in Link, NEW before \in Link, NEW after \in Link
    PROVE  /\ Between(l, elm, before, after) \in LinkType
           /\ \A e \in Link : Between(l, elm, before, after).next[e] =
                                 IF e = elm THEN after ELSE IF e = before THEN elm ELSE l.next[e]
           /\ \A e \in Link : Between(l, elm, before, after).prev[e] =
                                 IF e = elm THEN before ELSE IF e = after THEN elm ELSE l.prev[e]
<1>1. l.next \in [Link -> Link] /\ l.prev \in [Link -> Link] BY DEF LinkType
<1> QED BY <1>1 DEF Between, LinkType

(* And what becomes of the links when a page is taken out. *)
LEMMA DelIs ==
    ASSUME NEW l \in LinkType, NEW elm \in Link
    PROVE  /\ list_del(l, elm) \in LinkType
           /\ \A e \in Link : list_del(l, elm).next[e] = IF e = l.prev[elm] THEN l.next[elm] ELSE l.next[e]
           /\ \A e \in Link : list_del(l, elm).prev[e] = IF e = l.next[elm] THEN l.prev[elm] ELSE l.prev[e]
<1>1. l.next \in [Link -> Link] /\ l.prev \in [Link -> Link] BY DEF LinkType
<1>2. l.next[elm] \in Link /\ l.prev[elm] \in Link BY <1>1
<1> QED BY <1>1, <1>2 DEF list_del, LinkType

(* list_add leaves links. *)
LEMMA AddTyped ==
    ASSUME NEW l \in LinkType, NEW e \in Link, NEW elm \in Link
    PROVE  list_add(l, e, elm) \in LinkType
<1>1. l.next[e] \in Link BY DEF LinkType
<1>2. PICK x \in Link : x = l.next[e] BY <1>1
<1>3. Between(l, elm, e, x) \in LinkType BY BetweenIs
<1> QED BY <1>2, <1>3 DEF list_add

(* The loop that ends passes a last block, in whatever list. *)
LEMMA LastExists ==
    ASSUME NEW l \in LinkType, ReachesEnd(l), l.next[free_list] # free_list
    PROVE  LastEntry(l) \in Entries(l) /\ l.next[LastEntry(l)] = free_list /\ Entries(l) \subseteq Pages
<1> DEFINE w == Walk(l)
           S == {k \in 0..NPages : w[k] = free_list}
<1>0. NPages \in Nat /\ w[NPages] = free_list BY LinkNumbers DEF ReachesEnd
<1>1. /\ w \in [0..NPages -> Link] /\ w[0] = l.next[free_list]
      /\ \A k \in 1..NPages : w[k] = IF w[k - 1] = free_list THEN free_list ELSE l.next[w[k - 1]]
  BY WalkProperties DEF LinkType
<1>2. \A k \in 0..NPages : w[k] # free_list => w[k] \in Entries(l) BY <1>1 DEF Entries, Range
<1>3. \A e \in Entries(l) : e \in Pages BY <1>1 DEF Entries, Range, Link
<1> HIDE DEF w
<1>4. PICK m \in S : \A k \in S : m <= k
  <2>1. NPages \in S /\ S \subseteq Nat BY <1>0
  <2> HIDE DEF S
  <2> QED BY <2>1, Least
<1>5. m \in 1..NPages /\ m - 1 \in 0..NPages /\ m - 1 \notin S BY <1>0, <1>1, <1>4
<1>6. w[m - 1] # free_list /\ l.next[w[m - 1]] = free_list BY <1>1, <1>4, <1>5
<1>7. w[m - 1] \in Entries(l) BY <1>2, <1>5, <1>6
<1> QED BY <1>3, <1>6, <1>7 DEF LastEntry

(* base comes to its place, or behind all others and in front of itself,    *)
(* unless a loose link is followed.                                         *)
LEMMA InsertChained ==
    ASSUME NEW l, NEW F, NEW B, Chained(l, F, B), NEW base \in Pages, base \notin F,
           \/ l.next[free_list] = free_list
           \/ Above(l, base) = free_list /\ base \in B
           \/ Above(l, base) # free_list /\ l.prev[Above(l, base)] # Above(l, base)
    PROVE  /\ Chained(Insert(l, base), F \cup {base}, B)
           /\ Insert(l, base).prev[Insert(l, base).next[base]] = base
<1> DEFINE S == {p \in Pages : base < p}
<1>0. /\ base \in Int /\ free_list < base /\ free_list \in Int /\ free_list \notin S /\ free_list # base
      /\ Numbers(F) /\ F \subseteq Pages /\ l \in LinkType /\ free_list \notin F
      /\ base \in Link /\ free_list \in Link /\ F \subseteq Link
  BY LinkNumbers, ChainedIs DEF Link
<1>1. CASE l.next[free_list] = free_list
  <2>1. After(F, free_list, free_list) BY <1>1, ChainedIs
  <2>2. Before(F, free_list, free_list) BY <1>0, <2>1 DEF After, Before, Numbers
  <2>3. Insert(l, base) = Between(l, base, free_list, free_list) BY <1>1 DEF Insert, list_add
  <2>4. Chained(Between(l, base, free_list, free_list), F \cup {base}, B)
    BY <1>0, <1>1, <2>2, BetweenChained
  <2>5. Between(l, base, free_list, free_list).prev[Between(l, base, free_list, free_list).next[base]] = base
    BY <1>0, BetweenIs
  <2> QED BY <2>3, <2>4, <2>5
<1>2. CASE l.next[free_list] # free_list /\ Above(l, base) # free_list
  <2> DEFINE above == Above(l, base)
             before == l.prev[above]
  <2>1. above \in F /\ base < above /\ \A f \in F : base < f => above <= f
    <3>1. above = First(l, S) BY DEF Above
    <3>2. First(l, S) \in F \cap S /\ \A e \in F \cap S : First(l, S) <= e
      <4> HIDE DEF S
      <4> QED BY <1>0, <1>2, <3>1, FirstChained
    <3> HIDE DEF above
    <3>3. above \in F \cap S /\ \A e \in F \cap S : above <= e BY <3>1, <3>2
    <3> QED BY <1>0, <3>3
  <2>2. before # above BY <1>2
  <2> HIDE DEF above
  <2>3. Before(F, above, before) /\ before \in F \cup {free_list} /\ before \in Link /\ above \in Link
    BY <2>1, <2>2, ChainedIs
  <2>4. above \in Int /\ above # free_list BY <1>0, <2>1 DEF Numbers
  <2>5. l.next[before] = above
    <3>1. After(F, before, l.next[before]) BY <2>3, ChainedIs
    <3> QED BY <1>0, <2>1, <2>3, <3>1, BackAgain
  <2>6. before < base
    <3>1. CASE before = free_list BY <1>0, <3>1
    <3>2. CASE before \in F
      <4>1. before < above /\ before \in Int /\ before # base
        BY <1>0, <2>3, <2>4, <3>2 DEF Before, Below, Numbers
      <4>2. ~ (base < before) BY <2>1, <2>4, <3>2, <4>1
      <4> QED BY <1>0, <4>1, <4>2
    <3> QED BY <2>3, <3>1, <3>2
  <2>7. Insert(l, base) = Between(l, base, before, above)
    BY <1>2 DEF Insert, list_add_before, above
  <2>8. Chained(Between(l, base, before, above), F \cup {base}, B)
    BY <1>0, <2>1, <2>3, <2>5, <2>6, BetweenChained
  <2>9. Between(l, base, before, above).prev[Between(l, base, before, above).next[base]] = base
    <3>1. above # base BY <1>0, <2>1
    <3> HIDE DEF before
    <3>2. l \in LinkType /\ base \in Link /\ before \in Link /\ above \in Link BY <1>0, <2>3
    <3>3. \A e \in Link : Between(l, base, before, above).next[e] =
                               IF e = base THEN above ELSE IF e = before THEN base ELSE l.next[e]
      BY <3>2, BetweenIs
    <3>4. \A e \in Link : Between(l, base, before, above).prev[e] =
                               IF e = base THEN before ELSE IF e = above THEN base ELSE l.prev[e]
      BY <3>2, BetweenIs
    <3> QED BY <1>0, <3>1, <3>2, <3>3, <3>4
  <2> QED BY <2>7, <2>8, <2>9
<1>3. CASE l.next[free_list] # free_list /\ Above(l, base) = free_list
  <2> DEFINE last == LastEntry(l)
             one == Between(l, base, last, free_list)
             two == Between(one, base, base, free_list)
  <2>1. last \in F /\ l.next[last] = free_list
    <3>1. ReachesEnd(l) /\ Entries(l) = F BY WalkChained, EntriesChained
    <3> QED BY <1>0, <1>3, <3>1, LastExists
  <2> HIDE DEF last
  <2>2. last < base /\ last \in Link
    <3>1. F \cap S = {}
      <4>1. First(l, S) = free_list BY <1>3 DEF Above
      <4> HIDE DEF S
      <4> QED BY <1>0, <4>1, FirstChained
    <3>2. ~ (base < last) /\ last \in Int BY <1>0, <2>1, <3>1 DEF Numbers
    <3> QED BY <1>0, <2>1, <3>2
  <2>3. After(F, last, free_list) BY <2>1, ChainedIs
  <2>4. Before(F, free_list, last) BY <1>0, <2>1, <2>3, BeforeNext
  <2>5. Chained(one, F \cup {base}, B) BY <1>0, <2>1, <2>2, <2>4, BetweenChained
  <2>6. /\ one \in LinkType /\ one.next[base] = free_list
        /\ \A e \in Link : one.prev[e] = IF e = base THEN last ELSE IF e = free_list THEN base ELSE l.prev[e]
    <3> HIDE DEF last
    <3>1. l \in LinkType /\ base \in Link /\ last \in Link /\ free_list \in Link BY <1>0, <2>2
    <3>2. Between(l, base, last, free_list) \in LinkType BY <3>1, BetweenIs
    <3>3. \A e \in Link : Between(l, base, last, free_list).next[e] =
                               IF e = base THEN free_list ELSE IF e = last THEN base ELSE l.next[e]
      BY <3>1, BetweenIs
    <3>4. \A e \in Link : Between(l, base, last, free_list).prev[e] =
                               IF e = base THEN last ELSE IF e = free_list THEN base ELSE l.prev[e]
      BY <3>1, BetweenIs
    <3> QED BY <3>1, <3>2, <3>3, <3>4
  <2>7. Insert(l, base) = two
    <3>1. Insert(l, base) = list_add(list_add(l, last, base), base, base) BY <1>3 DEF Insert, last
    <3>2. list_add(l, last, base) = one BY <2>1 DEF list_add
    <3> HIDE DEF one
    <3>3. list_add(one, base, base) = two BY <2>6 DEF list_add
    <3> QED BY <3>1, <3>2, <3>3
  <2> HIDE DEF one
  <2>8. /\ two \in LinkType
        /\ \A e \in Link : two.next[e] =
                              IF e = base THEN free_list ELSE IF e = base THEN base ELSE one.next[e]
        /\ \A e \in Link : two.prev[e] =
                              IF e = base THEN base ELSE IF e = free_list THEN base ELSE one.prev[e]
    BY <1>0, <2>6, BetweenIs
  <2> HIDE DEF two
  <2>9. \A e \in Link : /\ two.next[e] = one.next[e]
                        /\ two.prev[e] = one.prev[e] \/ (e = base /\ two.prev[e] = e)
    BY <1>0, <2>6, <2>8
  <2>10. Chained(two, F \cup {base}, B)
    <3>1. F \cup {base} \subseteq Link BY <1>0
    <3>2. ASSUME NEW e \in (F \cup {base}) \cup {free_list}
          PROVE  /\ After(F \cup {base}, e, two.next[e])
                 /\ Before(F \cup {base}, e, two.prev[e]) \/ (e \in B /\ two.prev[e] = e)
      <4>1. /\ After(F \cup {base}, e, one.next[e])
            /\ Before(F \cup {base}, e, one.prev[e]) \/ (e \in B /\ one.prev[e] = e)
        BY <2>5 DEF Chained
      <4>2. e \in Link BY <1>0
      <4> QED BY <1>3, <2>9, <4>1, <4>2
    <3>3. two \in [{"next", "prev"} -> [Link -> Link]] BY <2>8 DEF LinkType
    <3>4. F \cup {base} \subseteq Pages BY <1>0
    <3> QED BY <3>2, <3>3, <3>4 DEF Chained
  <2>11. two.prev[two.next[base]] = base BY <1>0, <2>8
  <2> QED BY <2>7, <2>10, <2>11
<1> QED BY <1>1, <1>2, <1>3

-----------------------------------------------------------------------------
(* Merging with the block in front. *)
LEMMA TouchesBelow ==
    ASSUME NEW U, U \subseteq Pages, NEW prop, AllSized(prop, U),
           NEW base \in Pages, base \in U,
           NEW p, Before(Starts(U) \cup {base}, base, p)
    PROVE  /\ Low(U, base) <=> p # free_list /\ p + prop[p] = base
           /\ p # free_list => p \in Starts(U) /\ p < base
           /\ \A f \in Starts(U) : f < base => f <= p /\ p # free_list
           /\ \A f \in Starts(U) : f + prop[f] = base => f = p
<1> DEFINE F == Starts(U)
<1>0. /\ base \in Int /\ base # free_list /\ 0 <= base /\ base < NPages /\ NPages \in Nat
      /\ \A f \in F : f \in Pages /\ f \in Int /\ f # free_list /\ f \notin U /\ 0 <= f /\ f < NPages
  BY LinkNumbers, StartIs
<1>1. \A f \in F : /\ prop[f] \in Int /\ 1 <= prop[f] /\ f + prop[f] <= NPages
                   /\ \A x \in Int : f <= x /\ x < f + prop[f] => x \notin U
                   /\ f + prop[f] = NPages \/ f + prop[f] \in U
  BY <1>0, SizedIs DEF AllSized
<1>2. \A f \in F, g \in F : f < g => f + prop[f] < g BY RunsApart
<1> HIDE DEF F
<1>3. p # free_list => p \in F /\ p < base BY <1>0 DEF Before, Below, F
<1>4. \A f \in F : f < base => f <= p /\ p # free_list BY <1>0 DEF Before, Below, F
<1>5. ASSUME NEW f \in F, f + prop[f] = base PROVE f = p
  <2>1. f < base BY <1>0, <1>1, <1>5
  <2>2. f <= p /\ p \in F /\ p < base BY <1>3, <1>4, <2>1
  <2>3. ~ (f < p) BY <1>0, <1>1, <1>2, <1>5, <2>2
  <2> QED BY <1>0, <2>2, <2>3
<1>6. ASSUME p # free_list, p + prop[p] = base PROVE Low(U, base)
  <2>1. p \in F /\ p <= base - 1 /\ base - 1 < p + prop[p] /\ base - 1 \in Int /\ base # 0
    BY <1>0, <1>3, <1>6
  <2> QED BY <1>1, <2>1 DEF Low
<1>7. ASSUME Low(U, base) PROVE p # free_list /\ p + prop[p] = base
  <2>1. base - 1 \in Pages /\ base - 1 \notin U BY <1>0, <1>7, PageIs DEF Low
  <2>2. PICK s \in F : s <= base - 1 /\ \A y \in s..(base - 1) : y \notin U
    BY <2>1, StartBelow DEF F
  <2>3. s < base /\ s <= p /\ p \in F /\ p < base BY <1>0, <1>3, <1>4, <2>2
  <2>4. s + prop[s] >= base
    <3> SUFFICES ASSUME s + prop[s] < base PROVE FALSE
      BY <1>0, <1>1
    <3>1. s + prop[s] \in s..(base - 1) BY <1>0, <1>1
    <3>2. s + prop[s] \in U BY <1>0, <1>1
    <3> QED BY <2>2, <3>1, <3>2
  <2>5. ~ (base < s + prop[s]) BY <1>0, <1>1, <2>3
  <2>6. s + prop[s] = base BY <1>0, <1>1, <2>4, <2>5
  <2> QED BY <1>5, <2>3, <2>6, <1>0
<1> QED BY <1>3, <1>4, <1>5, <1>6, <1>7 DEF F

\* The blocks after that.
LowerStarts(U, base) == IF Low(U, base) THEN Starts(U) ELSE Starts(U) \cup {base}

\* m holds them, and front is the one with the n pages from base on.
LowerOK(U, prop, base, n, m, front) ==
    /\ Linked(m.links, LowerStarts(U, base)) /\ m.flagged = LowerStarts(U, base)
    /\ m.property \in [Pages -> 0..NPages]
    /\ front \in LowerStarts(U, base) /\ front <= base /\ front + m.property[front] = base + n
    /\ ~ Low(U, base) => front = base
    /\ \A x \in Starts(U) : x # front => m.property[x] = prop[x]
    /\ \A x \in Int : front <= x /\ x < base => x \notin U
    /\ \A x \in Starts(U) : x < base => x <= front
    /\ \A x \in Starts(U) : x + prop[x] = base => x = front

(* What MergeBefore leaves: the run of base with the one in front of it, if *)
(* they touch, from the page front on.                                      *)
LEMMA LowerMerged ==
    ASSUME NEW U, U \subseteq Pages, NEW prop \in [Pages -> 0..NPages], AllSized(prop, U),
           NEW base \in Pages, NEW n \in Int, 1 <= n, Run(base, n) \subseteq U,
           NEW l, Linked(l, Starts(U) \cup {base}),
           NEW m, m = [links |-> l, property |-> [prop EXCEPT ![base] = n],
                       flagged |-> Starts(U) \cup {base}]
    PROVE  LowerOK(U, prop, base, n, MergeBefore(m, base), LowerBase(m, base))
<1> DEFINE lower == MergeBefore(m, base)
           front == LowerBase(m, base)
           H == LowerStarts(U, base)
           F == Starts(U)
           p == l.prev[base]
           pr == [prop EXCEPT ![base] = n]
<1>0. /\ base \in Int /\ 0 <= base /\ base < NPages /\ base # free_list /\ NPages \in Int
      /\ \A f \in F : f \in Pages /\ f \in Int /\ f # free_list /\ f \notin U
  BY LinkNumbers, StartIs
<1>1. base \in U /\ base + n <= NPages
  <2>1. base \in Run(base, n) /\ base + n - 1 \in Run(base, n) BY <1>0, InRun
  <2>2. base + n - 1 \in Pages BY <2>1
  <2>3. base + n - 1 < NPages BY <2>2, PageIs
  <2> QED BY <1>0, <2>1, <2>3
<1>2. base \notin F BY <1>0, <1>1
<1>3. Before(F \cup {base}, base, p) /\ p \in (F \cup {base}) \cup {free_list} BY LinkedIs
<1>4. /\ Low(U, base) <=> p # free_list /\ p + prop[p] = base
      /\ p # free_list => p \in F /\ p < base
      /\ \A f \in F : f < base => f <= p /\ p # free_list
      /\ \A f \in F : f + prop[f] = base => f = p
  BY <1>1, <1>3, TouchesBelow
<1>5. /\ pr \in [Pages -> 0..NPages] /\ pr[base] = n
      /\ \A x \in Pages : x # base => pr[x] = prop[x]
  BY <1>0, <1>1
<1>6. m.links = l /\ m.property = pr /\ m.flagged = F \cup {base} BY Zenon
<1> HIDE DEF F, p, pr, lower, front, H
<1>7. CASE Low(U, base)
  <2>1. p # free_list /\ p + prop[p] = base /\ p \in F /\ p < base /\ p \in Int /\ p \in Pages /\ p # base
    BY <1>0, <1>4, <1>7
  <2>2. pr[p] = prop[p] /\ p + pr[p] = base BY <1>5, <2>1
  <2>3. front = p BY <1>6, <2>1, <2>2 DEF LowerBase, p, front
  <2>4. lower = [links |-> list_del(l, base), property |-> [pr EXCEPT ![p] = pr[p] + pr[base]],
                 flagged |-> (F \cup {base}) \ {base}]
    BY <1>6, <2>1, <2>2 DEF MergeBefore, p, lower
  <2>5. H = F /\ (F \cup {base}) \ {base} = F BY <1>2, <1>7 DEF F, H, LowerStarts
  <2>6. Linked(lower.links, H) /\ lower.flagged = H
    <3>1. Linked(list_del(l, base), (F \cup {base}) \ {base}) BY DelLinked DEF F
    <3>2. lower.links = list_del(l, base) /\ lower.flagged = (F \cup {base}) \ {base} BY <2>4, Zenon
    <3> QED BY <2>5, <3>1, <3>2, Zenon
  <2>7. prop[p] \in Int /\ 1 <= prop[p] /\ \A x \in Int : p <= x /\ x < p + prop[p] => x \notin U
    BY <2>1, SizedIs DEF AllSized, F
  <2>8. pr[p] + pr[base] \in 0..NPages BY <1>0, <1>1, <1>5, <2>1, <2>2, <2>7, LinkNumbers
  <2>9. /\ lower.property \in [Pages -> 0..NPages]
        /\ lower.property[p] = prop[p] + n
        /\ \A x \in Pages : x # p => lower.property[x] = pr[x]
    <3>1. lower.property = [pr EXCEPT ![p] = pr[p] + pr[base]] BY <2>4, Zenon
    <3> QED BY <1>5, <2>1, <2>2, <2>8, <3>1
  <2>10. front \in H /\ front <= base /\ front + lower.property[front] = base + n
    BY <1>0, <2>1, <2>3, <2>5, <2>7, <2>9
  <2>11. \A x \in F : x # front => lower.property[x] = prop[x] BY <1>0, <1>2, <1>5, <2>3, <2>9
  <2> QED
    <3>1. \A x \in Int : front <= x /\ x < base => x \notin U BY <2>1, <2>3, <2>7
    <3>2. /\ \A x \in F : x < base => x <= front
          /\ \A x \in F : x + prop[x] = base => x = front
      BY <1>4, <2>3
    <3>3. lower.property \in [Pages -> 0..NPages] BY <2>9
    <3> QED BY <1>7, <2>6, <2>10, <2>11, <3>1, <3>2, <3>3, Zenon DEF F, LowerOK, H, lower, front
<1>8. CASE ~ Low(U, base)
  <2>1. ~ (p # free_list /\ p + pr[p] = base) BY <1>0, <1>4, <1>5, <1>8
  <2>2. front = base BY <1>6, <2>1 DEF LowerBase, p, front
  <2>3. lower = m BY <1>6, <2>1 DEF MergeBefore, p, lower
  <2>4. H = F \cup {base} BY <1>8 DEF F, H, LowerStarts
  <2>5. \A x \in F : x + prop[x] = base => x = front BY <1>0, <1>4, <1>8
  <2>6. \A x \in F : x # front => lower.property[x] = prop[x] BY <1>0, <1>2, <1>5, <1>6, <2>3
  <2>7. Linked(lower.links, H) /\ lower.flagged = H /\ lower.property = pr BY <1>6, <2>3, <2>4 DEF F
  <2>8. front \in H /\ front <= base /\ front + lower.property[front] = base + n
    BY <1>0, <1>5, <2>2, <2>4, <2>7
  <2>9. \A x \in Int : ~ (front <= x /\ x < base) BY <1>0, <2>2
  <2>10. \A x \in F : x < base => x <= front BY <1>0, <2>2
  <2> QED BY <1>5, <2>2, <2>5, <2>6, <2>7, <2>8, <2>9, <2>10 DEF F, LowerOK, H, lower, front
<1> QED BY <1>7, <1>8

\* m holds the runs of free pages.
HoldsRuns(m, U) ==
    /\ Linked(m.links, Starts(U)) /\ m.flagged = Starts(U)
    /\ m.property \in [Pages -> 0..NPages]
    /\ AllSized(m.property, U)

(* And what Merge makes of that: the list of the runs after the call. *)
LEMMA FreeMerges ==
    ASSUME NEW U, U \subseteq Pages, NEW prop \in [Pages -> 0..NPages], AllSized(prop, U),
           NEW base \in Pages, NEW n \in Int, 1 <= n, Run(base, n) \subseteq U,
           NEW l, Linked(l, Starts(U) \cup {base}),
           NEW m, m = [links |-> l, property |-> [prop EXCEPT ![base] = n],
                       flagged |-> Starts(U) \cup {base}]
    PROVE  HoldsRuns(Merge(MergeBefore(m, base), LowerBase(m, base)), U \ Run(base, n))
<1> DEFINE merged == Merge(MergeBefore(m, base), LowerBase(m, base))
           V == U \ Run(base, n)
           F == Starts(U)
           H == LowerStarts(U, base)
           lower == MergeBefore(m, base)
           front == LowerBase(m, base)
           q == lower.links.next[front]
           size == lower.property
<1>0. /\ base \in Int /\ 0 <= base /\ base < NPages /\ base # free_list /\ NPages \in Int
      /\ \A f \in F : f \in Pages /\ f \in Int /\ f # free_list /\ f \notin U /\ 0 <= f /\ f < NPages
      /\ \A x : x \in Run(base, n) <=> x \in Int /\ base <= x /\ x < base + n
  BY LinkNumbers, StartIs, InRun
<1>1. /\ Linked(lower.links, H) /\ lower.flagged = H
      /\ size \in [Pages -> 0..NPages]
      /\ front \in H /\ front <= base /\ front + size[front] = base + n
      /\ ~ Low(U, base) => front = base
      /\ \A x \in F : x # front => size[x] = prop[x]
      /\ \A x \in Int : front <= x /\ x < base => x \notin U
      /\ \A x \in F : x < base => x <= front
      /\ \A x \in F : x + prop[x] = base => x = front
  <2>1. LowerOK(U, prop, base, n, lower, front) BY LowerMerged
  <2> HIDE DEF lower, front
  <2> QED BY <2>1, Zenon DEF LowerOK
<1>2. /\ base \notin F
      /\ Starts(V) = H \ {base + n}
      /\ base + n \in F <=> base + n \in Pages \ U
      /\ base + n # base
  <2>1. base + n # base BY <1>0
  <2>2. /\ base \notin F /\ (base + n \in F <=> base + n \in Pages \ U)
        /\ Low(U, base) => Starts(V) = F \ {base + n}
        /\ ~ Low(U, base) => Starts(V) = (F \cup {base}) \ {base + n}
    <3>1. base \notin F BY StartsFree
    <3>2. base + n \in F <=> base + n \in Pages \ U BY StartsFree
    <3>3. Low(U, base) => Starts(V) = F \ {base + n} BY StartsFree
    <3>4. ~ Low(U, base) => Starts(V) = (F \cup {base}) \ {base + n} BY StartsFree
    <3> QED BY <3>1, <3>2, <3>3, <3>4
  <2>3. /\ Low(U, base) => H = F
        /\ ~ Low(U, base) => H = F \cup {base}
    BY DEF LowerStarts
  <2> HIDE DEF H, F
  <2> QED BY <2>1, <2>2, <2>3
<1>3. \A f \in F : /\ prop[f] \in Int /\ 1 <= prop[f] /\ f + prop[f] <= NPages
                   /\ \A x \in Int : f <= x /\ x < f + prop[f] => x \notin U
                   /\ f + prop[f] = NPages \/ f + prop[f] \in U
  BY <1>0, SizedIs DEF AllSized
<1>4. base \in U /\ base + n <= NPages /\ (base + n = NPages \/ base + n \in F \/ base + n \in U)
  <2>1. base \in Run(base, n) /\ (base + n) - 1 \in Run(base, n) BY <1>0
  <2>2. (base + n) - 1 < NPages BY <2>1, PageIs
  <2>3. base + n < NPages => base + n \in Pages BY <1>0, PageIs
  <2> QED BY <1>0, <1>2, <2>1, <2>2, <2>3
<1>5. After(H, front, q) /\ q \in H \cup {free_list} /\ H \subseteq Pages /\ Numbers(H)
  BY <1>1, LinkedIs
<1>6. front \in Int /\ front \in Pages /\ 0 <= front /\ size[front] \in Int /\ free_list < front
  <2>1. front \in Pages BY <1>1, <1>5
  <2>2. front \in Int /\ 0 <= front /\ free_list < front BY <2>1, LinkNumbers
  <2>3. size[front] \in 0..NPages BY <1>1, <2>1, Zenon
  <2> HIDE DEF size, front
  <2> QED BY <1>0, <2>1, <2>2, <2>3
<1>7. base + n \in H <=> base + n \in F BY <1>2 DEF LowerStarts
<1>u. \A f \in F : f < base \/ base + n <= f BY <1>0
<1>v. \A x : x \in V <=> x \in U /\ x \notin Run(base, n) OBVIOUS
<1> HIDE DEF F, H, V, lower, front, q, size, merged
<1>8. base + n \in F <=> q # free_list /\ front + size[front] = q
  <2>1. ASSUME base + n \in F PROVE q = base + n /\ q # free_list
    <3>1. base + n \in H /\ front < base + n BY <1>0, <1>1, <1>6, <1>7, <2>1
    <3>2. q \in H /\ q <= base + n /\ front < q BY <1>0, <1>5, <1>6, <3>1 DEF After
    <3>3. q \in Int /\ q # free_list BY <1>5, <3>2 DEF Numbers
    <3>4. CASE q \in F
      <4>1. ~ (q < base) BY <1>1, <1>6, <3>2, <3>3, <3>4
      <4> QED BY <1>0, <1>u, <3>2, <3>3, <3>4, <4>1
    <3>5. CASE q \notin F
      <4>1. q = base /\ front # base BY <1>6, <3>2, <3>3, <3>5 DEF H, F, LowerStarts
      <4>2. ~ Low(U, base) BY <1>2, <3>2, <3>5 DEF H, F, LowerStarts
      <4> QED BY <1>1, <4>1, <4>2
    <3> QED BY <3>3, <3>4, <3>5
  <2>2. ASSUME q # free_list, front + size[front] = q PROVE base + n \in F BY <1>1, <1>5, <1>7, <2>2
  <2> QED BY <1>1, <2>1, <2>2

\* Outside front the runs are the old ones; they end where they did.
<1>9. ASSUME NEW x \in Starts(V), x # front
      PROVE  /\ x \in F /\ x # base + n /\ size[x] = prop[x]
             /\ x < front => x + prop[x] < front
  <2>1. x \in H /\ x # base + n BY <1>2, <1>9
  <2>2. x \in F BY <1>1, <1>9, <2>1 DEF H, F, LowerStarts
  <2>3. ASSUME x < front PROVE x + prop[x] < front
    <3>1. CASE front \in F BY <2>2, <2>3, <3>1, RunsApart DEF F
    <3>2. CASE front \notin F
      <4>1. front = base BY <1>1, <3>2 DEF H, F, LowerStarts
      <4>2. x + prop[x] # base BY <1>1, <1>9, <2>2
      <4>3. ~ (base < x + prop[x]) BY <1>0, <1>3, <1>4, <2>2, <2>3, <4>1
      <4> QED BY <1>0, <1>3, <2>2, <4>1, <4>2, <4>3
    <3> QED BY <3>1, <3>2
  <2> QED BY <1>1, <1>9, <2>1, <2>2, <2>3
<1>10. ASSUME NEW x \in Starts(V), x # front PROVE Sized(prop, V, x)
  <2>1. /\ x \in F /\ x \in Int /\ prop[x] \in 1..(NPages - x)
        /\ \A y \in Run(x, prop[x]) : y \notin U
        /\ x + prop[x] = NPages \/ x + prop[x] \in U
        /\ 1 <= prop[x] /\ prop[x] \in Int
    <3>1. x \in F BY <1>9, <1>10
    <3>2. Sized(prop, U, x) BY <3>1 DEF AllSized, F
    <3>3. /\ prop[x] \in 1..(NPages - x)
          /\ \A y \in Run(x, prop[x]) : y \notin U
          /\ x + prop[x] = NPages \/ x + prop[x] \in U
      BY <3>2 DEF Sized
    <3> QED BY <1>0, <1>3, <3>1, <3>3
  <2>2. x + prop[x] \notin Run(base, n)
    <3> SUFFICES ASSUME x + prop[x] \in Run(base, n) PROVE FALSE
      OBVIOUS
    <3>1. base <= x + prop[x] /\ x + prop[x] < base + n BY <1>0
    <3>2. CASE x < base
      <4>1. ~ (base < x + prop[x]) BY <1>0, <1>3, <1>4, <2>1, <3>2
      <4>2. x + prop[x] = base BY <1>0, <2>1, <3>1, <4>1
      <4> QED BY <1>1, <1>10, <2>1, <4>2
    <3>3. CASE base + n <= x BY <1>0, <2>1, <3>1, <3>3
    <3> QED BY <1>u, <2>1, <3>2, <3>3
  <2> QED BY <1>v, <2>1, <2>2 DEF Sized
<1>11. CASE base + n \in F
  <2> DEFINE b == base + n
             pr == [size EXCEPT ![front] = size[front] + size[b]]
  <2>0. b \in Int /\ b \in Pages /\ b # front /\ b \in H BY <1>0, <1>1, <1>6, <1>7, <1>11
  <2>1. q # free_list /\ q = b /\ front + size[front] = q BY <1>1, <1>8, <1>11
  <2>2. merged = [links |-> list_del(lower.links, b), property |-> pr, flagged |-> lower.flagged \ {b}]
    BY <2>1 DEF Merge, lower, front, q, size, merged
  <2>3. Starts(V) = H \ {b} BY <1>2
  <2>4. Linked(merged.links, Starts(V)) /\ merged.flagged = Starts(V)
    <3>1. merged.links = list_del(lower.links, b) /\ merged.flagged = lower.flagged \ {b}
      <4> HIDE DEF pr
      <4> QED BY <2>2, Zenon
    <3>2. Linked(list_del(lower.links, b), H \ {b}) BY <1>1, <2>0, DelLinked, Zenon
    <3>3. lower.flagged = H BY <1>1
    <3> QED BY <2>3, <3>1, <3>2, <3>3, Zenon
  <2>5. size[b] = prop[b] BY <1>1, <1>11, <2>0
  <2>6. /\ prop[b] \in Int /\ 1 <= prop[b] /\ b + prop[b] <= NPages
        /\ \A x \in Int : b <= x /\ x < b + prop[b] => x \notin U
        /\ b + prop[b] = NPages \/ b + prop[b] \in U
    BY <1>3, <1>11
  <2>7. front + (size[front] + size[b]) = b + prop[b] BY <1>0, <1>1, <1>6, <2>0, <2>5, <2>6
  <2>8. size[front] + size[b] \in 1..(NPages - front) BY <1>0, <1>1, <1>6, <2>0, <2>5, <2>6, <2>7
  <2>9. /\ pr \in [Pages -> 0..NPages] /\ pr[front] = size[front] + size[b]
        /\ \A x \in Pages : x # front => pr[x] = size[x]
    <3> DEFINE total == size[front] + size[b]
    <3>1. total \in 0..NPages BY <1>0, <1>6, <2>8
    <3>2. size \in [Pages -> 0..NPages] BY <1>1
    <3> HIDE DEF total
    <3>3. [size EXCEPT ![front] = total] \in [Pages -> 0..NPages] BY <1>6, <3>1, <3>2
    <3>4. /\ [size EXCEPT ![front] = total][front] = total
          /\ \A x \in Pages : x # front => [size EXCEPT ![front] = total][x] = size[x]
      BY <1>6, <3>2
    <3> QED BY <3>3, <3>4 DEF total
  <2> HIDE DEF pr
  <2>10. Sized(pr, V, front)
    <3>1. ASSUME NEW x \in Run(front, pr[front]) PROVE x \notin V
      <4>1. x \in Int /\ front <= x /\ x < b + prop[b] BY <1>6, <2>7, <2>8, <2>9, InRun
      <4>2. CASE x < base BY <1>v, <1>1, <4>1, <4>2
      <4>3. CASE base <= x /\ x < b BY <1>v, <1>0, <4>1, <4>3
      <4>4. CASE b <= x BY <1>v, <2>6, <4>1, <4>4
      <4> QED BY <1>0, <2>0, <4>1, <4>2, <4>3, <4>4
    <3>2. b + prop[b] \notin Run(base, n) BY <1>0, <2>0, <2>6
    <3> QED BY <1>v, <2>6, <2>7, <2>8, <2>9, <3>1, <3>2 DEF Sized
  <2>11. ASSUME NEW x \in Starts(V), x # front PROVE Sized(pr, V, x)
    <3>1. x \in Pages /\ pr[x] = prop[x] BY <1>9, <2>9, <2>11, StartIs
    <3> QED BY <1>10, <2>11, <3>1 DEF Sized
  <2>12. merged.property = pr BY <2>2
  <2> QED BY <2>4, <2>9, <2>10, <2>11, <2>12 DEF AllSized, HoldsRuns, merged, V
<1>12. CASE base + n \notin F
  <2>1. merged = lower BY <1>8, <1>12 DEF Merge, lower, front, q, size, merged
  <2>2. Starts(V) = H BY <1>2, <1>7, <1>12
  <2>3. Sized(size, V, front)
    <3>0. front + size[front] = base + n BY <1>1
    <3>1. size[front] \in 1..(NPages - front) BY <1>0, <1>1, <1>4, <1>6
    <3>2. ASSUME NEW x \in Run(front, size[front]) PROVE x \notin V
      <4>1. x \in Int /\ front <= x /\ x < base + n BY <1>6, <3>0, InRun
      <4>2. CASE x < base BY <1>v, <1>1, <4>1, <4>2
      <4>3. CASE base <= x BY <1>v, <1>0, <4>1, <4>3
      <4> QED BY <1>0, <4>1, <4>2, <4>3
    <3>3. base + n \notin Run(base, n) BY <1>0
    <3> QED BY <1>v, <1>4, <1>12, <3>0, <3>1, <3>2, <3>3 DEF Sized
  <2>4. ASSUME NEW x \in Starts(V), x # front PROVE Sized(size, V, x)
    <3>1. size[x] = prop[x] BY <1>9, <2>4
    <3> QED BY <1>10, <2>4, <3>1 DEF Sized
  <2>5. merged.property = size BY <2>1 DEF size
  <2> QED BY <1>1, <2>1, <2>2, <2>3, <2>4, <2>5 DEF AllSized, HoldsRuns, merged, V
<1> QED BY <1>11, <1>12

-----------------------------------------------------------------------------

(* In the beginning all of memory is one listed block. *)
LEMMA PagesInitInv ==
    PagesInit => RunsIInv
<1> SUFFICES ASSUME PagesInit PROVE RunsIInv
  OBVIOUS
<1> DEFINE self == [i \in Pages \cup {free_list} |-> i]
           empty == [next |-> self, prev |-> self]
<1>0. /\ NPages \in Nat /\ NPages > 0 /\ 0 \in Pages /\ 0 \in Int /\ free_list \in Link /\ free_list < 0
      /\ Link = Pages \cup {free_list} /\ free_list \in Int /\ free_list # 0
  BY LinkNumbers, PageIs
<1>1. self \in [Link -> Link] /\ self[free_list] = free_list BY <1>0
<1> HIDE DEF self
<1>2. empty.next = self /\ empty.prev = self /\ empty \in [{"next", "prev"} -> [Link -> Link]]
  BY <1>1
<1> HIDE DEF empty
<1>3. Linked(empty, {}) BY <1>1, <1>2 DEF Linked, Chained, After, Before
<1>4. links = Between(empty, 0, free_list, free_list)
  BY <1>1, <1>2 DEF PagesInit, list_add, empty, self
<1>5. Linked(links, {0})
  <2>1. Linked(Between(empty, 0, free_list, free_list), {} \cup {0})
    BY <1>0, <1>1, <1>2, <1>3, BetweenLinked
  <2>2. {} \cup {0} = {0} OBVIOUS
  <2> QED BY <1>4, <2>1, <2>2
<1>6. used = {} /\ flagged = {0} /\ nr_free = NPages /\ result = <<>> /\ halted = "NO" /\ linkage = "merged"
      /\ property = [p \in Pages |-> IF p = 0 THEN NPages ELSE 0]
  BY DEF PagesInit
<1>7. Starts(used) = {0} BY <1>0, <1>6 DEF Starts
<1>8. Sized(property, used, 0) BY <1>0, <1>6 DEF Sized
<1>9. Cardinality(Pages \ used) = NPages
  <2>1. Pages \ used = Pages BY <1>6
  <2>2. Cardinality(0..(NPages - 1)) = NPages BY <1>0, FS_Interval
  <2> QED BY <2>1, <2>2 DEF Pages
<1>10. PagesTypeOK
  <2>1. property \in [Pages -> 0..NPages] BY <1>0, <1>6
  <2> QED BY <1>0, <1>5, <1>6, <2>1 DEF PagesTypeOK, Linked, Chained
<1> QED BY <1>5, <1>6, <1>7, <1>8, <1>9, <1>10 DEF RunsIInv, AllSized, NeverStops

(* Pages are finitely many. *)
LEMMA PagesFinite == IsFiniteSet(Pages)
  BY LinkNumbers, FS_Interval DEF Pages

(* A run of n pages has n pages. *)
LEMMA RunCardinality ==
    ASSUME NEW base \in Int, NEW n \in Nat
    PROVE  IsFiniteSet(Run(base, n)) /\ Cardinality(Run(base, n)) = n
<1>1. IsFiniteSet(base..(base + n - 1))
      /\ Cardinality(base..(base + n - 1)) = IF base > base + n - 1 THEN 0 ELSE (base + n - 1) - base + 1
  BY FS_Interval
<1> QED BY <1>1 DEF Run

(* nr_free counts on. *)
LEMMA CountAlloc ==
    ASSUME NEW U, NEW base \in Int, NEW n \in Nat, Run(base, n) \subseteq Pages \ U
    PROVE  /\ Cardinality(Pages \ (U \cup Run(base, n))) = Cardinality(Pages \ U) - n
           /\ Cardinality(Pages \ U) \in Nat
           /\ n <= Cardinality(Pages \ U)
<1> DEFINE R == Run(base, n)
           S == Pages \ U
<1>1. IsFiniteSet(S) BY PagesFinite, FS_Subset
<1>2. IsFiniteSet(R) /\ Cardinality(R) = n BY RunCardinality
<1>3. Cardinality(S \ R) = Cardinality(S) - Cardinality(S \cap R) BY <1>1, FS_Difference
<1>4. S \cap R = R /\ S \ R = Pages \ (U \cup R) OBVIOUS
<1>5. Cardinality(S) \in Nat /\ Cardinality(S \ R) \in Nat BY <1>1, FS_CardinalityType, FS_Subset
<1> QED BY <1>2, <1>3, <1>4, <1>5

(* Freeing n pages adds n to the number of free ones. *)
LEMMA CountFree ==
    ASSUME NEW U, NEW base \in Int, NEW n \in Nat, Run(base, n) \subseteq U, Run(base, n) \subseteq Pages
    PROVE  Cardinality(Pages \ (U \ Run(base, n))) = Cardinality(Pages \ U) + n
<1> DEFINE V == U \ Run(base, n)
<1>1. Run(base, n) \subseteq Pages \ V OBVIOUS
<1>2. /\ Cardinality(Pages \ (V \cup Run(base, n))) = Cardinality(Pages \ V) - n
      /\ Cardinality(Pages \ V) \in Nat
  <2> HIDE DEF V
  <2> QED BY <1>1, CountAlloc
<1>3. V \cup Run(base, n) = U OBVIOUS
<1> HIDE DEF V
<1>4. Cardinality(Pages \ U) = Cardinality(Pages \ V) - n /\ n \in Int BY <1>2, <1>3
<1>5. Cardinality(Pages \ V) = Cardinality(Pages \ U) + n BY <1>2, <1>4
<1> QED BY <1>5 DEF V

(* There are never more free pages than pages. *)
LEMMA CountBound ==
    ASSUME NEW U
    PROVE  Cardinality(Pages \ U) \in 0..NPages
<1>1. IsFiniteSet(Pages) /\ Cardinality(Pages) = NPages
  <2>1. Cardinality(0..(NPages - 1)) = NPages BY LinkNumbers, FS_Interval
  <2> QED BY <2>1, PagesFinite DEF Pages
<1>2. Cardinality(Pages \ U) <= Cardinality(Pages) /\ IsFiniteSet(Pages \ U) BY <1>1, FS_Subset
<1> QED BY <1>1, <1>2, FS_CardinalityType, LinkNumbers

-----------------------------------------------------------------------------
(* The first block that is large enough is the lowest run that is. *)
LEMMA FoundIs ==
    ASSUME RunsIInv, NEW n \in Sizes
    PROVE  \/ Found(n) = free_list /\ \A p \in Starts(used) : property[p] < n
           \/ /\ Found(n) \in Starts(used) /\ Found(n) # free_list /\ n <= property[Found(n)]
              /\ \A p \in Starts(used) : n <= property[p] => Found(n) <= p
<1> DEFINE S == {p \in Pages : property[p] >= n}
<1>1. free_list \notin S /\ Linked(links, Starts(used)) /\ Found(n) = First(links, S)
  BY LinkNumbers DEF RunsIInv, Found
<1>2. n \in Int /\ \A p \in Starts(used) : p \in Pages /\ property[p] \in Int
  BY PageAssumption, StartIs DEF RunsIInv, PagesTypeOK
<1>3. \A p \in Starts(used) : p \in S <=> ~ (property[p] < n) BY <1>2
<1>4. \A p \in S : property[p] >= n OBVIOUS
<1> HIDE DEF S
<1>5. \/ Found(n) = free_list /\ Starts(used) \cap S = {}
      \/ Found(n) \in Starts(used) \cap S /\ \A e \in Starts(used) \cap S : Found(n) <= e
  BY <1>1, FirstLinked
<1>6. CASE Found(n) = free_list /\ Starts(used) \cap S = {} BY <1>3, <1>6
<1>7. CASE Found(n) \in Starts(used) \cap S /\ \A e \in Starts(used) \cap S : Found(n) <= e
  <2>1. Found(n) # free_list BY <1>1, <1>7
  <2>2. ASSUME NEW p \in Starts(used), n <= property[p] PROVE Found(n) <= p
    BY <1>2, <1>3, <1>7, <2>2
  <2> QED BY <1>2, <1>3, <1>7, <2>1, <2>2
<1> QED BY <1>5, <1>6, <1>7

(* Taking the first pages of a listed block keeps the invariant. *)
LEMMA TakeInv ==
    ASSUME RunsIInv, NEW n \in Sizes, NEW page \in Starts(used), n <= property[page], Take(page, n),
           linkage' = "merged"
    PROVE  RunsIInv'
<1> DEFINE F == Starts(used)
           V == used \cup Run(page, n)
           l == list_del(links, page)
           prev == links.prev[page]
           rest == page + n
<1>0. /\ used \subseteq Pages /\ property \in [Pages -> 0..NPages] /\ AllSized(property, used)
      /\ Linked(links, F) /\ flagged = F /\ nr_free = Cardinality(Pages \ used) /\ halted = "NO"
      /\ n \in Nat /\ 1 <= n /\ NPages \in Nat
  BY PageAssumption DEF RunsIInv, PagesTypeOK, NeverStops
<1>1. page \in Pages /\ page \in Int /\ 0 <= page /\ page \notin used BY StartIs
<1>2. /\ property[page] \in Int /\ 1 <= property[page] /\ page + property[page] <= NPages
      /\ \A x \in Int : page <= x /\ x < page + property[page] => x \notin used
      /\ page + property[page] = NPages \/ page + property[page] \in used
  BY <1>0, <1>1, SizedIs DEF AllSized
<1>3. /\ Run(page, n) \subseteq Pages /\ \A x \in Run(page, n) : x \notin used
      /\ rest \notin F
      /\ n = property[page] => Starts(V) = F \ {page}
      /\ n < property[page] => /\ rest \in Pages
                               /\ Starts(V) = (F \ {page}) \cup {rest}
  <2>1. n \in Int BY <1>0
  <2> QED
    <3>1. Run(page, n) \subseteq Pages /\ \A x \in Run(page, n) : x \notin used
      BY <1>0, <2>1, StartsAlloc
    <3>2. page + n \notin F BY <1>0, <2>1, StartsAlloc
    <3>3. n = property[page] => Starts(used \cup Run(page, n)) = F \ {page}
      BY <1>0, <2>1, StartsAlloc
    <3>4. n < property[page] => /\ page + n \in Pages
                                /\ Starts(used \cup Run(page, n)) = (F \ {page}) \cup {page + n}
      BY <1>0, <2>1, StartsAlloc
    <3> HIDE DEF F
    <3> QED BY <3>1, <3>2, <3>3, <3>4, Zenon
<1>4. /\ used' = V /\ nr_free' = nr_free - n /\ result' = <<n, page>> /\ halted' = halted
  BY DEF Take
<1>5. nr_free' = Cardinality(Pages \ used') /\ nr_free' \in 0..NPages /\ used' \subseteq Pages /\ result' \in Sizes \X Pages
  <2>1. Run(page, n) \subseteq Pages \ used BY <1>3
  <2>2. Cardinality(Pages \ V) = Cardinality(Pages \ used) - n BY <1>0, <1>1, <2>1, CountAlloc
  <2>3. nr_free' = Cardinality(Pages \ used') BY <1>0, <1>4, <2>2
  <2>4. nr_free' \in 0..NPages BY <2>3, CountBound
  <2> QED BY <1>0, <1>1, <1>3, <1>4, <2>3, <2>4
<1>6. Linked(l, F \ {page}) /\ prev \in (F \cup {free_list}) /\ Before(F, page, prev) /\ Numbers(F)
  BY <1>0, DelLinked, LinkedIs
\* A run that is not cut ends where it did.
<1>7. ASSUME NEW q \in F \ {page} PROVE Sized(property, V, q)
  <2>1. q \in Int /\ q \in Pages /\ Sized(property, used, q) BY <1>0, StartIs DEF AllSized
  <2>2. q < page => q + property[q] < page BY <1>0, RunsApart
  <2>3. page < q => page + property[page] < q BY <1>0, RunsApart
  <2>4. property[q] \in Int BY <2>1, SizedIs
  <2>5. ASSUME NEW x \in Run(q, property[q]) PROVE x \notin V
    <3>1. x \in Int /\ q <= x /\ x < q + property[q] /\ x \notin used BY <2>1, <2>4, InRun DEF Sized
    <3>2. x \notin Run(page, n)
      <4>1. ~ (page <= x /\ x < page + n) BY <1>0, <1>1, <1>2, <2>1, <2>2, <2>3, <2>4, <3>1
      <4> QED BY <1>0, <1>1, <4>1, InRun
    <3> QED BY <3>1, <3>2
  <2> QED BY <2>1, <2>5 DEF Sized
<1> HIDE DEF F, V, l, prev, rest
<1>8. CASE property[page] > n
  <2>1. /\ links' = list_add(l, prev, rest)
        /\ property' = [property EXCEPT ![rest] = Rest(page, n)]
        /\ flagged' = (flagged \cup {rest}) \ {page}
    BY <1>8 DEF Take, l, prev, rest
  <2>2. rest \in Pages /\ rest \in Int /\ rest # page /\ page < rest /\ rest = page + n /\ free_list # rest
    BY <1>0, <1>1, <1>3, <1>8, LinkNumbers DEF rest
  <2>3. Starts(V) = (F \ {page}) \cup {rest} BY <1>0, <1>2, <1>3, <1>8
  <2>4. property[page] - n \in 1..(NPages - rest) /\ rest + (property[page] - n) = page + property[page]
    BY <1>0, <1>1, <1>2, <1>8, <2>2
  <2>5. /\ property' \in [Pages -> 0..NPages] /\ property'[rest] = property[page] - n
        /\ \A x \in Pages : x # rest => property'[x] = property[x]
    <3>1. property[page] - n \in 0..NPages BY <1>0, <1>1, <2>2, <2>4, LinkNumbers, PageIs
    <3> QED BY <1>0, <2>1, <2>2, <3>1 DEF Rest
  <2>6. Linked(links', Starts(V))
    <3>1. prev \in (F \ {page}) \cup {free_list} /\ (prev \in F => prev < page /\ prev \in Int)
      BY <1>1, <1>6, LinkNumbers DEF Before, Below, Numbers
    <3>2. /\ After(F \ {page}, prev, l.next[prev]) /\ l.prev[l.next[prev]] = prev
          /\ l.next[prev] \in (F \ {page}) \cup {free_list}
      BY <1>6, <3>1, LinkedIs
    <3>3. prev < rest BY <1>1, <2>2, <3>1, LinkNumbers
    <3>4. l.next[prev] # free_list => rest < l.next[prev]
      <4> DEFINE q == l.next[prev]
      <4> SUFFICES ASSUME q # free_list PROVE rest < q
        OBVIOUS
      <4>1. q \in F /\ q # page /\ prev < q /\ q \in Int BY <1>6, <3>2 DEF After, Numbers
      <4>2. ~ (q < page) BY <1>1, <1>6, <4>1, LinkNumbers DEF Before, Below, Numbers
      <4>3. page + property[page] < q
        <5>1. page < q BY <1>1, <4>1, <4>2
        <5> HIDE DEF q
        <5> QED BY <1>0, <4>1, <5>1, RunsApart DEF F
      <4> HIDE DEF q
      <4> QED BY <1>0, <1>1, <1>2, <1>8, <2>2, <4>1, <4>3
    <3>5. Linked(Between(l, rest, prev, l.next[prev]), (F \ {page}) \cup {rest})
      BY <1>3, <1>6, <2>2, <3>1, <3>2, <3>3, <3>4, BetweenLinked
    <3> QED BY <2>1, <2>3, <3>5 DEF list_add
  <2>7. flagged' = Starts(V) BY <1>0, <2>1, <2>2, <2>3
  <2>8. ASSUME NEW q \in Starts(V) PROVE Sized(property', V, q)
    <3>1. CASE q = rest
      <4>1. ASSUME NEW x \in Run(rest, property[page] - n) PROVE x \notin V
        <5>1. x \in Int /\ rest <= x /\ x < page + property[page] BY <1>0, <1>2, <2>2, <2>4, InRun
        <5>2. x \notin used BY <1>1, <1>2, <2>2, <5>1
        <5>3. x \notin Run(page, n) BY <1>0, <1>1, <2>2, <5>1, InRun
        <5> QED BY <5>2, <5>3 DEF V
      <4>2. page + property[page] \in used => page + property[page] \in V BY DEF V
      <4> QED BY <1>2, <2>4, <2>5, <3>1, <4>1, <4>2 DEF Sized
    <3>2. CASE q # rest
      <4>1. q \in F \ {page} /\ q \in Pages BY <2>3, <3>2, StartIs
      <4>2. property'[q] = property[q] BY <2>5, <3>2, <4>1
      <4> QED BY <1>7, <4>1, <4>2 DEF Sized
    <3> QED BY <3>1, <3>2
  <2>9. PagesTypeOK' BY <1>5, <2>5, <2>6, <2>7, StartIs DEF PagesTypeOK, Linked, Chained, Link
  <2> QED BY <1>0, <1>4, <1>5, <2>6, <2>7, <2>8, <2>9 DEF RunsIInv, AllSized, NeverStops
<1>9. CASE ~ (property[page] > n)
  <2>1. links' = l /\ property' = property /\ flagged' = flagged \ {page} BY <1>9 DEF Take, l
  <2>2. Starts(V) = F \ {page} BY <1>0, <1>2, <1>3, <1>9
  <2>3. Linked(links', Starts(V)) /\ flagged' = Starts(V) BY <1>0, <1>6, <2>1, <2>2
  <2>4. \A q \in Starts(V) : Sized(property', V, q) BY <1>7, <2>1, <2>2
  <2>5. PagesTypeOK' BY <1>0, <1>5, <2>1, <2>3, StartIs DEF PagesTypeOK, Linked, Chained, Link
  <2> QED BY <1>0, <1>4, <1>5, <2>3, <2>4, <2>5 DEF RunsIInv, AllSized, NeverStops
<1> QED BY <1>8, <1>9

(* The three ends of default_alloc_pages. *)
LEMMA AllocIs ==
    ASSUME NEW n, default_alloc_pages(n)
    PROVE  \/ /\ n > nr_free \/ Found(n) = free_list
              /\ result' = <<n, NULL>>
              /\ UNCHANGED <<links, property, flagged, nr_free, used, halted, linkage>>
           \/ n <= nr_free /\ Found(n) # free_list /\ Take(Found(n), n)
           \/ ~ ReachesEnd(links) /\ UNCHANGED <<links, property, flagged, nr_free, used, result, linkage>>
  BY Zenon DEF default_alloc_pages

(* So does default_alloc_pages, whether it finds a block or not. *)
LEMMA AllocInv ==
    ASSUME RunsIInv, NEW n \in Sizes, default_alloc_pages(n), linkage' = "merged"
    PROVE  RunsIInv'
<1>1. ReachesEnd(links) BY WalkLinked DEF RunsIInv
<1>2. CASE UNCHANGED <<links, property, flagged, nr_free, used, halted>> /\ result' = <<n, NULL>>
  BY <1>2 DEF RunsIInv, PagesTypeOK, AllSized, Sized, NeverStops
<1>3. CASE Found(n) # free_list /\ Take(Found(n), n)
  <2>1. Found(n) \in Starts(used) /\ n <= property[Found(n)] BY <1>3, FoundIs
  <2> QED BY <1>3, <2>1, TakeInv
<1> QED BY <1>1, <1>2, <1>3, AllocIs

(* The three ends of default_free_pages. *)
FreedAs(m, base, n) ==
    /\ links' = m.links /\ property' = m.property /\ flagged' = m.flagged
    /\ nr_free' = nr_free + n
    /\ used' = used \ Run(base, n)
    /\ linkage' = Inserted(base)
    /\ UNCHANGED halted
Entered(base, n) == [links |-> Insert(links, base), property |-> [property EXCEPT ![base] = n],
                       flagged |-> flagged \cup {base}]
Remerged(m, base) == Merge(MergeBefore(m, base), LowerBase(m, base))
Endless(base) == links.next[free_list] # free_list /\ ~ReachesEnd(links) /\ Above(links, base) = free_list

LEMMA FreeIs ==
    ASSUME NEW n, NEW base, default_free_pages(base, n)
    PROVE  /\ halted = "NO" /\ Run(base, n) \subseteq used /\ result' = <<>>
           /\ \/ /\ Run(base, n) \cap flagged # {} \/ Endless(base)
                 /\ halted' # "NO"
                 /\ UNCHANGED <<links, property, flagged, nr_free, used, linkage>>
              \/ /\ Run(base, n) \cap flagged = {} /\ ~ Endless(base)
                 /\ FreedAs(Remerged(Entered(base, n), base), base, n)
  BY Zenon DEF default_free_pages, MayFree, FreedAs, Remerged, Entered, Endless

(* So does default_free_pages unless the block is behind all free ones,     *)
(* which the history would tell.                                            *)
LEMMA FreeInv ==
    ASSUME RunsIInv, NEW n \in Sizes, NEW base \in Pages, default_free_pages(base, n), linkage' = "merged"
    PROVE  RunsIInv'
<1> DEFINE F == Starts(used)
           V == used \ Run(base, n)
           m == Entered(base, n)
           merged == Remerged(m, base)
<1>0. /\ used \subseteq Pages /\ property \in [Pages -> 0..NPages] /\ AllSized(property, used)
      /\ Linked(links, F) /\ flagged = F /\ nr_free = Cardinality(Pages \ used) /\ halted = "NO"
      /\ n \in Nat /\ 1 <= n /\ NPages \in Nat
  BY PageAssumption DEF RunsIInv, PagesTypeOK, NeverStops
<1>1. base \in Int /\ 0 <= base BY LinkNumbers
<1>2. Run(base, n) \subseteq used BY FreeIs
<1>3. base \in used /\ base \notin F
  <2>1. base \in Run(base, n) BY <1>0, <1>1, InRun
  <2> QED BY <1>2, <2>1, StartIs
<1>4. Run(base, n) \cap flagged = {} BY <1>0, <1>2, StartIs
<1>5. ReachesEnd(links) BY <1>0, WalkLinked
<1>f. FreedAs(merged, base, n)
  <2>1. ~ Endless(base) BY <1>5 DEF Endless
  <2> QED BY <1>4, <2>1, FreeIs
<1>6. \/ links.next[free_list] = free_list
      \/ Above(links, base) # free_list /\ links.prev[Above(links, base)] # Above(links, base)
  <2>1. linkage' = Inserted(base) BY <1>f DEF FreedAs
  <2> QED BY <2>1 DEF Inserted, Followed, RunsIInv
<1>7. Linked(Insert(links, base), F \cup {base}) BY <1>0, <1>3, <1>6, InsertChained DEF Linked
<1>8. HoldsRuns(merged, V)
  <2>1. m = [links |-> Insert(links, base), property |-> [property EXCEPT ![base] = n],
             flagged |-> F \cup {base}]
    BY <1>0 DEF Entered
  <2> HIDE DEF m
  <2> QED BY <1>0, <1>2, <1>7, <2>1, FreeMerges DEF Remerged
<1>9. /\ links' = merged.links /\ property' = merged.property /\ flagged' = merged.flagged
      /\ nr_free' = nr_free + n /\ used' = V /\ halted' = halted /\ result' = <<>>
  BY <1>f, FreeIs DEF FreedAs
<1>10. nr_free' = Cardinality(Pages \ used') /\ nr_free' \in 0..NPages /\ used' \subseteq Pages
  <2>1. Cardinality(Pages \ V) = Cardinality(Pages \ used) + n BY <1>0, <1>1, <1>2, CountFree
  <2>2. nr_free' = Cardinality(Pages \ used') BY <1>0, <1>9, <2>1
  <2> QED BY <1>0, <1>9, <2>2, CountBound
<1> HIDE DEF merged, V
<1>11. PagesTypeOK' BY <1>0, <1>8, <1>9, <1>10, StartIs DEF PagesTypeOK, HoldsRuns, Linked, Chained, Link
<1> QED BY <1>0, <1>8, <1>9, <1>10, <1>11 DEF RunsIInv, HoldsRuns, NeverStops

(* Every step keeps the invariant. *)
LEMMA RunsNextInv ==
    ASSUME RunsIInv, [PagesNext]_pagesVars, linkage' = "merged"
    PROVE  RunsIInv'
<1>1. ASSUME NEW n \in Sizes, default_alloc_pages(n) PROVE RunsIInv' BY <1>1, AllocInv
<1>2. ASSUME NEW n \in Sizes, NEW base \in Pages, default_free_pages(base, n) PROVE RunsIInv'
  BY <1>2, FreeInv
<1>3. CASE UNCHANGED pagesVars
  BY <1>3 DEF pagesVars, RunsIInv, PagesTypeOK, AllSized, Sized, NeverStops
<1> QED BY <1>1, <1>2, <1>3 DEF PagesNext

-----------------------------------------------------------------------------
(* Once a block was freed behind all others and is its own neighbour, the   *)
(* list still covers the free pages, merged or not.                         *)

\* The blocks of F with the sizes in prop are disjoint and cover what is not in U.
Covers(prop, F, U) ==
    /\ F \subseteq Pages /\ prop \in [Pages -> 0..NPages]
    /\ \A p \in F : prop[p] \in 1..(NPages - p)
    /\ \A p \in F, q \in F : p < q => p + prop[p] <= q
    /\ \A x \in Pages : x \notin U <=> \E p \in F : p <= x /\ x < p + prop[p]

\* m holds such blocks.
HoldsBlocks(m, U) == Chained(m.links, m.flagged, Pages) /\ Covers(m.property, m.flagged, U)

CoverIInv ==
    /\ Chained(links, flagged, Pages) /\ Covers(property, flagged, used)
    /\ nr_free = Cardinality(Pages \ used)
    /\ NeverStops

(* The history tells which of the two holds; sizes stay within the memory   *)
(* whatever link was followed.                                              *)
BoundsIInv ==
    /\ PagesTypeOK
    /\ \A p \in Pages : property[p] <= NPages - p
    /\ nr_free <= Cardinality(Pages \ used)

PagesIInv ==
    /\ BoundsIInv
    /\ linkage = "merged" => RunsIInv
    /\ linkage # "misled" => CoverIInv

(* What a block that covers free pages is. *)
LEMMA CoversIs ==
    ASSUME NEW prop, NEW F, NEW U, Covers(prop, F, U), NEW p \in F
    PROVE  /\ p \in Pages /\ p \in Int /\ 0 <= p /\ p < NPages /\ p \notin U /\ p # free_list /\ free_list < p
           /\ prop[p] \in Int /\ 1 <= prop[p] /\ p + prop[p] <= NPages
<1>1. p \in Pages /\ p \in Int /\ 0 <= p /\ p < NPages /\ p # free_list /\ free_list < p /\ NPages \in Int
  BY LinkNumbers DEF Covers
<1>2. prop[p] \in 1..(NPages - p) BY DEF Covers
<1>3. prop[p] \in Int /\ 1 <= prop[p] /\ p + prop[p] <= NPages BY <1>1, <1>2
<1>4. p \notin U
  <2>1. p <= p /\ p < p + prop[p] BY <1>1, <1>3
  <2> QED BY <1>1, <2>1 DEF Covers
<1> QED BY <1>1, <1>3, <1>4

(* Merging two blocks that touch covers the same pages. *)
LEMMA CoversMerge ==
    ASSUME NEW prop, NEW F, NEW U, Covers(prop, F, U), NEW a \in F, NEW b \in F, a + prop[a] = b
    PROVE  a # b /\ Covers([prop EXCEPT ![a] = @ + prop[b]], F \ {b}, U)
<1> DEFINE pr == [prop EXCEPT ![a] = @ + prop[b]]
<1>0. NPages \in Int /\ NPages > 0 BY LinkNumbers
<1>1. \A p \in F : /\ p \in Pages /\ p \in Int /\ 0 <= p /\ p < NPages
                   /\ prop[p] \in Int /\ 1 <= prop[p] /\ p + prop[p] <= NPages
  BY CoversIs
<1>2. /\ F \subseteq Pages /\ prop \in [Pages -> 0..NPages]
      /\ \A p \in F, q \in F : p < q => p + prop[p] <= q
      /\ \A x \in Pages : x \notin U <=> \E p \in F : p <= x /\ x < p + prop[p]
  BY DEF Covers
<1>3. a # b /\ a < b BY <1>1
<1>4. prop[a] + prop[b] \in 1..(NPages - a) /\ prop[a] + prop[b] \in 0..NPages BY <1>0, <1>1
<1>5. /\ pr \in [Pages -> 0..NPages] /\ pr[a] = prop[a] + prop[b]
      /\ \A x \in Pages : x # a => pr[x] = prop[x]
  BY <1>1, <1>2, <1>4
<1> HIDE DEF pr
<1>6. ASSUME NEW p \in F \ {b} PROVE pr[p] \in 1..(NPages - p)
  <2>1. CASE p = a BY <1>4, <1>5, <2>1
  <2>2. CASE p # a BY <1>0, <1>1, <1>5, <2>2
  <2> QED BY <2>1, <2>2
<1>7. ASSUME NEW p \in F \ {b}, NEW q \in F \ {b}, p < q PROVE p + pr[p] <= q
  <2>1. CASE p = a
    <3>1. b <= q BY <1>2, <1>7, <2>1
    <3>2. b < q BY <1>1, <3>1
    <3>3. b + prop[b] <= q BY <1>2, <3>2
    <3> QED BY <1>1, <1>5, <2>1, <3>3
  <2>2. CASE p # a BY <1>1, <1>2, <1>5, <1>7, <2>2
  <2> QED BY <2>1, <2>2
<1>8. ASSUME NEW x \in Pages PROVE x \notin U <=> \E p \in F \ {b} : p <= x /\ x < p + pr[p]
  <2>0. x \in Int BY LinkNumbers
  <2>1. ASSUME x \notin U PROVE \E p \in F \ {b} : p <= x /\ x < p + pr[p]
    <3>1. PICK p \in F : p <= x /\ x < p + prop[p] BY <1>2, <2>1
    <3>2. CASE p = b
      <4>1. a <= x /\ x < a + pr[a] BY <1>1, <1>3, <1>5, <2>0, <3>1, <3>2
      <4> QED BY <1>3, <4>1
    <3>3. CASE p = a
      <4>1. a <= x /\ x < a + pr[a] BY <1>1, <1>5, <2>0, <3>1, <3>3
      <4> QED BY <1>3, <4>1
    <3>4. CASE p # a /\ p # b BY <1>1, <1>5, <3>1, <3>4
    <3> QED BY <3>2, <3>3, <3>4
  <2>2. ASSUME NEW p \in F \ {b}, p <= x, x < p + pr[p] PROVE x \notin U
    <3>1. CASE p = a
      <4>1. x < b \/ b <= x BY <1>1, <2>0
      <4>2. x < b => x < a + prop[a] BY <1>1, <2>0
      <4>3. b <= x => x < b + prop[b] BY <1>1, <1>5, <2>0, <2>2, <3>1
      <4> QED BY <1>2, <2>2, <3>1, <4>1, <4>2, <4>3
    <3>2. CASE p # a BY <1>1, <1>2, <1>5, <2>2, <3>2
    <3> QED BY <3>1, <3>2
  <2> QED BY <2>1, <2>2
<1>9. F \ {b} \subseteq Pages BY <1>2
<1> QED BY <1>3, <1>5, <1>6, <1>7, <1>8, <1>9 DEF Covers, pr

(* Taking the first n pages of a block leaves the others, and the rest. *)
LEMMA CoversTake ==
    ASSUME NEW prop, NEW F, NEW U, Covers(prop, F, U), NEW page \in F,
           NEW n \in Int, 1 <= n, n <= prop[page]
    PROVE  /\ Run(page, n) \subseteq Pages \ U
           /\ n = prop[page] => Covers(prop, F \ {page}, U \cup Run(page, n))
           /\ n < prop[page] =>
                 /\ page + n \in Pages \ F
                 /\ Covers([prop EXCEPT ![page + n] = prop[page] - n], (F \ {page}) \cup {page + n},
                           U \cup Run(page, n))
<1> DEFINE rest == page + n
           pr == [prop EXCEPT ![rest] = prop[page] - n]
           V == U \cup Run(page, n)
           G == (F \ {page}) \cup {rest}
<1>0. NPages \in Int /\ NPages > 0 BY LinkNumbers
<1>1. \A p \in F : /\ p \in Pages /\ p \in Int /\ 0 <= p /\ p < NPages
                   /\ prop[p] \in Int /\ 1 <= prop[p] /\ p + prop[p] <= NPages
  BY CoversIs
<1>2. /\ F \subseteq Pages /\ prop \in [Pages -> 0..NPages]
      /\ \A p \in F, q \in F : p < q => p + prop[p] <= q
      /\ \A x \in Pages : x \notin U <=> \E p \in F : p <= x /\ x < p + prop[p]
  BY DEF Covers
<1>3. \A x : x \in Run(page, n) <=> x \in Int /\ page <= x /\ x < page + n BY <1>1, InRun
<1>4. ASSUME NEW x \in Run(page, n) PROVE x \in Pages /\ x \notin U
  <2>1. x \in Int /\ page <= x /\ x < page + prop[page] BY <1>1, <1>3
  <2>2. x \in Pages BY <1>0, <1>1, <2>1, PageIs
  <2> QED BY <1>2, <2>1, <2>2
(* A free page is in another block, or behind the first n. *)
<1>5. ASSUME NEW x \in Pages
      PROVE  x \notin V <=> \/ \E p \in F \ {page} : p <= x /\ x < p + prop[p]
                            \/ page + n <= x /\ x < page + prop[page]
  <2>0. x \in Int BY LinkNumbers
  <2>1. ASSUME NEW p \in F \ {page}, p <= x, x < p + prop[p] PROVE ~ (page <= x /\ x < page + prop[page])
    <3>1. p < page \/ page < p BY <1>1
    <3>2. p < page => p + prop[p] <= page BY <1>2
    <3>3. page < p => page + prop[page] <= p BY <1>2
    <3> QED BY <1>1, <2>0, <2>1, <3>1, <3>2, <3>3
  <2>2. x \notin U <=> \/ \E p \in F \ {page} : p <= x /\ x < p + prop[p]
                       \/ page <= x /\ x < page + prop[page]
    BY <1>2
  <2>3. x \in Run(page, n) <=> page <= x /\ x < page + n BY <1>3, <2>0
  <2>4. page + n <= x => page <= x BY <1>1, <2>0
  <2>5. x < page + n => x < page + prop[page] BY <1>1, <2>0
  <2>6. x < page + n <=> ~ (page + n <= x) BY <1>1, <2>0
  <2> QED BY <2>1, <2>2, <2>3, <2>4, <2>5, <2>6
<1>6. ASSUME n = prop[page] PROVE Covers(prop, F \ {page}, V)
  <2>1. ASSUME NEW x \in Pages PROVE ~ (page + n <= x /\ x < page + prop[page])
    BY <1>1, <1>6, LinkNumbers
  <2>2. \A x \in Pages : x \notin V <=> \E p \in F \ {page} : p <= x /\ x < p + prop[p]
    BY <1>5, <2>1
  <2>3. \A p \in F \ {page} : prop[p] \in 1..(NPages - p) BY DEF Covers
  <2> HIDE DEF V
  <2> QED BY <1>2, <2>2, <2>3 DEF Covers
<1>7. ASSUME n < prop[page] PROVE rest \in Pages \ F /\ Covers(pr, G, V)
  <2>1. rest \in Int /\ 0 <= rest /\ rest < NPages /\ page < rest /\ rest < page + prop[page]
    BY <1>0, <1>1, <1>7
  <2>2. rest \in Pages BY <2>1, PageIs
  <2>3. rest \notin F
    <3>1. ~ (page + prop[page] <= rest) BY <1>1, <2>1
    <3> QED BY <1>2, <2>1, <3>1
  <2>4. prop[page] - n \in 1..(NPages - rest) /\ prop[page] - n \in 0..NPages /\ prop[page] - n \in Int
        /\ rest + (prop[page] - n) = page + prop[page]
    BY <1>0, <1>1, <1>7, <2>1
  <2>5. /\ pr \in [Pages -> 0..NPages] /\ pr[rest] = prop[page] - n
        /\ \A x \in Pages : x # rest => pr[x] = prop[x]
    BY <1>2, <2>2, <2>4
  <2> HIDE DEF pr, rest
  <2>6. ASSUME NEW p \in G PROVE pr[p] \in 1..(NPages - p)
    <3>1. CASE p = rest BY <2>4, <2>5, <3>1
    <3>2. CASE p # rest
      <4>1. p \in F /\ pr[p] = prop[p] BY <1>1, <2>5, <3>2
      <4> QED BY <4>1 DEF Covers
    <3> QED BY <3>1, <3>2
  <2>7. ASSUME NEW p \in G, NEW q \in G, p < q PROVE p + pr[p] <= q
    <3>1. CASE p = rest /\ q = rest BY <2>1, <2>7, <3>1
    <3>2. CASE p = rest /\ q # rest
      <4>1. q \in F /\ page < q BY <1>1, <2>1, <2>7, <3>2
      <4>2. page + prop[page] <= q BY <1>2, <4>1
      <4> QED BY <2>4, <2>5, <3>2, <4>2
    <3>3. CASE p # rest /\ q = rest
      <4>1. p \in F /\ p # page /\ pr[p] = prop[p] BY <1>1, <2>5, <3>3
      <4>2. ~ (page < p)
        <5>1. page < p => page + prop[page] <= p BY <1>2, <4>1
        <5> QED BY <1>1, <2>1, <2>7, <3>3, <4>1, <5>1
      <4>3. p + prop[p] <= page BY <1>1, <1>2, <4>1, <4>2
      <4> QED BY <1>1, <2>1, <3>3, <4>1, <4>3
    <3>4. CASE p # rest /\ q # rest
      <4>1. p \in F /\ q \in F /\ pr[p] = prop[p] BY <1>1, <2>5, <3>4
      <4> QED BY <1>2, <2>7, <4>1
    <3> QED BY <3>1, <3>2, <3>3, <3>4
  <2>8. ASSUME NEW x \in Pages PROVE x \notin V <=> \E p \in G : p <= x /\ x < p + pr[p]
    <3>1. (\E p \in G : p <= x /\ x < p + pr[p])
          <=> \/ \E p \in F \ {page} : p <= x /\ x < p + pr[p]
              \/ rest <= x /\ x < rest + pr[rest]
      OBVIOUS
    <3>2. \A p \in F \ {page} : pr[p] = prop[p] BY <1>1, <2>3, <2>5
    <3>3. rest + pr[rest] = page + prop[page] BY <2>4, <2>5
    <3>4. x \notin V <=> \/ \E p \in F \ {page} : p <= x /\ x < p + prop[p]
                         \/ rest <= x /\ x < page + prop[page]
      BY <1>5 DEF rest
    <3> HIDE DEF G, V
    <3> QED BY <3>1, <3>2, <3>3, <3>4
  <2>9. G \subseteq Pages BY <1>2, <2>2
  <2> HIDE DEF G, V
  <2> QED BY <2>2, <2>3, <2>5, <2>6, <2>7, <2>8, <2>9 DEF Covers
<1> QED BY <1>4, <1>6, <1>7

(* What is given back is a block of its own at first. *)
LEMMA CoversFree ==
    ASSUME NEW prop, NEW F, NEW U, U \subseteq Pages, Covers(prop, F, U), NEW base \in Pages,
           NEW n \in Int, 1 <= n, Run(base, n) \subseteq U
    PROVE  /\ base \notin F /\ base + n <= NPages
           /\ Covers([prop EXCEPT ![base] = n], F \cup {base}, U \ Run(base, n))
<1> DEFINE pr == [prop EXCEPT ![base] = n]
           V == U \ Run(base, n)
           G == F \cup {base}
<1>0. NPages \in Int /\ NPages > 0 /\ base \in Int /\ 0 <= base /\ base < NPages BY LinkNumbers
<1>1. \A p \in F : /\ p \in Pages /\ p \in Int /\ 0 <= p /\ p < NPages /\ p \notin U
                   /\ prop[p] \in Int /\ 1 <= prop[p] /\ p + prop[p] <= NPages
  BY CoversIs
<1>2. /\ F \subseteq Pages /\ prop \in [Pages -> 0..NPages]
      /\ \A p \in F, q \in F : p < q => p + prop[p] <= q
      /\ \A x \in Pages : x \notin U <=> \E p \in F : p <= x /\ x < p + prop[p]
  BY DEF Covers
<1>3. \A x : x \in Run(base, n) <=> x \in Int /\ base <= x /\ x < base + n BY <1>0, InRun
<1>4. base \in U /\ base \notin F /\ base + n <= NPages
  <2>1. base \in Run(base, n) /\ base + n - 1 \in Run(base, n) BY <1>0, <1>3
  <2>2. base + n - 1 \in Pages BY <2>1
  <2>3. base + n - 1 < NPages BY <2>2, PageIs
  <2> QED BY <1>0, <1>1, <2>1, <2>3
<1>5. n \in 1..(NPages - base) /\ n \in 0..NPages BY <1>0, <1>4
<1>6. /\ pr \in [Pages -> 0..NPages] /\ pr[base] = n
      /\ \A x \in Pages : x # base => pr[x] = prop[x]
  BY <1>2, <1>5
<1> HIDE DEF pr
<1>7. ASSUME NEW p \in G PROVE pr[p] \in 1..(NPages - p)
  <2>1. CASE p = base BY <1>5, <1>6, <2>1
  <2>2. CASE p # base
    <3>1. p \in F /\ pr[p] = prop[p] BY <1>1, <1>6, <2>2
    <3> QED BY <3>1 DEF Covers
  <2> QED BY <2>1, <2>2
<1>8. ASSUME NEW p \in G, NEW q \in G, p < q PROVE p + pr[p] <= q
  <2>1. CASE p = base /\ q = base BY <1>0, <1>8, <2>1
  <2>2. CASE p = base /\ q # base
    <3>1. q \in F /\ q \in Int /\ q \notin Run(base, n) BY <1>1, <2>2
    <3> QED BY <1>0, <1>3, <1>6, <1>8, <2>2, <3>1
  <2>3. CASE p # base /\ q = base
    <3>1. p \in F /\ p \in Int /\ pr[p] = prop[p] /\ prop[p] \in Int BY <1>1, <1>6, <2>3
    <3>2. ~ (base < p + prop[p])
      <4> SUFFICES ASSUME base < p + prop[p] PROVE FALSE
        OBVIOUS
      <4>1. p <= base BY <1>0, <1>8, <2>3, <3>1
      <4> QED BY <1>2, <1>4, <3>1, <4>1
    <3> QED BY <1>0, <2>3, <3>1, <3>2
  <2>4. CASE p # base /\ q # base
    <3>1. p \in F /\ q \in F /\ pr[p] = prop[p] BY <1>1, <1>6, <2>4
    <3> QED BY <1>2, <1>8, <3>1
  <2> QED BY <2>1, <2>2, <2>3, <2>4
<1>9. ASSUME NEW x \in Pages PROVE x \notin V <=> \E p \in G : p <= x /\ x < p + pr[p]
  <2>1. (\E p \in G : p <= x /\ x < p + pr[p])
        <=> (\E p \in F : p <= x /\ x < p + pr[p]) \/ (base <= x /\ x < base + pr[base])
    OBVIOUS
  <2>2. \A p \in F : pr[p] = prop[p] BY <1>1, <1>4, <1>6
  <2>3. x \in Run(base, n) <=> base <= x /\ x < base + n BY <1>3, LinkNumbers
  <2>4. x \notin V <=> x \notin U \/ x \in Run(base, n) OBVIOUS
  <2>5. x \notin U <=> \E p \in F : p <= x /\ x < p + prop[p] BY <1>2
  <2>6. (\E p \in F : p <= x /\ x < p + pr[p]) <=> (\E p \in F : p <= x /\ x < p + prop[p]) BY <2>2
  <2> HIDE DEF G, V
  <2> QED BY <1>6, <2>1, <2>3, <2>4, <2>5, <2>6
<1>10. G \subseteq Pages BY <1>2
<1> HIDE DEF G, V
<1> QED BY <1>4, <1>6, <1>7, <1>8, <1>9, <1>10 DEF Covers, G, V, pr

(* The runs of free pages cover them. *)
LEMMA RunsCover ==
    ASSUME RunsIInv
    PROVE  CoverIInv
<1> DEFINE F == Starts(used)
<1>0. /\ used \subseteq Pages /\ property \in [Pages -> 0..NPages] /\ AllSized(property, used)
      /\ Linked(links, F) /\ flagged = F /\ F \subseteq Pages
  BY DEF RunsIInv, PagesTypeOK, Starts
<1>1. Chained(links, F, Pages) BY <1>0 DEF Linked, Chained
<1>2. \A p \in F : /\ p \in Int /\ 0 <= p /\ property[p] \in 1..(NPages - p)
                   /\ property[p] \in Int /\ 1 <= property[p] /\ p + property[p] <= NPages
                   /\ \A x \in Int : p <= x /\ x < p + property[p] => x \notin used
                   /\ p + property[p] = NPages \/ p + property[p] \in used
  BY <1>0, StartIs, SizedIs DEF AllSized, Sized
<1>3. ASSUME NEW p \in F, NEW q \in F, p < q PROVE p + property[p] <= q
  <2>1. p + property[p] < q BY <1>0, <1>3, RunsApart
  <2> QED BY <1>2, <2>1
<1>4. ASSUME NEW x \in Pages PROVE x \notin used <=> \E p \in F : p <= x /\ x < p + property[p]
  <2>0. x \in Int /\ x < NPages BY LinkNumbers
  <2>1. ASSUME x \notin used PROVE \E p \in F : p <= x /\ x < p + property[p]
    <3>1. PICK s \in F : s <= x /\ \A y \in s..x : y \notin used BY <2>1, StartBelow
    <3>2. ~ (s + property[s] <= x)
      <4> SUFFICES ASSUME s + property[s] <= x PROVE FALSE
        OBVIOUS
      <4>1. s + property[s] \in s..x BY <1>2, <2>0
      <4>2. s + property[s] \in used BY <1>2, <2>0, LinkNumbers
      <4> QED BY <3>1, <4>1, <4>2
    <3>3. x < s + property[s] BY <1>2, <2>0, <3>2
    <3> QED BY <3>1, <3>3
  <2>2. ASSUME NEW p \in F, p <= x, x < p + property[p] PROVE x \notin used BY <1>2, <2>0, <2>2
  <2> QED BY <2>1, <2>2
<1> HIDE DEF F
<1>5. Covers(property, F, used) BY <1>0, <1>2, <1>3, <1>4 DEF Covers
<1> QED BY <1>0, <1>1, <1>5 DEF RunsIInv, CoverIInv

-----------------------------------------------------------------------------
\* The block behind e has e in front.
Answers(l, e) == l.prev[l.next[e]] = e

(* Merging with the block in front leaves blocks that cover the same pages, *)
LEMMA LowerBlocks ==
    ASSUME NEW U, NEW m, HoldsBlocks(m, U), NEW base \in m.flagged, Answers(m.links, base)
    PROVE  /\ HoldsBlocks(MergeBefore(m, base), U)
           /\ LowerBase(m, base) \in MergeBefore(m, base).flagged
           /\ Answers(MergeBefore(m, base).links, LowerBase(m, base))
<1> DEFINE l == m.links
           F == m.flagged
           p == l.prev[base]
           q == l.next[base]
           ll == list_del(l, base)
<1>0. Chained(l, F, Pages) /\ Covers(m.property, F, U) BY DEF HoldsBlocks
<1>1. CASE ~ (p # free_list /\ p + m.property[p] = base)
  <2>1. MergeBefore(m, base) = m /\ LowerBase(m, base) = base BY <1>1 DEF MergeBefore, LowerBase
  <2> QED BY <2>1
<1>2. CASE p # free_list /\ p + m.property[p] = base
  <2>1. p # base
    <3>1. m.property[base] \in Int /\ 1 <= m.property[base] /\ base \in Int BY <1>0, CoversIs
    <3> QED BY <1>2, <3>1
  <2>2. p \in F /\ Before(F, base, p) /\ l \in LinkType /\ p \in Link /\ q \in Link /\ base \in Link /\ Numbers(F)
        /\ q \in F \cup {free_list} /\ After(F, base, q)
    BY <1>0, <1>2, <2>1, ChainedIs
  <2>3. Chained(ll, F \ {base}, Pages) BY <1>0, <2>1, DelChained
  <2>4. p # base /\ Covers([m.property EXCEPT ![p] = @ + m.property[base]], F \ {base}, U)
    BY <1>0, <1>2, <2>2, CoversMerge
  <2>5. /\ \A e \in Link : ll.next[e] = IF e = p THEN q ELSE l.next[e]
        /\ \A e \in Link : ll.prev[e] = IF e = q THEN p ELSE l.prev[e]
    BY <2>2, DelIs
  <2>6. MergeBefore(m, base) = [links |-> ll,
                                property |-> [m.property EXCEPT ![p] = @ + m.property[base]],
                                flagged |-> F \ {base}]
    BY <1>2 DEF MergeBefore
  <2>7. LowerBase(m, base) = p BY <1>2 DEF LowerBase
  <2>8. ll.prev[ll.next[p]] = p BY <2>2, <2>5
  <2> HIDE DEF l, F, p, q, ll
  <2>9. HoldsBlocks(MergeBefore(m, base), U)
    <3> DEFINE mm == [links |-> ll, property |-> [m.property EXCEPT ![p] = @ + m.property[base]],
                      flagged |-> F \ {base}]
    <3>1. HoldsBlocks(mm, U) BY <2>3, <2>4, Zenon DEF HoldsBlocks
    <3> QED BY <2>6, <3>1, Zenon
  <2>10. MergeBefore(m, base).flagged = F \ {base} /\ MergeBefore(m, base).links = ll
    <3> DEFINE mm == [links |-> ll, property |-> [m.property EXCEPT ![p] = @ + m.property[base]],
                      flagged |-> F \ {base}]
    <3>1. mm.flagged = F \ {base} /\ mm.links = ll OBVIOUS
    <3>2. MergeBefore(m, base) = mm BY <2>6
    <3> HIDE DEF mm
    <3> QED BY <3>1, <3>2
  <2> QED BY <2>2, <2>1, <2>7, <2>8, <2>9, <2>10 DEF Answers
<1> QED BY <1>1, <1>2

(* and so does merging with the one behind. *)
LEMMA UpperBlocks ==
    ASSUME NEW U, NEW m, HoldsBlocks(m, U), NEW base \in m.flagged, Answers(m.links, base)
    PROVE  HoldsBlocks(Merge(m, base), U)
<1> DEFINE l == m.links
           F == m.flagged
           p == l.next[base]
           ll == list_del(l, p)
<1>0. Chained(l, F, Pages) /\ Covers(m.property, F, U) BY DEF HoldsBlocks
<1>1. CASE ~ (p # free_list /\ base + m.property[base] = p) BY <1>1 DEF Merge
<1>2. CASE p # free_list /\ base + m.property[base] = p
  <2>1. p \in F BY <1>0, <1>2, ChainedIs
  <2>2. base # p /\ Covers([m.property EXCEPT ![base] = @ + m.property[p]], F \ {p}, U)
    BY <1>0, <1>2, <2>1, CoversMerge
  <2>3. Chained(ll, F \ {p}, Pages) BY <1>0, <2>1, <2>2, DelChained DEF Answers
  <2>4. Merge(m, base) = [links |-> ll, property |-> [m.property EXCEPT ![base] = @ + m.property[p]],
                          flagged |-> F \ {p}]
    BY <1>2 DEF Merge
  <2> HIDE DEF l, F, p, ll
  <2> DEFINE mm == [links |-> ll, property |-> [m.property EXCEPT ![base] = @ + m.property[p]],
                    flagged |-> F \ {p}]
  <2>5. HoldsBlocks(mm, U) BY <2>2, <2>3, Zenon DEF HoldsBlocks
  <2> QED BY <2>4, <2>5, Zenon
<1> QED BY <1>1, <1>2

(* The first pages of a block can be taken if its own link is right. *)
LEMMA TakeBlocks ==
    ASSUME CoverIInv, NEW page \in flagged, links.prev[page] # page,
           NEW n \in Int, 1 <= n, n <= property[page], Take(page, n)
    PROVE  /\ Chained(links', flagged', Pages) /\ Covers(property', flagged', used')
           /\ Run(page, n) \subseteq Pages \ used
<1> DEFINE F == flagged
           l == list_del(links, page)
           before == links.prev[page]
           q == links.next[page]
           rest == page + n
<1>0. Chained(links, F, Pages) /\ Covers(property, F, used) BY DEF CoverIInv
<1>1. /\ page \in Pages /\ page \in Int /\ 0 <= page /\ page + property[page] <= NPages /\ free_list < page
      /\ property[page] \in Int
  BY <1>0, CoversIs
<1>2. /\ Numbers(F) /\ links \in LinkType /\ page \in Link /\ before \in Link /\ q \in Link
      /\ before \in F \cup {free_list} /\ Before(F, page, before)
      /\ q \in F \cup {free_list} /\ After(F, page, q)
  BY <1>0, ChainedIs
<1>3. /\ Run(page, n) \subseteq Pages \ used
      /\ n = property[page] => Covers(property, F \ {page}, used \cup Run(page, n))
      /\ n < property[page] =>
            /\ page + n \in Pages \ F
            /\ Covers([property EXCEPT ![page + n] = property[page] - n], (F \ {page}) \cup {page + n},
                      used \cup Run(page, n))
  BY <1>0, CoversTake
<1>4. Chained(l, F \ {page}, Pages) BY <1>0, DelChained
<1>5. used' = used \cup Run(page, n) BY DEF Take
<1>6. CASE property[page] > n
  <2>1. /\ links' = list_add(l, before, rest)
        /\ property' = [property EXCEPT ![rest] = property[page] - n]
        /\ flagged' = (F \cup {rest}) \ {page}
    BY <1>6 DEF Take, Rest
  <2>2. rest \in Pages \ F /\ page < rest /\ rest \in Int /\ rest < page + property[page] BY <1>1, <1>3, <1>6
  <2>3. (F \cup {rest}) \ {page} = (F \ {page}) \cup {rest} BY <1>1, <2>2
  <2>4. l.next[before] = q BY <1>2, DelIs
  <2>5. q # page /\ before # page
    <3>1. q # page BY <1>1, <1>2, LinkNumbers DEF After
    <3> QED BY <3>1
  <2>6. After(F \ {page}, before, q) /\ Before(F \ {page}, q, before) BY <1>2, BesideDel
  <2>7. before < rest
    <3>1. before < page /\ before \in Int BY <1>1, <1>2, LinkNumbers DEF Before, Below, Numbers
    <3> QED BY <1>1, <2>2, <3>1
  <2>8. q = free_list \/ rest < q
    <3> SUFFICES ASSUME q # free_list PROVE rest < q
      OBVIOUS
    <3>1. q \in F /\ page < q /\ q \in Int BY <1>2 DEF After, Numbers
    <3>2. page + property[page] <= q BY <1>0, <3>1 DEF Covers
    <3> HIDE DEF q
    <3> QED BY <1>1, <2>2, <3>1, <3>2
  <2> HIDE DEF l, before, q, rest, F
  <2>9. Chained(Between(l, rest, before, q), (F \ {page}) \cup {rest}, Pages)
    BY <1>2, <1>4, <2>2, <2>4, <2>5, <2>6, <2>7, <2>8, BetweenChained
  <2>10. Chained(links', flagged', Pages) BY <2>1, <2>3, <2>4, <2>9 DEF list_add
  <2> QED BY <1>3, <1>5, <1>6, <2>1, <2>3, <2>10, <1>1 DEF rest
<1>7. CASE ~ (property[page] > n)
  <2>1. links' = l /\ property' = property /\ flagged' = F \ {page} BY <1>7 DEF Take
  <2>2. n = property[page] BY <1>1, <1>7
  <2> HIDE DEF l, F
  <2> QED BY <1>3, <1>4, <1>5, <2>1, <2>2
<1> QED BY <1>6, <1>7

(* A step that does not follow a loose link keeps the free pages covered:   *)
(* a request,                                                               *)
LEMMA CoverAlloc ==
    ASSUME CoverIInv, NEW n \in Sizes, default_alloc_pages(n), linkage' # "misled"
    PROVE  /\ CoverIInv'
           /\ \/ result' = <<n, NULL>> /\ used' = used
              \/ \E base \in Pages : /\ Run(base, n) \subseteq Pages \ used
                                     /\ used' = used \cup Run(base, n) /\ result' = <<n, base>>
<1>0. /\ Chained(links, flagged, Pages) /\ Covers(property, flagged, used) /\ n \in Int /\ 1 <= n
      /\ nr_free = Cardinality(Pages \ used) /\ halted = "NO"
  BY PageAssumption DEF CoverIInv, NeverStops
<1>1. ReachesEnd(links) BY <1>0, WalkChained
<1>2. CASE /\ UNCHANGED <<links, property, flagged, nr_free, used, halted, linkage>>
           /\ result' = <<n, NULL>>
  BY <1>0, <1>2 DEF CoverIInv, NeverStops
<1>3. CASE Found(n) # free_list /\ Take(Found(n), n)
  <2> DEFINE page == Found(n)
             S == {p \in Pages : property[p] >= n}
  <2>1. page \in flagged /\ property[page] >= n
    <3>1. free_list \notin S /\ page = First(links, S) BY LinkNumbers DEF Found
    <3>2. First(links, S) \in flagged \cap S
      <4>1. First(links, S) # free_list BY <1>3, <3>1
      <4> HIDE DEF S, page
      <4> QED BY <1>0, <3>1, <4>1, FirstChained
    <3> QED BY <3>1, <3>2
  <2>2. /\ linkage' = Followed(page) /\ halted' = halted /\ nr_free' = nr_free - n
        /\ used' = used \cup Run(page, n) /\ result' = <<n, page>>
    BY <1>3 DEF Take
  <2>3. links.prev[page] # page BY <2>2 DEF Followed
  <2> HIDE DEF page
  <2>4. page \in Pages /\ page \in Int /\ property[page] \in Int BY <1>0, <2>1, CoversIs
  <2>5. n <= property[page] BY <1>0, <2>1, <2>4
  <2>6. Take(page, n) BY <1>3 DEF page
  <2>7. /\ Chained(links', flagged', Pages) /\ Covers(property', flagged', used')
        /\ Run(page, n) \subseteq Pages \ used
    BY <1>0, <2>1, <2>3, <2>5, <2>6, TakeBlocks
  <2>8. nr_free' = Cardinality(Pages \ used')
    <3>1. n \in Nat BY <1>0
    <3> QED BY <1>0, <2>2, <2>4, <2>7, <3>1, CountAlloc
  <2>9. CoverIInv' BY <1>0, <2>2, <2>7, <2>8 DEF CoverIInv, NeverStops
  <2> QED BY <2>2, <2>4, <2>7, <2>9
<1> QED BY <1>1, <1>2, <1>3, AllocIs

(* and giving back. *)
LEMMA CoverFree ==
    ASSUME CoverIInv, used \subseteq Pages, NEW n \in Sizes, NEW base \in Pages,
           default_free_pages(base, n), linkage' # "misled"
    PROVE  CoverIInv' /\ Run(base, n) \subseteq used /\ used' = used \ Run(base, n) /\ result' = <<>>
<1> DEFINE m == Entered(base, n)
           V == used \ Run(base, n)
           lower == MergeBefore(m, base)
           merged == Remerged(m, base)
<1>0. /\ Chained(links, flagged, Pages) /\ Covers(property, flagged, used) /\ n \in Int /\ 1 <= n /\ n \in Nat
      /\ nr_free = Cardinality(Pages \ used) /\ halted = "NO" /\ base \in Int
  BY PageAssumption, LinkNumbers DEF CoverIInv, NeverStops
<1>1. Run(base, n) \subseteq used /\ result' = <<>> BY FreeIs
<1>2. ReachesEnd(links) BY <1>0, WalkChained
<1>3. FreedAs(merged, base, n)
  <2>1. ~ Endless(base) BY <1>2 DEF Endless
  <2>2. Run(base, n) \cap flagged = {}
    <3>1. \A p \in flagged : p \notin used BY <1>0, CoversIs
    <3> QED BY <1>1, <3>1
  <2> QED BY <2>1, <2>2, FreeIs
<1>4. \/ links.next[free_list] = free_list
      \/ Above(links, base) = free_list
      \/ Above(links, base) # free_list /\ links.prev[Above(links, base)] # Above(links, base)
  <2>1. linkage' = Inserted(base) BY <1>3 DEF FreedAs
  <2> QED BY <2>1 DEF Inserted, Followed
<1>5. /\ base \notin flagged
      /\ Covers([property EXCEPT ![base] = n], flagged \cup {base}, V)
  BY <1>0, <1>1, CoversFree
<1>6. /\ Chained(Insert(links, base), flagged \cup {base}, Pages)
      /\ Insert(links, base).prev[Insert(links, base).next[base]] = base
  BY <1>0, <1>4, <1>5, InsertChained
<1>7. /\ m.links = Insert(links, base) /\ m.property = [property EXCEPT ![base] = n]
      /\ m.flagged = flagged \cup {base}
  BY DEF Entered
<1> HIDE DEF m, V
<1>8. HoldsBlocks(m, V) /\ base \in m.flagged /\ Answers(m.links, base)
  BY <1>5, <1>6, <1>7 DEF HoldsBlocks, Answers
<1>9. HoldsBlocks(merged, V) BY <1>8, LowerBlocks, UpperBlocks DEF Remerged
<1>10. Chained(merged.links, merged.flagged, Pages) /\ Covers(merged.property, merged.flagged, V)
  BY <1>9 DEF HoldsBlocks
<1> HIDE DEF merged
<1>11. /\ links' = merged.links /\ property' = merged.property /\ flagged' = merged.flagged
       /\ nr_free' = nr_free + n /\ used' = V /\ halted' = halted
  BY <1>3 DEF FreedAs, V
<1>12. nr_free' = Cardinality(Pages \ used')
  <2>1. Cardinality(Pages \ V) = Cardinality(Pages \ used) + n BY <1>0, <1>1, CountFree DEF V
  <2> QED BY <1>0, <1>11, <2>1
<1> QED BY <1>0, <1>1, <1>10, <1>11, <1>12 DEF CoverIInv, NeverStops, V

-----------------------------------------------------------------------------
(* The loop breaks at a block of S, in whatever list. *)
LEMMA FirstIn ==
    ASSUME NEW l, NEW S, S \subseteq Pages
    PROVE  First(l, S) \in S \cup {free_list}
<1>1. CASE Rounds(l, S) = {} BY <1>1 DEF First
<1>2. CASE Rounds(l, S) # {}
  <2>1. Rounds(l, S) \subseteq Nat /\ \A k \in Rounds(l, S) : Walk(l)[k] \in S BY LinkNumbers DEF Rounds
  <2>2. Min(Rounds(l, S)) \in Rounds(l, S) BY <1>2, <2>1, MinIsLeast
  <2> QED BY <1>2, <2>1, <2>2 DEF First
<1> QED BY <1>1, <1>2

\* Sizes that stay within the memory.
Within(prop) == prop \in [Pages -> 0..NPages] /\ \A p \in Pages : prop[p] <= NPages - p

(* Adding the size of the block behind stays within the memory. *)
LEMMA WithinAdd ==
    ASSUME NEW prop, Within(prop), NEW a \in Pages, NEW b \in Pages, a + prop[a] = b
    PROVE  Within([prop EXCEPT ![a] = @ + prop[b]])
<1>1. a \in Int /\ 0 <= a /\ a < NPages /\ b \in Int /\ NPages \in Int BY LinkNumbers
<1>2. prop[a] \in Int /\ 0 <= prop[a] /\ prop[b] \in Int /\ 0 <= prop[b] /\ prop[b] <= NPages - b
  BY <1>1 DEF Within
<1>3. prop[a] + prop[b] \in 0..NPages /\ prop[a] + prop[b] <= NPages - a BY <1>1, <1>2
<1> QED BY <1>3 DEF Within

\* What has the types of the allocator's list.
Typed(m) == m.links \in LinkType /\ Within(m.property) /\ m.flagged \subseteq Pages

(* Merging keeps the types, whatever the links are. *)
LEMMA MergesTyped ==
    ASSUME NEW m, Typed(m), NEW base \in Pages
    PROVE  /\ Typed(MergeBefore(m, base)) /\ LowerBase(m, base) \in Pages
           /\ Typed(Merge(m, base))
<1> DEFINE l == m.links
           p == l.prev[base]
           q == l.next[base]
<1>0. l \in LinkType /\ Within(m.property) /\ m.flagged \subseteq Pages BY DEF Typed
<1>1. base \in Link /\ p \in Link /\ q \in Link BY <1>0 DEF Link, LinkType
<1>2. p # free_list => p \in Pages BY <1>1 DEF Link
<1>3. q # free_list => q \in Pages BY <1>1 DEF Link
<1> HIDE DEF l, p, q
<1>4. ASSUME p # free_list, p + m.property[p] = base
      PROVE  Typed(MergeBefore(m, base)) /\ LowerBase(m, base) \in Pages
  <2> DEFINE mm == [links |-> list_del(l, base), property |-> [m.property EXCEPT ![p] = @ + m.property[base]],
                    flagged |-> m.flagged \ {base}]
  <2>1. MergeBefore(m, base) = mm /\ LowerBase(m, base) = p BY <1>4 DEF MergeBefore, LowerBase, l, p
  <2>2. list_del(l, base) \in LinkType BY <1>0, <1>1, DelIs
  <2>3. Within([m.property EXCEPT ![p] = @ + m.property[base]]) BY <1>0, <1>2, <1>4, WithinAdd
  <2>4. m.flagged \ {base} \subseteq Pages BY <1>0
  <2>5. /\ mm.links = list_del(l, base) /\ mm.property = [m.property EXCEPT ![p] = @ + m.property[base]]
        /\ mm.flagged = m.flagged \ {base}
    OBVIOUS
  <2> HIDE DEF mm
  <2>6. Typed(mm) BY <2>2, <2>3, <2>4, <2>5 DEF Typed
  <2> QED BY <1>2, <1>4, <2>1, <2>6
<1>5. ASSUME ~ (p # free_list /\ p + m.property[p] = base)
      PROVE  Typed(MergeBefore(m, base)) /\ LowerBase(m, base) \in Pages
  BY <1>5 DEF MergeBefore, LowerBase, l, p
<1>6. ASSUME q # free_list, base + m.property[base] = q PROVE Typed(Merge(m, base))
  <2> DEFINE mm == [links |-> list_del(l, q), property |-> [m.property EXCEPT ![base] = @ + m.property[q]],
                    flagged |-> m.flagged \ {q}]
  <2>1. Merge(m, base) = mm BY <1>6 DEF Merge, l, q
  <2>2. list_del(l, q) \in LinkType BY <1>0, <1>1, DelIs
  <2>3. Within([m.property EXCEPT ![base] = @ + m.property[q]]) BY <1>0, <1>3, <1>6, WithinAdd
  <2>4. m.flagged \ {q} \subseteq Pages BY <1>0
  <2>5. /\ mm.links = list_del(l, q) /\ mm.property = [m.property EXCEPT ![base] = @ + m.property[q]]
        /\ mm.flagged = m.flagged \ {q}
    OBVIOUS
  <2> HIDE DEF mm
  <2>6. Typed(mm) BY <2>2, <2>3, <2>4, <2>5 DEF Typed
  <2> QED BY <2>1, <2>6
<1>7. ASSUME ~ (q # free_list /\ base + m.property[base] = q) PROVE Typed(Merge(m, base)) BY <1>7 DEF Merge, l, q
<1> QED BY <1>4, <1>5, <1>6, <1>7

(* Insertion keeps them, if the search for the place ends. *)
LEMMA InsertTyped ==
    ASSUME NEW l \in LinkType, NEW base \in Pages,
           \/ l.next[free_list] = free_list
           \/ Above(l, base) # free_list
           \/ ReachesEnd(l)
    PROVE  Insert(l, base) \in LinkType
<1>0. l.next \in [Link -> Link] /\ l.prev \in [Link -> Link] /\ base \in Link /\ free_list \in Link
  BY DEF LinkType, Link
<1>1. CASE l.next[free_list] = free_list
  BY <1>0, <1>1, BetweenIs DEF Insert, list_add
<1>2. CASE l.next[free_list] # free_list /\ Above(l, base) # free_list
  <2> DEFINE above == Above(l, base)
  <2>1. above \in Pages
    <3>1. above = First(l, {p \in Pages : base < p}) BY DEF Above
    <3>2. {p \in Pages : base < p} \subseteq Pages OBVIOUS
    <3>3. First(l, {p \in Pages : base < p}) \in {p \in Pages : base < p} \cup {free_list} BY <3>2, FirstIn
    <3> QED BY <1>2, <3>1, <3>3
  <2>2. above \in Link /\ l.prev[above] \in Link BY <1>0, <2>1 DEF Link
  <2>3. Insert(l, base) = Between(l, base, l.prev[above], above) BY <1>2 DEF Insert, list_add_before
  <2> HIDE DEF above
  <2>4. Between(l, base, l.prev[above], above) \in LinkType BY <1>0, <2>2, BetweenIs
  <2> QED BY <2>3, <2>4
<1>3. CASE l.next[free_list] # free_list /\ Above(l, base) = free_list
  <2> DEFINE last == LastEntry(l)
             one == list_add(l, last, base)
  <2>1. last \in Link BY <1>3, LastExists DEF Link
  <2>2. Insert(l, base) = list_add(one, base, base) BY <1>3 DEF Insert
  <2> HIDE DEF last
  <2>4. one \in LinkType BY <1>0, <2>1, AddTyped
  <2> HIDE DEF one
  <2>6. list_add(one, base, base) \in LinkType BY <1>0, <2>4, AddTyped
  <2> QED BY <2>2, <2>6
<1> QED BY <1>1, <1>2, <1>3

(* No step leaves the bounds, whatever links it follows: a request, *)
LEMMA BoundsAlloc ==
    ASSUME BoundsIInv, NEW n \in Sizes, default_alloc_pages(n)
    PROVE  BoundsIInv'
<1>0. /\ links \in LinkType /\ Within(property) /\ flagged \subseteq Pages /\ nr_free \in 0..NPages
      /\ used \subseteq Pages /\ nr_free <= Cardinality(Pages \ used)
      /\ linkage \in {"merged", "loose", "misled"} /\ n \in Int /\ 1 <= n /\ n \in Nat
      /\ NPages \in Int
  BY PageAssumption DEF BoundsIInv, PagesTypeOK, LinkType, Link, Within
<1>1. CASE UNCHANGED <<links, property, flagged, nr_free, used, linkage>>
           /\ (result' = <<n, NULL>> \/ result' = result)
  BY <1>1 DEF BoundsIInv, PagesTypeOK
<1>2. CASE n <= nr_free /\ Found(n) # free_list /\ Take(Found(n), n)
  <2> DEFINE page == Found(n)
             l == list_del(links, page)
             before == links.prev[page]
             rest == page + n
  <2>1. page \in Pages /\ property[page] >= n
    <3> DEFINE S == {p \in Pages : property[p] >= n}
    <3>1. page = First(links, S) /\ S \subseteq Pages BY DEF Found
    <3>2. First(links, S) \in S \cup {free_list}
      <4> HIDE DEF S
      <4> QED BY <3>1, FirstIn
    <3> QED BY <1>2, <3>1, <3>2
  <2>2. Take(page, n) BY <1>2
  <2> HIDE DEF page
  <2>3. /\ page \in Int /\ 0 <= page /\ page < NPages /\ property[page] \in Int
        /\ property[page] <= NPages - page /\ page \in Link /\ before \in Link
    BY <1>0, <2>1, LinkNumbers DEF Within, Link, LinkType
  <2>4. l \in LinkType BY <1>0, <2>3, DelIs
  <2>5. /\ nr_free' = nr_free - n /\ used' = used \cup Run(page, n) /\ result' = <<n, page>>
        /\ linkage' \in {"merged", "loose", "misled"}
    BY <1>0, <2>2 DEF Take, Followed
  <2>6. ASSUME NEW x \in Run(page, n) PROVE x \in Pages
    <3>1. x \in Int /\ page <= x /\ x < page + n BY <1>0, <2>3, InRun
    <3> QED BY <1>0, <2>1, <2>3, <3>1, PageIs
  <2>7. nr_free' \in 0..NPages /\ nr_free' <= Cardinality(Pages \ used')
    <3> DEFINE A == Pages \ used
               R == Run(page, n)
    <3>1. IsFiniteSet(A) BY PagesFinite, FS_Subset
    <3>2. IsFiniteSet(R) /\ Cardinality(R) = n BY <1>0, <2>3, RunCardinality
    <3>3. Cardinality(A \ R) = Cardinality(A) - Cardinality(A \cap R) BY <3>1, FS_Difference
    <3>4. Cardinality(A \cap R) <= Cardinality(R) BY <3>2, FS_Subset
    <3>5. A \ R = Pages \ used' BY <2>5
    <3>6. IsFiniteSet(A \cap R) BY <3>1, FS_Subset
    <3>7. Cardinality(A) \in Nat /\ Cardinality(A \cap R) \in Nat BY <3>1, <3>6, FS_CardinalityType
    <3>8. nr_free <= Cardinality(A) BY <1>0
    <3> HIDE DEF A, R
    <3>9. Cardinality(Pages \ used') = Cardinality(A) - Cardinality(A \cap R) BY <3>3, <3>5
    <3> QED BY <1>0, <1>2, <2>5, <3>2, <3>4, <3>7, <3>8, <3>9
  <2>8. links' \in LinkType /\ Within(property') /\ flagged' \subseteq Pages
    <3>1. CASE property[page] > n
      <4>1. /\ links' = list_add(l, before, rest)
            /\ property' = [property EXCEPT ![rest] = property[page] - n]
            /\ flagged' = (flagged \cup {rest}) \ {page}
        BY <2>2, <3>1 DEF Take, Rest
      <4>2. rest \in Int /\ 0 <= rest /\ rest < NPages /\ property[page] - n \in 0..NPages
            /\ property[page] - n <= NPages - rest
        BY <1>0, <2>3, <3>1
      <4>3. rest \in Pages /\ rest \in Link BY <4>2, PageIs DEF Link
      <4> HIDE DEF l, before, rest
      <4>5. list_add(l, before, rest) \in LinkType BY <2>3, <2>4, <4>3, AddTyped
      <4>6. Within([property EXCEPT ![rest] = property[page] - n]) BY <1>0, <4>2, <4>3 DEF Within
      <4> QED BY <1>0, <4>1, <4>3, <4>5, <4>6
    <3>2. CASE ~ (property[page] > n)
      <4>1. links' = l /\ property' = property /\ flagged' = flagged \ {page} BY <2>2, <3>2 DEF Take
      <4> QED BY <1>0, <2>4, <4>1
    <3> QED BY <3>1, <3>2
  <2>9. result' \in Sizes \X (Pages \cup {NULL}) BY <2>1, <2>5
  <2> QED BY <1>0, <2>5, <2>6, <2>7, <2>8, <2>9 DEF BoundsIInv, PagesTypeOK, LinkType, Link, Within
<1> QED BY <1>1, <1>2, AllocIs

(* and giving back. *)
LEMMA BoundsFree ==
    ASSUME BoundsIInv, NEW n \in Sizes, NEW base \in Pages, default_free_pages(base, n)
    PROVE  BoundsIInv'
<1> DEFINE m == Entered(base, n)
           merged == Remerged(m, base)
<1>0. /\ links \in LinkType /\ Within(property) /\ flagged \subseteq Pages /\ nr_free \in 0..NPages
      /\ used \subseteq Pages /\ nr_free <= Cardinality(Pages \ used)
      /\ linkage \in {"merged", "loose", "misled"} /\ n \in Int /\ 1 <= n /\ n \in Nat
      /\ NPages \in Int /\ base \in Int /\ 0 <= base
  BY PageAssumption, LinkNumbers DEF BoundsIInv, PagesTypeOK, LinkType, Link, Within
<1>1. Run(base, n) \subseteq used /\ result' = <<>> BY FreeIs
<1>2. CASE UNCHANGED <<links, property, flagged, nr_free, used, linkage>>
  BY <1>1, <1>2 DEF BoundsIInv, PagesTypeOK
<1>3. CASE ~ Endless(base) /\ FreedAs(merged, base, n)
  <2>1. Insert(links, base) \in LinkType BY <1>0, <1>3, InsertTyped DEF Endless
  <2>2. base + n <= NPages
    <3>1. base + n - 1 \in Run(base, n) BY <1>0, InRun
    <3>2. base + n - 1 \in Pages BY <1>0, <1>1, <3>1
    <3>3. base + n - 1 < NPages BY <3>2, PageIs
    <3> QED BY <1>0, <3>3
  <2>3. Within([property EXCEPT ![base] = n])
    <3>1. n \in 0..NPages /\ n <= NPages - base BY <1>0, <2>2
    <3> QED BY <1>0, <3>1 DEF Within
  <2>4. Typed(m)
    <3>1. /\ m.links = Insert(links, base) /\ m.property = [property EXCEPT ![base] = n]
          /\ m.flagged = flagged \cup {base}
      BY DEF Entered
    <3> HIDE DEF m
    <3> QED BY <1>0, <2>1, <2>3, <3>1 DEF Typed
  <2> HIDE DEF m
  <2>5. Typed(merged) BY <2>4, MergesTyped DEF Remerged
  <2> HIDE DEF merged
  <2>6. /\ links' = merged.links /\ property' = merged.property /\ flagged' = merged.flagged
        /\ nr_free' = nr_free + n /\ used' = used \ Run(base, n) /\ linkage' = Inserted(base)
    BY <1>3 DEF FreedAs
  <2>7. linkage' \in {"merged", "loose", "misled"} BY <1>0, <2>6 DEF Inserted, Followed
  <2>8. nr_free' \in 0..NPages /\ nr_free' <= Cardinality(Pages \ used')
    <3>1. Cardinality(Pages \ used') = Cardinality(Pages \ used) + n BY <1>0, <1>1, <2>6, CountFree
    <3>2. Cardinality(Pages \ used) \in 0..NPages /\ Cardinality(Pages \ used') \in 0..NPages BY CountBound
    <3> QED BY <1>0, <2>6, <3>1, <3>2
  <2>9. links' \in LinkType /\ Within(property') /\ flagged' \subseteq Pages BY <2>5, <2>6 DEF Typed
  <2> QED BY <1>0, <1>1, <2>6, <2>7, <2>8, <2>9 DEF BoundsIInv, PagesTypeOK, LinkType, Link, Within
<1> QED BY <1>2, <1>3, FreeIs

-----------------------------------------------------------------------------
(* The history only moves on. *)
LEMMA LinkageMoves ==
    ASSUME NEW n, NEW base, default_alloc_pages(n) \/ default_free_pages(base, n)
    PROVE  /\ linkage' = "merged" => linkage = "merged"
           /\ linkage' # "misled" => linkage # "misled"
<1>1. CASE default_alloc_pages(n) BY <1>1, AllocIs DEF Take, Followed
<1>2. CASE default_free_pages(base, n)
  <2>1. linkage' = linkage \/ linkage' = Inserted(base) BY <1>2, FreeIs DEF FreedAs
  <2> QED BY <2>1 DEF Inserted, Followed
<1> QED BY <1>1, <1>2

(* Every step keeps the invariant. *)
LEMMA PagesNextInv ==
    ASSUME PagesIInv, [PagesNext]_pagesVars
    PROVE  PagesIInv'
<1>0. BoundsIInv /\ used \subseteq Pages BY DEF PagesIInv, BoundsIInv, PagesTypeOK
<1>1. ASSUME NEW n \in Sizes, default_alloc_pages(n) PROVE PagesIInv'
  <2>1. BoundsIInv' BY <1>0, <1>1, BoundsAlloc
  <2>2. linkage' = "merged" => RunsIInv' BY <1>1, LinkageMoves, AllocInv DEF PagesIInv
  <2>3. linkage' # "misled" => CoverIInv' BY <1>1, LinkageMoves, CoverAlloc DEF PagesIInv
  <2> QED BY <2>1, <2>2, <2>3 DEF PagesIInv
<1>2. ASSUME NEW n \in Sizes, NEW base \in Pages, default_free_pages(base, n) PROVE PagesIInv'
  <2>1. BoundsIInv' BY <1>0, <1>2, BoundsFree
  <2>2. linkage' = "merged" => RunsIInv' BY <1>2, LinkageMoves, FreeInv DEF PagesIInv
  <2>3. linkage' # "misled" => CoverIInv' BY <1>0, <1>2, LinkageMoves, CoverFree DEF PagesIInv
  <2> QED BY <2>1, <2>2, <2>3 DEF PagesIInv
<1>3. CASE UNCHANGED pagesVars
  BY <1>3 DEF pagesVars, PagesIInv, BoundsIInv, RunsIInv, CoverIInv, PagesTypeOK, AllSized, Sized, NeverStops
<1> QED BY <1>1, <1>2, <1>3 DEF PagesNext

(* All of memory is one listed block in the beginning. *)
LEMMA PagesInitIInv == PagesInit => PagesIInv
<1> SUFFICES ASSUME PagesInit PROVE PagesIInv
  OBVIOUS
<1>1. RunsIInv BY PagesInitInv
<1>2. CoverIInv BY <1>1, RunsCover
<1>3. BoundsIInv
  <2>1. PagesTypeOK /\ nr_free = Cardinality(Pages \ used) BY <1>1 DEF RunsIInv
  <2>2. Cardinality(Pages \ used) \in 0..NPages BY CountBound
  <2>3. \A p \in Pages : property[p] <= NPages - p BY LinkNumbers DEF PagesInit
  <2> QED BY <2>1, <2>2, <2>3 DEF BoundsIInv
<1> QED BY <1>1, <1>2, <1>3 DEF PagesIInv

(* The merged list is the runs of free pages, *)
LEMMA RunsGive ==
    ASSUME RunsIInv
    PROVE  ListIsFreeRuns
<1> DEFINE F == Starts(used)
<1>0. Linked(links, F) /\ AllSized(property, used) /\ flagged = F /\ nr_free = Cardinality(Pages \ used)
  BY DEF RunsIInv
<1>1. FreeStarts = F BY DEF FreeStarts, Starts
<1>2. ReachesEnd(links) /\ Entries(links) = F BY <1>0, WalkLinked
<1>3. \A k \in 1..NPages : Walk(links)[k] # free_list => Walk(links)[k - 1] < Walk(links)[k]
  BY <1>0, WalkLinked
<1>4. \A e \in F \cup {free_list} : links.prev[links.next[e]] = e BY <1>0, LinkedIs
<1>5. \A p \in F : property[p] = Length(p) BY <1>0, StartIs, LengthIs DEF AllSized
<1> QED BY <1>0, <1>1, <1>2, <1>3, <1>4, <1>5 DEF ListIsFreeRuns

(* and the list that covers the free pages does. *)
LEMMA CoverGives ==
    ASSUME CoverIInv
    PROVE  ListCoversFree
<1>0. Chained(links, flagged, Pages) /\ Covers(property, flagged, used) /\ nr_free = Cardinality(Pages \ used)
  BY DEF CoverIInv
<1>1. ReachesEnd(links) /\ Entries(links) = flagged BY <1>0, WalkChained, EntriesChained
<1>2. \A k \in 1..NPages : Walk(links)[k] # free_list => Walk(links)[k - 1] < Walk(links)[k]
  BY <1>0, WalkChained
<1>3. \A p, q \in flagged : p < q => p + property[p] <= q BY <1>0 DEF Covers
<1>4. \A p \in flagged : p \in Int /\ property[p] \in Int /\ 0 <= p /\ p + property[p] <= NPages
  BY <1>0, CoversIs
<1>5. ASSUME NEW x PROVE x \in UNION {Run(p, property[p]) : p \in flagged} <=> x \in Pages \ used
  <2>1. ASSUME NEW p \in flagged, x \in Run(p, property[p]) PROVE x \in Pages \ used
    <3>1. x \in Int /\ p <= x /\ x < p + property[p] BY <1>4, <2>1, InRun
    <3>2. x \in Pages BY <1>4, <3>1, LinkNumbers, PageIs
    <3> QED BY <1>0, <3>1, <3>2 DEF Covers
  <2>2. ASSUME x \in Pages \ used PROVE \E p \in flagged : x \in Run(p, property[p])
    <3>1. PICK p \in flagged : p <= x /\ x < p + property[p] BY <1>0, <2>2 DEF Covers
    <3>2. x \in Run(p, property[p]) BY <1>4, <2>2, <3>1, InRun, LinkNumbers
    <3> QED BY <3>2
  <2> QED BY <2>1, <2>2
<1>6. UNION {Run(p, property[p]) : p \in flagged} = Pages \ used BY <1>5
<1> QED BY <1>0, <1>1, <1>2, <1>3, <1>6 DEF ListCoversFree

(* The invariant, with what makes it inductive. *)
THEOREM PagesInvariance == PagesSpec => []PagesIInv
<1>1. PagesIInv /\ [PagesNext]_pagesVars => PagesIInv' BY PagesNextInv
<1> QED BY <1>1, PagesInitIInv, PTL DEF PagesSpec

(* Between any two calls the linked list holds exactly the maximal runs of  *)
(* free pages, in order and with their sizes, until a block is freed behind *)
(* all others; and exactly the free pages until the link of such a block to *)
(* itself is followed (default_alloc_pages, default_free_pages).            *)
THEOREM PagesCorrect == PagesSpec => []PagesInv
<1>1. PagesIInv => PagesInv
  BY RunsGive, CoverGives DEF PagesIInv, PagesInv, BoundsIInv, CoverIInv
<1> QED BY <1>1, PagesInvariance, PTL

-----------------------------------------------------------------------------
(* The list implements first fit. *)
LEMMA PoolPages == Pool!Pages = Pages
  BY LinkNumbers DEF Pool!Pages, Pool!Run, Pages

(* A free run lies in a listed block that is large enough. *)
LEMMA FreeRunIn ==
    ASSUME RunsIInv, NEW n \in Sizes, NEW base \in Pool!FreeRuns(n)
    PROVE  \E s \in Starts(used) : s <= base /\ n <= property[s]
<1>0. n \in Int /\ 1 <= n /\ used \subseteq Pages BY PageAssumption DEF RunsIInv, PagesTypeOK
<1>1. base \in Pages /\ base \in Int /\ \A x \in Int : base <= x /\ x < base + n => x \in Pages \ used
  BY <1>0, LinkNumbers, InRun DEF Pool!FreeRuns, Pool!Pages, Pool!Run, Run, Pages
<1>2. base \notin used BY <1>0, <1>1
<1>3. PICK s \in Starts(used) : s <= base /\ \A y \in s..base : y \notin used
  BY <1>1, <1>2, StartBelow
<1>4. /\ s \in Int /\ property[s] \in Int /\ 1 <= property[s] /\ s + property[s] <= NPages
      /\ s + property[s] = NPages \/ s + property[s] \in used
  BY StartIs, SizedIs DEF RunsIInv, AllSized
<1>5. s + property[s] \notin Pages \ used BY <1>4, PageIs
<1>6. ~ (s + property[s] < base + n)
  <2> SUFFICES ASSUME s + property[s] < base + n PROVE FALSE
    OBVIOUS
  <2>1. ~ (base <= s + property[s]) BY <1>1, <1>4, <1>5
  <2>2. s + property[s] \in s..base /\ s + property[s] # NPages BY <1>1, <1>4, <2>1, LinkNumbers
  <2> QED BY <1>3, <1>4, <2>2
<1>7. n <= property[s] BY <1>0, <1>1, <1>3, <1>4, <1>6
<1> QED BY <1>3, <1>7

(* A listed block that is large enough begins with a free run. *)
LEMMA StartIsFreeRun ==
    ASSUME RunsIInv, NEW n \in Sizes, NEW s \in Starts(used), n <= property[s]
    PROVE  s \in Pool!FreeRuns(n)
<1>0. n \in Int /\ 1 <= n /\ used \subseteq Pages /\ AllSized(property, used)
  BY PageAssumption DEF RunsIInv, PagesTypeOK
<1>1. Run(s, n) \subseteq Pages /\ \A x \in Run(s, n) : x \notin used BY <1>0, StartsAlloc
<1>2. s \in Pool!Pages /\ Pool!Run(s, n) = Run(s, n) BY StartIs, PoolPages DEF Pool!Run, Run
<1> QED BY <1>1, <1>2, PoolPages DEF Pool!FreeRuns

(* An allocation is the abstract one, or the abstract failure. *)
LEMMA AllocMaps ==
    ASSUME RunsIInv, NEW n \in Sizes, default_alloc_pages(n)
    PROVE  Pool!Alloc(n)
<1>0. n \in Int /\ 1 <= n /\ used \subseteq Pages /\ nr_free = Cardinality(Pages \ used) /\ ReachesEnd(links)
  BY PageAssumption, WalkLinked DEF RunsIInv, PagesTypeOK
<1>1. CASE /\ n > nr_free \/ Found(n) = free_list
           /\ result' = <<n, NULL>> /\ used' = used
  <2>1. ASSUME NEW base \in Pool!FreeRuns(n) PROVE FALSE
    <3>1. PICK s \in Starts(used) : s <= base /\ n <= property[s] BY FreeRunIn
    <3>2. property[s] \in Int /\ s \in Int BY StartIs, SizedIs DEF RunsIInv, AllSized
    <3>3. CASE Found(n) = free_list
      <4>1. property[s] < n BY <3>3, FoundIs
      <4> QED BY <1>0, <3>1, <3>2, <4>1
    <3>4. CASE n > nr_free
      <4>1. AllSized(property, used) BY DEF RunsIInv
      <4>2. Run(s, n) \subseteq Pages \ used BY <1>0, <3>1, <4>1, StartsAlloc
      <4>3. n <= Cardinality(Pages \ used) /\ Cardinality(Pages \ used) \in Nat
        <5>1. n \in Nat BY <1>0
        <5> QED BY <3>2, <4>2, <5>1, CountAlloc
      <4> QED BY <1>0, <3>4, <4>3
    <3> QED BY <1>1, <3>3, <3>4
  <2> QED BY <1>1, <2>1 DEF Pool!Alloc
<1>2. CASE Found(n) # free_list /\ Take(Found(n), n)
  <2> DEFINE page == Found(n)
  <2>1. /\ page \in Starts(used) /\ n <= property[page]
        /\ \A p \in Starts(used) : n <= property[p] => page <= p
    BY <1>2, FoundIs
  <2>2. page \in Pool!FreeRuns(n) /\ page \in Int BY <2>1, StartIsFreeRun, StartIs
  <2>3. ASSUME NEW other \in Pool!FreeRuns(n) PROVE page <= other
    <3>1. PICK s \in Starts(used) : s <= other /\ n <= property[s] BY FreeRunIn
    <3>2. page <= s /\ s \in Int /\ other \in Int
      BY <2>1, <3>1, StartIs, LinkNumbers DEF Pool!FreeRuns, Pool!Pages, Pool!Run, Pages
    <3> HIDE DEF page
    <3> QED BY <2>2, <3>1, <3>2
  <2>4. used' = used \cup Pool!Run(page, n) /\ result' = <<n, page>> BY <1>2 DEF Take, Pool!Run, Run
  <2> QED BY <2>2, <2>3, <2>4 DEF Pool!Alloc
<1> QED BY <1>0, <1>1, <1>2, AllocIs

(* Freeing is the abstract one. *)
LEMMA FreeMaps ==
    ASSUME RunsIInv, RunsIInv', NEW n \in Sizes, NEW base \in Pages, default_free_pages(base, n)
    PROVE  Pool!Free(base, n)
<1>1. halted' = "NO" BY DEF RunsIInv, NeverStops
<1>2. Run(base, n) \subseteq used /\ used' = used \ Run(base, n) /\ result' = <<>>
  BY <1>1 DEF default_free_pages, MayFree
<1> QED BY <1>2 DEF Pool!Free, Pool!Run, Run

(* Every step is an abstract one or changes nothing there. *)
LEMMA PagesNextMaps ==
    ASSUME RunsIInv, RunsIInv', [PagesNext]_pagesVars
    PROVE  [Pool!Next]_(Pool!vars)
<1>0. \A n \in Sizes : n \in 1..NPages BY PageAssumption
<1>1. ASSUME NEW n \in Sizes, default_alloc_pages(n) PROVE Pool!Next
  BY <1>0, <1>1, AllocMaps DEF Pool!Next
<1>2. ASSUME NEW n \in Sizes, NEW base \in Pages, default_free_pages(base, n) PROVE Pool!Next
  <2>1. base \in Pool!Pages BY LinkNumbers DEF Pool!Pages, Pool!Run, Pages
  <2> QED BY <1>0, <1>2, <2>1, FreeMaps DEF Pool!Next
<1>3. CASE UNCHANGED pagesVars BY <1>3 DEF pagesVars, Pool!vars
<1> QED BY <1>1, <1>2, <1>3 DEF PagesNext

(* Without the promise of first fit, requests and what is given back map    *)
(* as long as the free pages are covered.                                   *)
LEMMA LooseMaps ==
    ASSUME CoverIInv, used \subseteq Pages, [PagesNext]_pagesVars, linkage' # "misled"
    PROVE  [Pool!LooseNext]_(Pool!vars)
<1>0. \A n \in Sizes : n \in 1..NPages BY PageAssumption
<1>1. ASSUME NEW n \in Sizes, default_alloc_pages(n) PROVE Pool!LooseNext
  <2>1. \/ result' = <<n, NULL>> /\ used' = used
        \/ \E base \in Pages : /\ Run(base, n) \subseteq Pages \ used
                               /\ used' = used \cup Run(base, n) /\ result' = <<n, base>>
    BY <1>1, CoverAlloc
  <2>2. \A base \in Pages : Run(base, n) \subseteq Pages \ used => base \in Pool!FreeRuns(n)
    BY PoolPages DEF Pool!FreeRuns, Pool!Run, Run
  <2>3. Pool!Fit(n) BY <2>1, <2>2 DEF Pool!Fit, Pool!Run, Run
  <2> QED BY <1>0, <2>3 DEF Pool!LooseNext
<1>2. ASSUME NEW n \in Sizes, NEW base \in Pages, default_free_pages(base, n) PROVE Pool!LooseNext
  <2>1. Pool!Free(base, n) BY <1>2, CoverFree DEF Pool!Free, Pool!Run, Run
  <2> QED BY <1>0, <2>1, PoolPages DEF Pool!LooseNext
<1>3. CASE UNCHANGED pagesVars BY <1>3 DEF pagesVars, Pool!vars
<1> QED BY <1>1, <1>2, <1>3 DEF PagesNext

\* What the pool promises of one step.
PoolStep == \/ linkage' = "merged" /\ Pool!Next
            \/ linkage' = "loose" /\ Pool!LooseNext
            \/ linkage' = "misled"

(* Until a block is freed behind all others, a request gets the lowest run  *)
(* of free pages that is large enough, and none only if there is none; then *)
(* some run of free pages or none, until the link of such a block to itself *)
(* is followed (default_alloc_pages).                                       *)
THEOREM PagesRefinement == PagesSpec => ImplementsFirstFit
<1>1. PagesInit => Pool!Init BY DEF PagesInit, Pool!Init
<1>2. ASSUME PagesIInv, PagesIInv', [PagesNext]_pagesVars PROVE [PoolStep]_(Pool!vars)
  <2>1. used \subseteq Pages /\ linkage' \in {"merged", "loose", "misled"}
    BY <1>2 DEF PagesIInv, BoundsIInv, PagesTypeOK
  <2>2. /\ linkage' = "merged" => linkage = "merged"
        /\ linkage' # "misled" => linkage # "misled"
    BY <1>2, LinkageMoves DEF PagesNext, pagesVars
  <2>3. CASE linkage' = "merged"
    <3>1. [Pool!Next]_(Pool!vars) BY <1>2, <2>2, <2>3, PagesNextMaps DEF PagesIInv
    <3> QED BY <2>3, <3>1 DEF PoolStep
  <2>4. CASE linkage' = "loose"
    <3>1. CoverIInv BY <1>2, <2>2, <2>4 DEF PagesIInv
    <3>2. [Pool!LooseNext]_(Pool!vars) BY <1>2, <2>1, <2>4, <3>1, LooseMaps
    <3> QED BY <2>4, <3>2 DEF PoolStep
  <2>5. CASE linkage' = "misled" BY <2>5 DEF PoolStep
  <2> QED BY <2>1, <2>3, <2>4, <2>5
<1>3. [][PoolStep]_(Pool!vars) => [][\/ linkage' = "merged" /\ Pool!Next
                                     \/ linkage' = "loose" /\ Pool!LooseNext
                                     \/ linkage' = "misled"]_(Pool!vars)
  BY PTL DEF PoolStep
<1> QED BY <1>1, <1>2, <1>3, PagesInvariance, PTL DEF PagesSpec, ImplementsFirstFit

-----------------------------------------------------------------------------
(***************************************************************************)
(* What a process owns. *)
(***************************************************************************)

Base == {"proc", "kstack", "files"}
Space == {"mm", "pgdir", "vmas", "pages"}
Call == {"kargv", "fd"}

\* The labels of do_fork, with copy_mm; there the child is another process.
CopyLabel == {"mm_create", "setup_pgdir", "dup_mmap", "copy_range", "dup_next", "good_mm",
              "bad_dup_cleanup_mmap", "bad_pgdir_cleanup_mm"}
CopiedLabel == {"copy_files", "wakeup_proc", "bad_fork_cleanup_mm"}
ForkLabel == CopyLabel \cup CopiedLabel \cup
             {"alloc_proc", "setup_kstack", "bad_fork_cleanup_kstack", "bad_fork_cleanup_proc", "fork_out"}

SegmentLabel == {"headers", "segment", "text", "text_page", "text_read", "bss", "bss_next", "stack",
                 "bad_cleanup_mmap"}
LoadLabel == SegmentLabel \cup
             {"load_icode", "load_pgdir", "load_elf", "load_phdrs", "read_phdrs", "stack_pages", "uargv",
              "copy_args", "out", "bad_cleanup_user", "bad_elf_cleanup_pgdir", "bad_pgdir_cleanup_mm_",
              "bad_free_phdrs"}
ExecLabel == LoadLabel \cup {"open", "leave_mm", "close", "execve_exit", "executed"}
RestLabel == {"unused", "embryo", "init", "wait", "kernel", "user", "stranded", "do_exit", "zombie", "panic"}
Label == ForkLabel \cup ExecLabel \cup RestLabel

\* Where a process has a whole address space or none, as its mm says.
TiedLabel == CopiedLabel \cup RestLabel \cup
             {"open", "leave_mm", "uargv", "copy_args", "out", "bad_cleanup_user", "close", "execve_exit", "executed"}

Bounded(sure, x, maybe) == sure \subseteq x /\ x \subseteq sure \cup maybe

\* What is allocated at a label l, h, for the child of do_fork: surely and perhaps.
\* Files that an exit lost may be there from the start.
ForkTable(l, h) ==
    /\ l \in {"alloc_proc", "fork_out"} => Bounded({}, h, {"files"})
    /\ l \in {"setup_kstack", "bad_fork_cleanup_proc"} => Bounded({"proc"}, h, {"files"})
    /\ l \in {"mm_create", "bad_fork_cleanup_kstack"} => Bounded({"proc", "kstack"}, h, {"files"})
    /\ l = "setup_pgdir" => Bounded({"proc", "kstack", "mm"}, h, {"files"})
    /\ l = "bad_pgdir_cleanup_mm" => Bounded({"proc", "kstack", "mm"}, h, {"files", "vmas"})
    /\ l \in {"dup_mmap", "bad_dup_cleanup_mmap"} =>
          Bounded({"proc", "kstack", "mm", "pgdir"}, h, {"files", "vmas", "pages"})
    /\ l = "copy_range" => Bounded({"proc", "kstack", "mm", "pgdir", "vmas"}, h, {"files", "pages"})
    /\ l \in {"dup_next", "good_mm"} => Bounded({"proc", "kstack"} \cup Space, h, {"files"})
    /\ l \in {"copy_files", "bad_fork_cleanup_mm"} => Bounded({"proc", "kstack"}, h, {"files"} \cup Space)
    /\ l = "wakeup_proc" => Bounded(Base, h, Space)

\* The same for the caller of do_execve,
ExecTable(l, h) ==
    /\ l \in {"open", "execve_exit", "executed"} => Bounded(Base \cup {"kargv"}, h, Space)
    /\ l \in {"leave_mm", "close"} => Bounded(Base \cup Call, h, Space)
    /\ l = "load_icode" => Bounded(Base \cup Call, h, {})
    /\ l = "load_pgdir" => Bounded(Base \cup Call \cup {"mm"}, h, {})
    /\ l \in {"load_elf", "load_phdrs"} => Bounded(Base \cup Call \cup {"mm", "pgdir"}, h, {})
    /\ l \in {"read_phdrs", "bad_free_phdrs"} => Bounded(Base \cup Call \cup {"mm", "pgdir", "phdrs"}, h, {})
    /\ l \in {"headers", "segment", "stack", "bad_cleanup_mmap"} =>
          Bounded(Base \cup Call \cup {"mm", "pgdir", "phdrs"}, h, {"vmas", "pages"})
    /\ l \in {"text", "text_page", "text_read", "bss", "bss_next", "stack_pages"} =>
          Bounded(Base \cup Call \cup {"mm", "pgdir", "phdrs", "vmas"}, h, {"pages"})
    /\ l \in {"uargv", "bad_cleanup_user"} => Bounded(Base \cup Call \cup Space \cup {"phdrs"}, h, {"uargv"})
    /\ l = "copy_args" => Bounded(Base \cup Call \cup Space \cup {"phdrs", "uargv"}, h, {})
    /\ l = "bad_elf_cleanup_pgdir" => Bounded(Base \cup Call \cup {"mm", "pgdir"}, h, {"vmas", "phdrs"})
    /\ l = "bad_pgdir_cleanup_mm_" => Bounded(Base \cup Call \cup {"mm"}, h, {"vmas", "phdrs"})
    /\ l = "out" => Bounded(Base \cup Call, h, Space \cup {"phdrs", "uargv"})

\* and outside a call.
RestTable(l, h) ==
    /\ l \in {"init", "wait", "kernel", "stranded"} => Bounded(Base, h, {})
    /\ l = "user" => Bounded(Whole, h, {})
    /\ l = "do_exit" => Bounded(Base, h, Space)
    /\ l = "zombie" => Bounded({"proc", "kstack"}, h, {"files"})
    /\ l = "unused" => Bounded({}, h, {"files"})

\* The pointers r that are not NULL there.
PointerTable(l, r) ==
    /\ l = "user" => Bounded({"mm"}, r, {})
    /\ l \in {"open", "leave_mm", "close", "execve_exit", "executed", "do_exit"} \cup CopiedLabel => Bounded({}, r, {"mm"})
    /\ l \in SegmentLabel \cup {"read_phdrs", "bad_free_phdrs", "stack_pages"} => Bounded({"phdrs"}, r, {})
    /\ l \in {"uargv", "bad_cleanup_user"} => Bounded({"mm", "phdrs"}, r, {"uargv"})
    /\ l = "copy_args" => Bounded({"mm", "phdrs", "uargv"}, r, {})
    /\ l \in {"bad_elf_cleanup_pgdir", "bad_pgdir_cleanup_mm_"} => Bounded({}, r, {"phdrs"})
    /\ l \in (ForkLabel \ CopiedLabel) \cup {"init", "wait", "kernel", "stranded", "zombie", "unused"}
             \cup {"load_icode", "load_pgdir", "load_elf", "load_phdrs"} => Bounded({}, r, {})

\* A process has a whole address space or none, as its mm says; what phdrs and
\* uargv point to is there, phdrs apart, and nothing else is.
Pointers(l, h, r) ==
    /\ l \in TiedLabel => IF "mm" \in r THEN Space \subseteq h ELSE Space \cap h = {}
    /\ "phdrs" \in h => "phdrs" \in r
    /\ "uargv" \in h <=> "uargv" \in r

Fits(l, h, r) == \/ l = "panic"
                 \/ ForkTable(l, h) /\ ExecTable(l, h) /\ RestTable(l, h) /\ PointerTable(l, r) /\ Pointers(l, h, r)

\* Every process that is not being made has what its label says.
Fitting == \A p \in Proc : pc[p] # "embryo" => Fits(pc[p], held[child[p]], ptr[child[p]])

\* do_fork and nobody else works on another process, and no two on the same.
Makers == \A p \in Proc : /\ child[p] # p <=> pc[p] \in ForkLabel
                          /\ \A q \in Proc : child[p] # p /\ child[q] # q /\ child[p] = child[q] => p = q

\* init_main makes one kernel thread; a caller of do_fork is whole, and its
\* child gets an mm if it has one.
InitForks == \A p \in Proc :
    /\ pc[p] \in {"init", "wait"} => p = initproc
    /\ pc[initproc] \in ForkLabel \cup {"init", "wait", "panic"}
    /\ pc[p] \in ForkLabel =>
          /\ held[p] = (IF p = initproc THEN Base ELSE Whole)
          /\ ptr[p] = (IF p = initproc THEN {} ELSE {"mm"})
    /\ pc[p] \in CopyLabel => p # initproc
    /\ pc[p] \in CopiedLabel => ptr[child[p]] = ptr[p]

Labels == pc \in [Proc -> Label]

IInv == TypeOK /\ Labels /\ Makers /\ InitForks /\ Fitting /\ MisusedAtMost

-----------------------------------------------------------------------------
(* What a step of one process may do to keep the invariant. *)

Pointer == {"mm", "phdrs", "uargv"}

\* From one label to another, without entering or leaving do_fork.
Follows(l, t) ==
    /\ l \notin {"embryo", "init", "wait", "panic"}
    /\ t \in Label \ {"embryo", "init", "wait"}
    /\ l \in ForkLabel <=> t \in ForkLabel
    /\ t \in CopyLabel => l \in CopyLabel
    /\ t \in CopiedLabel => l \in CopiedLabel

\* Only p moves, and only what its child holds changes.
Moves(p) ==
    /\ child' = child
    /\ pc' \in [Proc -> Label]
    /\ held' \in [Proc -> SUBSET Object]
    /\ ptr' \in [Proc -> SUBSET Pointer]
    /\ ret' \in [Proc -> {0, -1}]
    /\ \A q \in Proc \ {p} : pc'[q] = pc[q]
    /\ \A q \in Proc \ {child[p]} : held'[q] = held[q] /\ ptr'[q] = ptr[q]

(* A step to a label whose row of the table is fulfilled keeps the          *)
(* invariant.                                                               *)
LEMMA MoveKeeps ==
  ASSUME IInv, NEW p \in Proc, Moves(p), misused' \subseteq {"phdrs"},
         pc[p] \notin {"embryo", "init", "wait", "panic"},
         pc'[p] \notin {"embryo", "init", "wait"},
         pc[p] \in ForkLabel <=> pc'[p] \in ForkLabel,
         pc'[p] \in CopyLabel => p # initproc,
         pc'[p] \in CopiedLabel => ptr'[child[p]] = ptr[p],
         Fits(pc'[p], held'[child[p]], ptr'[child[p]])
  PROVE  IInv'
<1> USE DEF IInv, Moves, Pointer
<1>1. p \notin {child[q] : q \in Proc \ {p}} BY DEF TypeOK
<1>2. \A q \in Proc \ {p} : child[q] # q => child[q] # child[p] BY <1>1 DEF TypeOK, Makers
<1>3. \A q \in Proc \ {p} : pc[q] \in ForkLabel => q # child[p]
  BY DEF TypeOK, Makers, ForkLabel, CopyLabel, CopiedLabel
<1>4. TypeOK' BY <1>1 DEF TypeOK, Object
<1>5. Makers' BY DEF Makers
<1>6. InitForks'
  <2> SUFFICES ASSUME NEW q \in Proc
               PROVE  /\ pc'[q] \in {"init", "wait"} => q = initproc
                      /\ pc'[initproc] \in ForkLabel \cup {"init", "wait", "panic"}
                      /\ pc'[q] \in ForkLabel =>
                            /\ held'[q] = (IF q = initproc THEN Base ELSE Whole)
                            /\ ptr'[q] = (IF q = initproc THEN {} ELSE {"mm"})
                      /\ pc'[q] \in CopyLabel => q # initproc
                      /\ pc'[q] \in CopiedLabel => ptr'[child[q]] = ptr'[q]
    BY DEF InitForks, Moves
  <2>1. pc'[q] \in {"init", "wait"} => q = initproc BY DEF InitForks
  <2>2. pc'[initproc] \in ForkLabel \cup {"init", "wait", "panic"} BY InitIsProc DEF InitForks
  <2>3. pc'[q] \in ForkLabel => q # child[p] BY <1>3 DEF Makers
  <2>4. pc'[q] \in ForkLabel =>
           /\ held'[q] = (IF q = initproc THEN Base ELSE Whole)
           /\ ptr'[q] = (IF q = initproc THEN {} ELSE {"mm"})
    BY <2>3 DEF InitForks
  <2>5. pc'[q] \in CopyLabel => q # initproc BY DEF InitForks
  <2>6. pc'[q] \in CopiedLabel => ptr'[child[q]] = ptr'[q]
    BY <2>3, <1>2 DEF InitForks, Makers, TypeOK, ForkLabel
  <2> QED BY <2>1, <2>2, <2>4, <2>5, <2>6
<1>7. Fitting'
  <2> SUFFICES ASSUME NEW q \in Proc, pc'[q] # "embryo"
               PROVE  Fits(pc'[q], held'[child[q]], ptr'[child[q]])
    BY DEF Fitting, Moves
  <2>1. CASE q = p BY <2>1
  <2>2. CASE q # p
    <3>1. pc[q] # "embryo" /\ pc'[q] = pc[q] BY <2>2
    <3>2. child[q] # child[p] BY <2>2, <3>1, <1>1, <1>2 DEF TypeOK
    <3>3. held'[child[q]] = held[child[q]] /\ ptr'[child[q]] = ptr[child[q]] BY <3>2 DEF TypeOK
    <3> QED BY <3>1, <3>3 DEF Fitting
  <2> QED BY <2>1, <2>2
<1> QED BY <1>4, <1>5, <1>6, <1>7 DEF Labels, MisusedAtMost

\* What the tables must say of an allocation, a release, exit_mmap or a branch
\* from label l.
TryFits(l, O, t, b) ==
    /\ Follows(l, t) /\ Follows(l, b) /\ O \subseteq Object
    /\ l \in CopiedLabel => O \cap {"phdrs", "uargv"} = {}
    /\ \A h \in SUBSET Object, r \in SUBSET Pointer :
          Fits(l, h, r) => Fits(t, h \cup O, r \cup (O \cap {"phdrs", "uargv"})) /\ Fits(b, h, r)

ReleaseFits(l, uses, O, t) ==
    /\ Follows(l, t) /\ t \notin CopiedLabel
    /\ \A h \in SUBSET Object, r \in SUBSET Pointer :
          Fits(l, h, r) => Fits(t, h \ O, r) /\ (uses \cup (O \ Lists)) \ h \subseteq {"phdrs"}

LeaveFits(l, others, t) ==
    /\ Follows(l, t) /\ t \notin CopiedLabel
    /\ \A h \in SUBSET Object, r \in SUBSET Pointer :
          Fits(l, h, r) =>
             IF "mm" \in r
             THEN /\ Fits(t, h \ ({"pages", "pgdir", "mm", "vmas"} \cup others), r \ {"mm"})
                  /\ (({"pages", "pgdir", "mm", "vmas"} \cup others) \ Lists) \ h \subseteq {"phdrs"}
             ELSE Fits(t, h, r \ {"mm"})

BranchFits(l, t) ==
    /\ Follows(l, t) /\ t \notin CopiedLabel
    /\ \A h \in SUBSET Object, r \in SUBSET Pointer : Fits(l, h, r) => Fits(t, h, r)

\* Whose objects a step at label l works on.
LEMMA Working ==
  ASSUME IInv, NEW p \in Proc, pc[p] # "embryo", NEW q, q = child[p] \/ (pc[p] \notin ForkLabel /\ q = p)
  PROVE  q = child[p] /\ Fits(pc[p], held[q], ptr[q]) /\ q \in Proc
BY DEF IInv, Makers, Fitting, TypeOK

(* So does an allocation that succeeds or fails, *)
LEMMA TryKeeps ==
  ASSUME IInv, NEW p \in Proc, NEW q, NEW l, NEW O, NEW t, NEW b, NEW g \in {0, -1}, NEW e \in {0, -1},
         TryRet(p, q, l, O, t, b, g, e), q = child[p] \/ (l \notin ForkLabel /\ q = p), TryFits(l, O, t, b)
  PROVE  IInv'
<1> USE DEF TryRet, At, Goto, Returns
<1>1. pc[p] = l /\ Follows(l, t) /\ Follows(l, b) /\ misused' = misused BY DEF TryFits
<1>2. q = child[p] /\ Fits(l, held[q], ptr[q]) /\ q \in Proc BY <1>1, Working DEF Follows
<1>3. held[q] \in SUBSET Object /\ ptr[q] \in SUBSET Pointer BY <1>2 DEF IInv, TypeOK, Pointer
<1>4. Moves(p)
  <2>1. O \subseteq Object /\ t \in Label /\ b \in Label BY <1>1 DEF TryFits, Follows
  <2>2. /\ pc' \in [Proc -> Label] /\ ret' \in [Proc -> {0, -1}] /\ child' = child
        /\ \A x \in Proc \ {p} : pc'[x] = pc[x]
    BY <2>1 DEF IInv, TypeOK, Labels
  <2>3. held' \in [Proc -> SUBSET Object] /\ \A x \in Proc \ {q} : held'[x] = held[x]
    BY <1>2, <1>3, <2>1 DEF IInv, TypeOK
  <2>4. ptr' \in [Proc -> SUBSET Pointer] /\ \A x \in Proc \ {q} : ptr'[x] = ptr[x]
    BY <1>2, <1>3 DEF IInv, TypeOK, Pointer
  <2> QED BY <1>2, <2>2, <2>3, <2>4 DEF Moves
<1>5. \/ pc'[p] = t /\ held'[q] = held[q] \cup O /\ ptr'[q] = ptr[q] \cup (O \cap {"phdrs", "uargv"})
      \/ pc'[p] = b /\ held'[q] = held[q] /\ ptr'[q] = ptr[q]
  BY <1>2 DEF IInv, TypeOK, Labels
<1>6. Fits(pc'[p], held'[q], ptr'[q])
  <2>1. Fits(t, held[q] \cup O, ptr[q] \cup (O \cap {"phdrs", "uargv"})) /\ Fits(b, held[q], ptr[q])
    BY <1>2, <1>3, Zenon DEF TryFits
  <2> QED BY <1>5, <2>1
<1>7. pc'[p] \in CopiedLabel => ptr'[q] = ptr[p]
  <2> SUFFICES ASSUME pc'[p] \in CopiedLabel PROVE ptr'[q] = ptr[p]
    OBVIOUS
  <2>1. l \in CopiedLabel /\ O \cap {"phdrs", "uargv"} = {} BY <1>1, <1>5 DEF Follows, TryFits
  <2>2. ptr[q] = ptr[p] BY <1>1, <1>2, <2>1 DEF IInv, InitForks
  <2> QED BY <1>5, <2>1, <2>2
<1>8. pc'[p] \in CopyLabel => p # initproc BY <1>1, <1>5 DEF Follows, IInv, InitForks
<1>9. misused' \subseteq {"phdrs"} BY <1>1 DEF IInv, MisusedAtMost
<1> HIDE DEF TryRet
<1> QED BY <1>1, <1>2, <1>4, <1>5, <1>6, <1>7, <1>8, <1>9, MoveKeeps DEF Follows

(* a release, *)
LEMMA ReleaseKeeps ==
  ASSUME IInv, NEW p \in Proc, NEW q, NEW l, NEW uses, NEW O, NEW t,
         Release(p, q, l, uses, O, t), q = child[p] \/ (l \notin ForkLabel /\ q = p), ReleaseFits(l, uses, O, t)
  PROVE  IInv'
<1> USE DEF Release, Drop, At, Goto
<1>1. pc[p] = l /\ Follows(l, t) /\ ptr' = ptr BY DEF ReleaseFits
<1>2. q = child[p] /\ Fits(l, held[q], ptr[q]) /\ q \in Proc BY <1>1, Working DEF Follows
<1>3. held[q] \in SUBSET Object /\ ptr[q] \in SUBSET Pointer BY <1>2 DEF IInv, TypeOK, Pointer
<1>4. Moves(p) BY <1>1, <1>2, <1>3 DEF Moves, IInv, TypeOK, Labels, Follows, Pointer, Object
<1>5. pc'[p] = t /\ held'[q] = held[q] \ O BY <1>2 DEF IInv, TypeOK, Labels
<1>6. Fits(pc'[p], held'[q], ptr'[q]) /\ misused' \subseteq {"phdrs"} /\ pc'[p] \notin CopiedLabel
  BY <1>1, <1>2, <1>3, <1>5 DEF ReleaseFits, IInv, MisusedAtMost
<1>7. pc'[p] \in CopyLabel => p # initproc BY <1>1, <1>5 DEF Follows, IInv, InitForks
<1> QED BY <1>1, <1>2, <1>4, <1>5, <1>6, <1>7, MoveKeeps DEF Follows

(* putting an mm, *)
LEMMA LeaveKeeps ==
  ASSUME IInv, NEW p \in Proc, NEW q, NEW l, NEW others, NEW t,
         LeaveMm(p, q, l, others, t), q = child[p] \/ (l \notin ForkLabel /\ q = p), LeaveFits(l, others, t)
  PROVE  IInv'
<1> USE DEF LeaveMm, Drop, At, Goto
<1>1. pc[p] = l /\ Follows(l, t) BY DEF LeaveFits
<1>2. q = child[p] /\ Fits(l, held[q], ptr[q]) /\ q \in Proc BY <1>1, Working DEF Follows
<1>3. held[q] \in SUBSET Object /\ ptr[q] \in SUBSET Pointer BY <1>2 DEF IInv, TypeOK, Pointer
<1>4. Moves(p) BY <1>1, <1>2, <1>3 DEF Moves, IInv, TypeOK, Labels, Follows, Pointer, Object
<1>5. pc'[p] = t /\ ptr'[q] = ptr[q] \ {"mm"} BY <1>2 DEF IInv, TypeOK, Labels
<1>6. Fits(pc'[p], held'[q], ptr'[q]) /\ misused' \subseteq {"phdrs"}
  <2>1. CASE "mm" \in ptr[q]
    <3>1. held'[q] = held[q] \ ({"pages", "pgdir", "mm", "vmas"} \cup others)
      BY <2>1, <1>2 DEF IInv, TypeOK
    <3>2. /\ Fits(t, held[q] \ ({"pages", "pgdir", "mm", "vmas"} \cup others), ptr[q] \ {"mm"})
          /\ (({"pages", "pgdir", "mm", "vmas"} \cup others) \ Lists) \ held[q] \subseteq {"phdrs"}
      BY <2>1, <1>2, <1>3, Zenon DEF LeaveFits
    <3>3. misused' \subseteq {"phdrs"} BY <2>1, <3>2 DEF IInv, MisusedAtMost
    <3> QED BY <3>1, <3>2, <3>3, <1>5
  <2>2. CASE "mm" \notin ptr[q]
    <3>1. Fits(t, held[q], ptr[q] \ {"mm"}) BY <2>2, <1>2, <1>3, Zenon DEF LeaveFits
    <3> QED BY <2>2, <3>1, <1>5 DEF IInv, MisusedAtMost
  <2> QED BY <2>1, <2>2
<1>7. (pc'[p] \in CopyLabel => p # initproc) /\ pc'[p] \notin CopiedLabel
  BY <1>1, <1>5 DEF Follows, IInv, InitForks, LeaveFits
<1> QED BY <1>1, <1>2, <1>4, <1>5, <1>6, <1>7, MoveKeeps DEF Follows

(* and a step that allocates nothing. *)
LEMMA BranchKeeps ==
  ASSUME IInv, NEW p \in Proc, NEW l, NEW T, Branch(p, l, T), \A t \in T : BranchFits(l, t)
  PROVE  IInv'
<1>1. PICK t \in T : pc' = [pc EXCEPT ![p] = t] BY DEF Branch, Goto
<1>2. pc[p] = l /\ Follows(l, t) /\ UNCHANGED <<child, held, ptr, ret, misused>>
  BY <1>1 DEF Branch, At, BranchFits
<1>3. Fits(l, held[child[p]], ptr[child[p]]) /\ child[p] \in Proc BY <1>2, Working DEF Follows
<1>4. pc'[p] = t BY <1>1 DEF IInv, Labels
<1>5. Moves(p) BY <1>1, <1>2 DEF Moves, IInv, TypeOK, Labels, Follows, Pointer
<1>6. Fits(pc'[p], held'[child[p]], ptr'[child[p]]) /\ pc'[p] \notin CopiedLabel
  BY <1>2, <1>3, <1>4 DEF BranchFits, IInv, TypeOK, Pointer
<1>7. (pc'[p] \in CopyLabel => p # initproc) /\ misused' \subseteq {"phdrs"}
  BY <1>2, <1>4 DEF Follows, IInv, InitForks, MisusedAtMost
<1> QED BY <1>2, <1>4, <1>5, <1>6, <1>7, MoveKeeps DEF Follows

-----------------------------------------------------------------------------
(* The tables, handler by handler. *)

\* The allocations of do_fork and copy_mm.
LEMMA ForkTries ==
  /\ TryFits("alloc_proc", {"proc"}, "setup_kstack", "fork_out")
  /\ TryFits("mm_create", {"mm"}, "setup_pgdir", "bad_fork_cleanup_kstack")
  /\ TryFits("setup_pgdir", {"pgdir"}, "dup_mmap", "bad_pgdir_cleanup_mm")
  /\ TryFits("dup_mmap", {"vmas"}, "copy_range", "bad_dup_cleanup_mmap")
  /\ TryFits("copy_range", {"pages"}, "dup_next", "bad_dup_cleanup_mmap")
  /\ TryFits("copy_files", {"files"}, "wakeup_proc", "bad_fork_cleanup_mm")
<1> USE DEF TryFits, Follows, Fits, Bounded, ForkTable, ExecTable, RestTable, PointerTable, Pointers, Base, Space, Call,
   CopyLabel, CopiedLabel, ForkLabel, SegmentLabel, LoadLabel, ExecLabel, RestLabel, TiedLabel, Label,
   Whole, Object, Pointer, Lists
<1>1. TryFits("alloc_proc", {"proc"}, "setup_kstack", "fork_out") OBVIOUS
<1>2. TryFits("mm_create", {"mm"}, "setup_pgdir", "bad_fork_cleanup_kstack") OBVIOUS
<1>3. TryFits("setup_pgdir", {"pgdir"}, "dup_mmap", "bad_pgdir_cleanup_mm") OBVIOUS
<1>4. TryFits("dup_mmap", {"vmas"}, "copy_range", "bad_dup_cleanup_mmap") OBVIOUS
<1>5. TryFits("copy_range", {"pages"}, "dup_next", "bad_dup_cleanup_mmap") OBVIOUS
<1>6. TryFits("copy_files", {"files"}, "wakeup_proc", "bad_fork_cleanup_mm") OBVIOUS
<1> HIDE DEF TryFits
<1> QED BY <1>1, <1>2, <1>3, <1>4, <1>5, <1>6

\* Their clean-up labels.
LEMMA ForkReleases ==
  /\ BranchFits("dup_next", "dup_mmap") /\ BranchFits("dup_next", "good_mm")
  /\ ReleaseFits("bad_dup_cleanup_mmap", {"mm", "pgdir"}, {"pages", "pgdir"}, "bad_pgdir_cleanup_mm")
  /\ ReleaseFits("bad_pgdir_cleanup_mm", {}, {"mm", "vmas"}, "bad_fork_cleanup_kstack")
  /\ LeaveFits("bad_fork_cleanup_mm", {}, "bad_fork_cleanup_kstack")
  /\ ReleaseFits("bad_fork_cleanup_kstack", {"proc"}, {"kstack"}, "bad_fork_cleanup_proc")
  /\ ReleaseFits("bad_fork_cleanup_proc", {}, {"proc"}, "fork_out")
<1> USE DEF ReleaseFits, LeaveFits, BranchFits, Follows, Fits, Bounded, ForkTable, ExecTable, RestTable, PointerTable, Pointers, Base, Space, Call,
   CopyLabel, CopiedLabel, ForkLabel, SegmentLabel, LoadLabel, ExecLabel, RestLabel, TiedLabel, Label,
   Whole, Object, Pointer, Lists
<1>1. BranchFits("dup_next", "dup_mmap") /\ BranchFits("dup_next", "good_mm") OBVIOUS
<1>2. ReleaseFits("bad_dup_cleanup_mmap", {"mm", "pgdir"}, {"pages", "pgdir"}, "bad_pgdir_cleanup_mm")
  OBVIOUS
<1>3. ReleaseFits("bad_pgdir_cleanup_mm", {}, {"mm", "vmas"}, "bad_fork_cleanup_kstack") OBVIOUS
<1>4. LeaveFits("bad_fork_cleanup_mm", {}, "bad_fork_cleanup_kstack") OBVIOUS
<1>5. ReleaseFits("bad_fork_cleanup_kstack", {"proc"}, {"kstack"}, "bad_fork_cleanup_proc") OBVIOUS
<1>6. ReleaseFits("bad_fork_cleanup_proc", {}, {"proc"}, "fork_out") OBVIOUS
<1> HIDE DEF ReleaseFits, LeaveFits, BranchFits
<1> QED BY <1>1, <1>2, <1>3, <1>4, <1>5, <1>6

\* The allocations of load_icode,
LEMMA LoadTries ==
  /\ TryFits("load_icode", {"mm"}, "load_pgdir", "out")
  /\ TryFits("load_pgdir", {"pgdir"}, "load_elf", "bad_pgdir_cleanup_mm_")
  /\ TryFits("load_elf", {}, "load_phdrs", "bad_elf_cleanup_pgdir")
  /\ TryFits("load_phdrs", {"phdrs"}, "read_phdrs", "bad_elf_cleanup_pgdir")
  /\ TryFits("read_phdrs", {}, "headers", "bad_free_phdrs")
  /\ TryFits("uargv", {"uargv"}, "copy_args", "bad_cleanup_user")
  /\ TryFits("copy_args", {}, "out", "bad_cleanup_user")
<1> USE DEF TryFits, Follows, Fits, Bounded, ForkTable, ExecTable, RestTable, PointerTable, Pointers, Base, Space, Call,
   CopyLabel, CopiedLabel, ForkLabel, SegmentLabel, LoadLabel, ExecLabel, RestLabel, TiedLabel, Label,
   Whole, Object, Pointer, Lists
<1>1. TryFits("load_icode", {"mm"}, "load_pgdir", "out") OBVIOUS
<1>2. TryFits("load_pgdir", {"pgdir"}, "load_elf", "bad_pgdir_cleanup_mm_") OBVIOUS
<1>3. TryFits("load_elf", {}, "load_phdrs", "bad_elf_cleanup_pgdir") OBVIOUS
<1>4. TryFits("load_phdrs", {"phdrs"}, "read_phdrs", "bad_elf_cleanup_pgdir") OBVIOUS
<1>5. TryFits("read_phdrs", {}, "headers", "bad_free_phdrs") OBVIOUS
<1>6. TryFits("uargv", {"uargv"}, "copy_args", "bad_cleanup_user") OBVIOUS
<1>7. TryFits("copy_args", {}, "out", "bad_cleanup_user") OBVIOUS
<1> HIDE DEF TryFits
<1> QED BY <1>1, <1>2, <1>3, <1>4, <1>5, <1>6, <1>7

\* of its loop over the segments and of the stack,
LEMMA SegmentSteps ==
  /\ BranchFits("headers", "segment") /\ BranchFits("headers", "stack")
  /\ TryFits("segment", {"vmas"}, "text", "bad_cleanup_mmap")
  /\ BranchFits("text", "text_page") /\ BranchFits("text", "bss") /\ BranchFits("text", "headers")
  /\ TryFits("text_page", {"pages"}, "text_read", "bad_cleanup_mmap")
  /\ TryFits("text_read", {}, "text", "bad_cleanup_mmap")
  /\ TryFits("bss", {"pages"}, "bss_next", "bad_cleanup_mmap")
  /\ BranchFits("bss_next", "bss") /\ BranchFits("bss_next", "headers")
  /\ TryFits("stack", {"vmas"}, "stack_pages", "bad_cleanup_mmap")
  /\ BranchFits("stack_pages", "panic")
<1> USE DEF TryFits, BranchFits, Follows, Fits, Bounded, ForkTable, ExecTable, RestTable, PointerTable, Pointers, Base, Space, Call,
   CopyLabel, CopiedLabel, ForkLabel, SegmentLabel, LoadLabel, ExecLabel, RestLabel, TiedLabel, Label,
   Whole, Object, Pointer, Lists
<1>1. BranchFits("headers", "segment") /\ BranchFits("headers", "stack") OBVIOUS
<1>2. TryFits("segment", {"vmas"}, "text", "bad_cleanup_mmap") OBVIOUS
<1>3. BranchFits("text", "text_page") /\ BranchFits("text", "bss") /\ BranchFits("text", "headers")
  OBVIOUS
<1>4. TryFits("text_page", {"pages"}, "text_read", "bad_cleanup_mmap") OBVIOUS
<1>5. TryFits("text_read", {}, "text", "bad_cleanup_mmap") OBVIOUS
<1>6. TryFits("bss", {"pages"}, "bss_next", "bad_cleanup_mmap") OBVIOUS
<1>7. BranchFits("bss_next", "bss") /\ BranchFits("bss_next", "headers") OBVIOUS
<1>8. TryFits("stack", {"vmas"}, "stack_pages", "bad_cleanup_mmap") OBVIOUS
<1>9. BranchFits("stack_pages", "panic") OBVIOUS
<1> HIDE DEF TryFits, BranchFits
<1> QED BY <1>1, <1>2, <1>3, <1>4, <1>5, <1>6, <1>7, <1>8, <1>9

\* and its clean-up labels.
LEMMA LoadReleases ==
  /\ LeaveFits("bad_cleanup_user", {}, "out")
  /\ ReleaseFits("bad_cleanup_mmap", {"mm", "pgdir"}, {"pages"}, "bad_elf_cleanup_pgdir")
  /\ ReleaseFits("bad_elf_cleanup_pgdir", {"mm"}, {"pgdir"}, "bad_pgdir_cleanup_mm_")
  /\ ReleaseFits("bad_pgdir_cleanup_mm_", {}, {"mm", "vmas"}, "out")
  /\ ReleaseFits("bad_free_phdrs", {}, {"phdrs"}, "bad_elf_cleanup_pgdir")
<1> USE DEF ReleaseFits, LeaveFits, Follows, Fits, Bounded, ForkTable, ExecTable, RestTable, PointerTable, Pointers, Base, Space, Call,
   CopyLabel, CopiedLabel, ForkLabel, SegmentLabel, LoadLabel, ExecLabel, RestLabel, TiedLabel, Label,
   Whole, Object, Pointer, Lists
<1>1. LeaveFits("bad_cleanup_user", {}, "out") OBVIOUS
<1>2. ReleaseFits("bad_cleanup_mmap", {"mm", "pgdir"}, {"pages"}, "bad_elf_cleanup_pgdir") OBVIOUS
<1>3. ReleaseFits("bad_elf_cleanup_pgdir", {"mm"}, {"pgdir"}, "bad_pgdir_cleanup_mm_") OBVIOUS
<1>4. ReleaseFits("bad_pgdir_cleanup_mm_", {}, {"mm", "vmas"}, "out") OBVIOUS
<1>5. ReleaseFits("bad_free_phdrs", {}, {"phdrs"}, "bad_elf_cleanup_pgdir") OBVIOUS
<1> HIDE DEF ReleaseFits, LeaveFits
<1> QED BY <1>1, <1>2, <1>3, <1>4, <1>5

\* do_execve around load_icode, and do_exit.
LEMMA ExecveSteps ==
  /\ TryFits("user", {"kargv"}, "open", "user")
  /\ TryFits("kernel", {"kargv"}, "open", "kernel")
  /\ TryFits("open", {"fd"}, "leave_mm", "execve_exit")
  /\ LeaveFits("leave_mm", {}, "load_icode")
  /\ ReleaseFits("close", {}, {"fd"}, "executed") /\ ReleaseFits("close", {}, {"fd"}, "execve_exit")
  /\ ReleaseFits("execve_exit", {}, {"kargv"}, "do_exit")
  /\ BranchFits("user", "do_exit") /\ BranchFits("stranded", "do_exit")
  /\ LeaveFits("do_exit", {"files"}, "zombie")
<1> USE DEF TryFits, ReleaseFits, LeaveFits, BranchFits, Follows, Fits, Bounded, ForkTable, ExecTable, RestTable, PointerTable, Pointers, Base, Space, Call,
   CopyLabel, CopiedLabel, ForkLabel, SegmentLabel, LoadLabel, ExecLabel, RestLabel, TiedLabel, Label,
   Whole, Object, Pointer, Lists
<1>1. TryFits("user", {"kargv"}, "open", "user") OBVIOUS
<1>2. TryFits("kernel", {"kargv"}, "open", "kernel") OBVIOUS
<1>3. TryFits("open", {"fd"}, "leave_mm", "execve_exit") OBVIOUS
<1>4. LeaveFits("leave_mm", {}, "load_icode") OBVIOUS
<1>5. ReleaseFits("close", {}, {"fd"}, "executed") /\ ReleaseFits("close", {}, {"fd"}, "execve_exit")
  OBVIOUS
<1>6. ReleaseFits("execve_exit", {}, {"kargv"}, "do_exit") OBVIOUS
<1>7. BranchFits("user", "do_exit") /\ BranchFits("stranded", "do_exit") OBVIOUS
<1>8. LeaveFits("do_exit", {"files"}, "zombie") OBVIOUS
<1> HIDE DEF TryFits, ReleaseFits, LeaveFits, BranchFits
<1> QED BY <1>1, <1>2, <1>3, <1>4, <1>5, <1>6, <1>7, <1>8

-----------------------------------------------------------------------------
(* do_fork. *)

\* The mm of the child is entered when it is complete, and only for a child
\* whose parent has one.
LEMMA CopyMmKeeps ==
  ASSUME IInv, NEW p \in Proc, copy_mm(p)
  PROVE  IInv'
<1> DEFINE c == child[p]
<1>1. CASE Try(p, c, "mm_create", {"mm"}, "setup_pgdir", "bad_fork_cleanup_kstack")
  BY <1>1, ForkTries, TryKeeps DEF Try
<1>2. CASE Try(p, c, "setup_pgdir", {"pgdir"}, "dup_mmap", "bad_pgdir_cleanup_mm")
  BY <1>2, ForkTries, TryKeeps DEF Try
<1>3. CASE Try(p, c, "dup_mmap", {"vmas"}, "copy_range", "bad_dup_cleanup_mmap")
  BY <1>3, ForkTries, TryKeeps DEF Try
<1>4. CASE Try(p, c, "copy_range", {"pages"}, "dup_next", "bad_dup_cleanup_mmap")
  BY <1>4, ForkTries, TryKeeps DEF Try
<1>5. CASE Branch(p, "dup_next", {"dup_mmap", "good_mm"}) BY <1>5, ForkReleases, BranchKeeps
<1>6. CASE /\ At(p, "good_mm")
           /\ ptr' = [ptr EXCEPT ![c] = {"mm"}]
           /\ Goto(p, "copy_files") /\ UNCHANGED <<child, held, ret, misused>>
  <2>1. pc[p] = "good_mm" /\ c \in Proc /\ Fits("good_mm", held[c], ptr[c])
    BY <1>6 DEF At, IInv, TypeOK, Fitting
  <2>2. p # initproc /\ ptr[p] = {"mm"} BY <2>1 DEF IInv, InitForks, CopyLabel, ForkLabel
  <2>3. Fits("copy_files", held[c], {"mm"})
    BY <2>1 DEF Fits, Bounded, ForkTable, ExecTable, RestTable, PointerTable, Pointers, Base, Space, Call,
                CopyLabel, CopiedLabel, ForkLabel, SegmentLabel, LoadLabel, ExecLabel, RestLabel, TiedLabel
  <2>4. pc'[p] = "copy_files" /\ ptr'[c] = {"mm"} /\ held' = held /\ misused' \subseteq {"phdrs"}
    BY <1>6, <2>1 DEF Goto, IInv, TypeOK, Labels, MisusedAtMost
  <2>5. Moves(p)
    BY <1>6, <2>1 DEF Goto, Moves, IInv, TypeOK, Labels, Label, ForkLabel, CopiedLabel, Pointer
  <2>6. "good_mm" \in ForkLabel /\ "copy_files" \in ForkLabel /\ "copy_files" \notin CopyLabel
    BY DEF ForkLabel, CopyLabel, CopiedLabel
  <2> QED BY <2>1, <2>2, <2>3, <2>4, <2>5, <2>6, MoveKeeps
<1>7. CASE Release(p, c, "bad_dup_cleanup_mmap", {"mm", "pgdir"}, {"pages", "pgdir"}, "bad_pgdir_cleanup_mm")
  BY <1>7, ForkReleases, ReleaseKeeps
<1>8. CASE Release(p, c, "bad_pgdir_cleanup_mm", {}, {"mm", "vmas"}, "bad_fork_cleanup_kstack")
  BY <1>8, ForkReleases, ReleaseKeeps
<1> QED BY <1>1, <1>2, <1>3, <1>4, <1>5, <1>6, <1>7, <1>8 DEF copy_mm

\* A caller and an unused process become a maker and what it makes.
LEMMA ForkBegins ==
  ASSUME IInv, NEW p \in Proc, pc[p] \in {"user", "init"}, NEW q \in Proc, pc[q] = "unused",
         child' = [child EXCEPT ![p] = q], pc' = [pc EXCEPT ![p] = "alloc_proc", ![q] = "embryo"],
         UNCHANGED <<held, ptr, ret, misused>>
  PROVE  IInv'
<1> USE DEF IInv
<1>1. /\ p # q /\ child[p] = p /\ child[q] = q
      /\ pc'[p] = "alloc_proc" /\ pc'[q] = "embryo" /\ \A x \in Proc \ {p, q} : pc'[x] = pc[x]
      /\ child'[p] = q /\ \A x \in Proc \ {p} : child'[x] = child[x]
  BY DEF TypeOK, Labels, Makers, ForkLabel, CopyLabel, CopiedLabel
<1>2. \A x \in Proc \ {q} : child[x] # q BY DEF TypeOK
<1>3. TypeOK' /\ Labels' BY <1>1, <1>2 DEF TypeOK, Labels, Label, ForkLabel, RestLabel
<1>4. Makers'
  <2>1. "alloc_proc" \in ForkLabel /\ "embryo" \notin ForkLabel
    BY DEF ForkLabel, CopyLabel, CopiedLabel
  <2>2. \A x \in Proc : child'[x] # x <=> pc'[x] \in ForkLabel BY <1>1, <2>1 DEF Makers
  <2>3. \A x, y \in Proc : child'[x] # x /\ child'[y] # y /\ child'[x] = child'[y] => x = y
    BY <1>1, <1>2 DEF Makers
  <2> QED BY <2>2, <2>3 DEF Makers
<1>5. IF p = initproc THEN held[p] = Base /\ ptr[p] = {} ELSE held[p] = Whole /\ ptr[p] = {"mm"}
  <2>1. Fits(pc[p], held[p], ptr[p]) BY <1>1 DEF Fitting
  <2>2. pc[p] = (IF p = initproc THEN "init" ELSE "user")
    BY InitIsProc DEF InitForks, ForkLabel, CopyLabel, CopiedLabel
  <2>3. held[p] \subseteq Object /\ ptr[p] \subseteq Pointer BY DEF TypeOK, Pointer
  <2>4. CASE p = initproc
    <3>1. Bounded(Base, held[p], {}) /\ Bounded({}, ptr[p], {})
      BY <2>1, <2>2, <2>4 DEF Fits, RestTable, PointerTable
    <3>2. held[p] = Base BY <3>1 DEF Bounded
    <3>3. ptr[p] = {} BY <3>1 DEF Bounded
    <3> QED BY <3>2, <3>3, <2>4
  <2>5. CASE p # initproc
    <3>1. Bounded(Whole, held[p], {}) /\ Bounded({"mm"}, ptr[p], {})
      BY <2>1, <2>2, <2>5 DEF Fits, RestTable, PointerTable
    <3>2. held[p] = Whole BY <3>1 DEF Bounded
    <3>3. ptr[p] = {"mm"} BY <3>1 DEF Bounded
    <3> QED BY <3>2, <3>3, <2>5
  <2> QED BY <2>4, <2>5
<1>6. InitForks'
  <2>1. initproc # q /\ initproc \in Proc
    BY InitIsProc DEF InitForks, ForkLabel, CopyLabel, CopiedLabel
  <2>2. "alloc_proc" \in ForkLabel \ (CopyLabel \cup CopiedLabel) /\ "embryo" \notin ForkLabel
    BY DEF ForkLabel, CopyLabel, CopiedLabel
  <2>3. CopyLabel \subseteq ForkLabel /\ CopiedLabel \subseteq ForkLabel BY DEF ForkLabel
  <2> SUFFICES ASSUME NEW x \in Proc
               PROVE  /\ pc'[x] \in {"init", "wait"} => x = initproc
                      /\ pc'[initproc] \in ForkLabel \cup {"init", "wait", "panic"}
                      /\ pc'[x] \in ForkLabel =>
                            /\ held[x] = (IF x = initproc THEN Base ELSE Whole)
                            /\ ptr[x] = (IF x = initproc THEN {} ELSE {"mm"})
                      /\ pc'[x] \in CopyLabel => x # initproc
                      /\ pc'[x] \in CopiedLabel => ptr[child'[x]] = ptr[x]
    BY DEF InitForks
  <2>4. CASE x = p
    <3>1. /\ pc'[p] \in {"init", "wait"} => p = initproc
          /\ pc'[initproc] \in ForkLabel \cup {"init", "wait", "panic"}
      BY <1>1, <1>5, <2>1, <2>2 DEF InitForks
    <3>2. pc'[p] \in ForkLabel =>
             /\ held[p] = (IF p = initproc THEN Base ELSE Whole)
             /\ ptr[p] = (IF p = initproc THEN {} ELSE {"mm"})
      BY <1>1, <1>5, <2>1, <2>2 DEF InitForks
    <3>3. pc'[p] \in CopyLabel => p # initproc BY <1>1, <1>5, <2>1, <2>2 DEF InitForks
    <3>4. pc'[p] \in CopiedLabel => ptr[child'[p]] = ptr[p] BY <1>1, <1>5, <2>1, <2>2 DEF InitForks
    <3> QED BY <2>4, <3>1, <3>2, <3>3, <3>4
  <2>5. CASE x = q BY <2>5, <1>1, <2>1, <2>2, <2>3 DEF InitForks
  <2>6. CASE x \in Proc \ {p, q} BY <2>6, <1>1, <2>1, <2>2 DEF InitForks
  <2> QED BY <2>4, <2>5, <2>6
<1>7. Fitting'
  <2>1. Fits("alloc_proc", held[q], ptr[q])
    <3>1. Fits("unused", held[q], ptr[q]) BY <1>1 DEF Fitting
    <3> QED BY <3>1 DEF Fits, Bounded, ForkTable, ExecTable, RestTable, PointerTable, Pointers, Base, Space, Call,
                        CopyLabel, CopiedLabel, ForkLabel, SegmentLabel, LoadLabel, ExecLabel, RestLabel, TiedLabel
  <2> QED BY <1>1, <2>1 DEF Fitting
<1> QED BY <1>3, <1>4, <1>6, <1>7 DEF MisusedAtMost

\* The maker and what it made part.
LEMMA ForkEnds ==
  ASSUME IInv, NEW p \in Proc, pc[p] \in ForkLabel, NEW t, NEW u,
         pc' = [pc EXCEPT ![p] = t, ![child[p]] = u], child' = [child EXCEPT ![p] = p],
         held' = held, ptr' = ptr, misused' = misused, ret' \in [Proc -> {0, -1}],
         t \in Label \ (ForkLabel \cup {"embryo", "init"}), u \in Label \ (ForkLabel \cup {"embryo", "init", "wait"}),
         IF p = initproc THEN t \in {"wait", "panic"} ELSE t # "wait",
         Fits(t, held[p], ptr[p]), Fits(u, held[child[p]], ptr[child[p]])
  PROVE  IInv'
<1> USE DEF IInv
<1> DEFINE c == child[p]
<1>1. /\ p # c /\ c \in Proc /\ pc[c] = "embryo" /\ child[c] = c
      /\ pc'[p] = t /\ pc'[c] = u /\ \A x \in Proc \ {p, c} : pc'[x] = pc[x]
      /\ child'[p] = p /\ \A x \in Proc \ {p} : child'[x] = child[x]
  BY DEF TypeOK, Labels, Makers, ForkLabel, CopyLabel, CopiedLabel
<1>2. \A x \in Proc \ {p, c} : child[x] # c /\ child[x] # p
  BY <1>1 DEF TypeOK, Makers, ForkLabel, CopyLabel, CopiedLabel
<1>3. TypeOK' /\ Labels' BY <1>1, <1>2 DEF TypeOK, Labels
<1>4. Makers'
  <2>1. "embryo" \notin ForkLabel BY DEF ForkLabel, CopyLabel, CopiedLabel
  <2>2. \A x \in Proc : child'[x] # x <=> pc'[x] \in ForkLabel
    <3>1. \A x \in {p, c} : child'[x] = x /\ pc'[x] \notin ForkLabel BY <1>1
    <3>2. \A x \in Proc \ {p, c} : child'[x] # x <=> pc'[x] \in ForkLabel BY <1>1 DEF Makers
    <3> QED BY <3>1, <3>2
  <2>3. \A x, y \in Proc : child'[x] # x /\ child'[y] # y /\ child'[x] = child'[y] => x = y
    BY <1>1, <1>2 DEF Makers
  <2> QED BY <2>2, <2>3 DEF Makers
<1>5. InitForks'
  <2>1. initproc # c /\ initproc \in Proc
    BY <1>1, InitIsProc DEF InitForks, ForkLabel, CopyLabel, CopiedLabel
  <2>2. CopyLabel \subseteq ForkLabel /\ CopiedLabel \subseteq ForkLabel BY DEF ForkLabel
  <2> SUFFICES ASSUME NEW x \in Proc
               PROVE  /\ pc'[x] \in {"init", "wait"} => x = initproc
                      /\ pc'[initproc] \in ForkLabel \cup {"init", "wait", "panic"}
                      /\ pc'[x] \in ForkLabel =>
                            /\ held[x] = (IF x = initproc THEN Base ELSE Whole)
                            /\ ptr[x] = (IF x = initproc THEN {} ELSE {"mm"})
                      /\ pc'[x] \in CopyLabel => x # initproc
                      /\ pc'[x] \in CopiedLabel => ptr[child'[x]] = ptr[x]
    BY DEF InitForks
  <2>3. pc'[initproc] \in ForkLabel \cup {"init", "wait", "panic"}
    <3>1. initproc # p => pc'[initproc] = pc[initproc] BY <1>1, <2>1
    <3>2. initproc = p => pc'[initproc] \in {"wait", "panic"} BY <1>1
    <3> QED BY <3>1, <3>2, <2>1 DEF InitForks
  <2>4. CASE x = p
    <3>1. pc'[x] \notin ForkLabel \cup {"init"} /\ (pc'[x] = "wait" => x = initproc) BY <2>4, <1>1
    <3> QED BY <3>1, <2>2, <2>3
  <2>5. CASE x = c
    <3>1. pc'[x] \notin ForkLabel \cup {"init", "wait"} BY <2>5, <1>1
    <3> QED BY <3>1, <2>2, <2>3
  <2>6. CASE x \in Proc \ {p, c}
    <3>1. pc'[x] = pc[x] /\ child'[x] = child[x] BY <2>6, <1>1
    <3> QED BY <3>1, <2>3 DEF InitForks
  <2> QED BY <2>4, <2>5, <2>6
<1>6. Fitting'
  <2> SUFFICES ASSUME NEW x \in Proc, pc'[x] # "embryo"
               PROVE  Fits(pc'[x], held[child'[x]], ptr[child'[x]])
    BY DEF Fitting
  <2>1. CASE x \in {p, c} BY <2>1, <1>1
  <2>2. CASE x \in Proc \ {p, c} BY <2>2, <1>1 DEF Fitting
  <2> QED BY <2>1, <2>2
<1> QED BY <1>3, <1>4, <1>5, <1>6 DEF MisusedAtMost

(* do_fork keeps the invariant from its call on, *)
LEMMA DoForkKeeps ==
  ASSUME IInv, NEW p \in Proc, do_fork(p)
  PROVE  IInv'
<1> DEFINE c == child[p]
<1>1. CASE /\ pc[p] \in {"user", "init"}
           /\ \E q \in Proc : /\ pc[q] = "unused"
                              /\ child' = [child EXCEPT ![p] = q]
                              /\ pc' = [pc EXCEPT ![p] = "alloc_proc", ![q] = "embryo"]
           /\ UNCHANGED <<held, ptr, ret, misused>>
  BY <1>1, ForkBegins
<1>2. CASE Try(p, c, "alloc_proc", {"proc"}, "setup_kstack", "fork_out")
  BY <1>2, ForkTries, TryKeeps DEF Try
<1>3. CASE Try(p, c, "setup_kstack", {"kstack"}, IF "mm" \in ptr[p] THEN "mm_create" ELSE "copy_files",
               "bad_fork_cleanup_proc")
  <2> DEFINE t == IF "mm" \in ptr[p] THEN "mm_create" ELSE "copy_files"
  <2>1. /\ pc[p] = "setup_kstack" /\ c \in Proc /\ Fits("setup_kstack", held[c], ptr[c])
        /\ held[c] \in SUBSET Object /\ ptr[c] \in SUBSET Pointer
    BY <1>3 DEF Try, TryRet, At, IInv, TypeOK, Fitting, Pointer
  <2>2. ptr[p] = IF p = initproc THEN {} ELSE {"mm"} BY <2>1 DEF IInv, InitForks, ForkLabel
  <2>3. Fits(t, held[c] \cup {"kstack"}, ptr[c]) /\ Fits("bad_fork_cleanup_proc", held[c], ptr[c]) /\ ptr[c] = {}
    BY <2>1 DEF Fits, Bounded, ForkTable, ExecTable, RestTable, PointerTable, Pointers, Base, Space, Call,
                CopyLabel, CopiedLabel, ForkLabel, SegmentLabel, LoadLabel, ExecLabel, RestLabel, TiedLabel
  <2>4. /\ ptr' = ptr /\ child' = child /\ misused' \subseteq {"phdrs"} /\ ret' \in [Proc -> {0, -1}]
        /\ \/ held' = [held EXCEPT ![c] = @ \cup {"kstack"}] /\ pc' = [pc EXCEPT ![p] = t]
           \/ held' = held /\ pc' = [pc EXCEPT ![p] = "bad_fork_cleanup_proc"]
    <3>1. ptr' = [ptr EXCEPT ![c] = @ \cup ({"kstack"} \cap {"phdrs", "uargv"})] => ptr' = ptr
      BY <2>1 DEF IInv, TypeOK
    <3> QED BY <1>3, <3>1 DEF Try, TryRet, Goto, Returns, IInv, TypeOK, MisusedAtMost
  <2>5. {t, "bad_fork_cleanup_proc", "setup_kstack"} \subseteq ForkLabel /\ ForkLabel \subseteq Label
    BY DEF ForkLabel, CopyLabel, CopiedLabel, Label
  <2>6. Moves(p)
    <3>1. pc' \in [Proc -> Label] /\ \A q \in Proc \ {p} : pc'[q] = pc[q]
      BY <2>4, <2>5 DEF IInv, Labels
    <3>2. held' \in [Proc -> SUBSET Object] /\ \A q \in Proc \ {c} : held'[q] = held[q]
      BY <2>1, <2>4 DEF IInv, TypeOK, Object
    <3> QED BY <2>4, <3>1, <3>2 DEF Moves, IInv, TypeOK, Pointer
  <2>7. \/ pc'[p] = t /\ held'[c] = held[c] \cup {"kstack"}
        \/ pc'[p] = "bad_fork_cleanup_proc" /\ held'[c] = held[c]
    BY <2>1, <2>4 DEF IInv, TypeOK, Labels
  <2>8. Fits(pc'[p], held'[c], ptr'[c]) BY <2>3, <2>4, <2>7
  <2>9. (pc'[p] \in CopyLabel => p # initproc) /\ (pc'[p] \in CopiedLabel => ptr'[c] = ptr[p])
    <3>1. "bad_fork_cleanup_proc" \notin CopyLabel \cup CopiedLabel /\ "copy_files" \notin CopyLabel
          /\ "mm_create" \notin CopiedLabel
      BY DEF CopyLabel, CopiedLabel
    <3> QED BY <2>2, <2>3, <2>4, <2>7, <3>1
  <2>10. pc'[p] \notin {"embryo", "init", "wait"} BY <2>7
  <2> HIDE DEF t
  <2> QED BY <2>1, <2>4, <2>5, <2>6, <2>7, <2>8, <2>9, <2>10, MoveKeeps
<1>4. CASE copy_mm(p) BY <1>4, CopyMmKeeps
<1>5. CASE Try(p, c, "copy_files", {"files"}, "wakeup_proc", "bad_fork_cleanup_mm")
  BY <1>5, ForkTries, TryKeeps DEF Try
<1>6. CASE /\ At(p, "wakeup_proc")
           /\ pc' = [pc EXCEPT ![p] = IF p = initproc THEN "wait" ELSE "user",
                               ![c] = IF p = initproc THEN "kernel" ELSE "user"]
           /\ child' = [child EXCEPT ![p] = p]
           /\ UNCHANGED <<held, ptr, ret, misused>>
  <2> DEFINE t == IF p = initproc THEN "wait" ELSE "user"
             u == IF p = initproc THEN "kernel" ELSE "user"
  <2>1. pc[p] = "wakeup_proc" /\ "wakeup_proc" \in ForkLabel /\ Fits("wakeup_proc", held[c], ptr[c])
    BY <1>6 DEF At, IInv, Fitting, ForkLabel, CopiedLabel
  <2>2. /\ held[p] = (IF p = initproc THEN Base ELSE Whole)
        /\ ptr[p] = (IF p = initproc THEN {} ELSE {"mm"}) /\ ptr[c] = ptr[p]
    BY <2>1 DEF IInv, InitForks, CopiedLabel
  <2>3. Fits(t, held[p], ptr[p])
    BY <2>2 DEF Fits, Bounded, ForkTable, ExecTable, RestTable, PointerTable, Pointers, Base, Space, Call, Whole,
                CopyLabel, CopiedLabel, ForkLabel, SegmentLabel, LoadLabel, ExecLabel, RestLabel, TiedLabel
  <2>4. Fits(u, held[c], ptr[c])
    BY <2>1, <2>2 DEF Fits, Bounded, ForkTable, ExecTable, RestTable, PointerTable, Pointers, Base, Space, Call, Whole,
                CopyLabel, CopiedLabel, ForkLabel, SegmentLabel, LoadLabel, ExecLabel, RestLabel, TiedLabel
  <2>5. /\ t \in Label \ (ForkLabel \cup {"embryo", "init"})
        /\ u \in Label \ (ForkLabel \cup {"embryo", "init", "wait"})
    BY DEF Label, RestLabel, ForkLabel, CopyLabel, CopiedLabel
  <2>6. ret' \in [Proc -> {0, -1}] BY <1>6 DEF IInv, TypeOK
  <2> QED BY <1>6, <2>1, <2>3, <2>4, <2>5, <2>6, ForkEnds
<1>7. CASE bad_fork_cleanup_mm(p) BY <1>7, ForkReleases, LeaveKeeps DEF bad_fork_cleanup_mm
<1>8. CASE Release(p, c, "bad_fork_cleanup_kstack", {"proc"}, {"kstack"}, "bad_fork_cleanup_proc")
  BY <1>8, ForkReleases, ReleaseKeeps
<1>9. CASE Release(p, c, "bad_fork_cleanup_proc", {}, {"proc"}, "fork_out")
  BY <1>9, ForkReleases, ReleaseKeeps
<1>10. CASE fork_out(p)
  <2> DEFINE t == IF p = initproc THEN "panic" ELSE "user"
  <2>1. pc[p] = "fork_out" /\ "fork_out" \in ForkLabel /\ Fits("fork_out", held[c], ptr[c])
    BY <1>10 DEF fork_out, At, IInv, Fitting, ForkLabel
  <2>2. p # initproc => held[p] = Whole /\ ptr[p] = {"mm"} BY <2>1 DEF IInv, InitForks
  <2>3. Fits(t, held[p], ptr[p])
    BY <2>2 DEF Fits, Bounded, ForkTable, ExecTable, RestTable, PointerTable, Pointers, Base, Space, Call, Whole,
                CopyLabel, CopiedLabel, ForkLabel, SegmentLabel, LoadLabel, ExecLabel, RestLabel, TiedLabel
  <2>4. Fits("unused", held[c], ptr[c])
    BY <2>1 DEF Fits, Bounded, ForkTable, ExecTable, RestTable, PointerTable, Pointers, Base, Space, Call, Whole,
                CopyLabel, CopiedLabel, ForkLabel, SegmentLabel, LoadLabel, ExecLabel, RestLabel, TiedLabel
  <2>5. /\ t \in Label \ (ForkLabel \cup {"embryo", "init"})
        /\ "unused" \in Label \ (ForkLabel \cup {"embryo", "init", "wait"})
    BY DEF Label, RestLabel, ForkLabel, CopyLabel, CopiedLabel
  <2>6. ret' \in [Proc -> {0, -1}] BY <1>10 DEF fork_out, Returns, IInv, TypeOK
  <2> QED BY <1>10, <2>1, <2>3, <2>4, <2>5, <2>6, ForkEnds DEF fork_out
<1> QED BY <1>1, <1>2, <1>3, <1>4, <1>5, <1>6, <1>7, <1>8, <1>9, <1>10 DEF do_fork

-----------------------------------------------------------------------------
(* load_icode and do_execve. *)

(* Reading the program headers keeps the invariant. *)
LEMMA HeadersKeep ==
  ASSUME IInv, NEW p \in Proc, ProgramHeaders(p)
  PROVE  IInv'
<1>1. {"headers", "segment", "text", "text_page", "text_read", "bss", "bss_next"} \cap ForkLabel = {}
  BY DEF ForkLabel, CopyLabel, CopiedLabel
<1>2. ret[p] \in {0, -1} BY DEF IInv, TypeOK
<1>3. CASE Branch(p, "headers", {"segment", "stack"}) BY <1>3, SegmentSteps, BranchKeeps
<1>4. CASE TryRet(p, p, "segment", {"vmas"}, "text", "bad_cleanup_mmap", -1, -1)
  BY <1>4, <1>1, SegmentSteps, TryKeeps
<1>5. CASE Branch(p, "text", {"text_page", "bss", "headers"}) BY <1>5, SegmentSteps, BranchKeeps
<1>6. CASE TryRet(p, p, "text_page", {"pages"}, "text_read", "bad_cleanup_mmap", ret[p], ret[p])
  BY <1>6, <1>1, <1>2, SegmentSteps, TryKeeps
<1>7. CASE Try(p, p, "text_read", {}, "text", "bad_cleanup_mmap")
  BY <1>7, <1>1, SegmentSteps, TryKeeps DEF Try
<1>8. CASE TryRet(p, p, "bss", {"pages"}, "bss_next", "bad_cleanup_mmap", ret[p], ret[p])
  BY <1>8, <1>1, <1>2, SegmentSteps, TryKeeps
<1>9. CASE Branch(p, "bss_next", {"bss", "headers"}) BY <1>9, SegmentSteps, BranchKeeps
<1> QED BY <1>3, <1>4, <1>5, <1>6, <1>7, <1>8, <1>9 DEF ProgramHeaders

\* A step of a process on its own objects that no lemma above covers.
LEMMA OwnMove ==
  ASSUME IInv, NEW p \in Proc, pc[p] \notin ForkLabel \cup {"embryo", "init", "wait", "panic"},
         NEW t \in Label \ (ForkLabel \cup {"embryo", "init", "wait"}), pc' = [pc EXCEPT ![p] = t],
         NEW h \in SUBSET Object, held' = [held EXCEPT ![p] = h],
         NEW r \in SUBSET Pointer, ptr' = [ptr EXCEPT ![p] = r],
         child' = child, ret' \in [Proc -> {0, -1}], misused' \subseteq {"phdrs"}, Fits(t, h, r)
  PROVE  IInv'
<1>1. child[p] = p BY DEF IInv, Makers
<1>2. pc'[p] = t /\ held'[p] = h /\ ptr'[p] = r BY DEF IInv, TypeOK, Labels
<1>3. Moves(p) BY <1>1 DEF Moves, IInv, TypeOK, Labels, Pointer
<1>4. CopyLabel \cup CopiedLabel \subseteq ForkLabel BY DEF ForkLabel
<1> QED BY <1>1, <1>2, <1>3, <1>4, MoveKeeps

(* load_icode while it builds the stack, *)
LEMMA StackKeeps ==
  ASSUME IInv, NEW p \in Proc, stack(p)
  PROVE  IInv'
<1>1. {"stack", "stack_pages"} \cap ForkLabel = {} BY DEF ForkLabel, CopyLabel, CopiedLabel
<1>2. CASE Try(p, p, "stack", {"vmas"}, "stack_pages", "bad_cleanup_mmap")
  BY <1>2, <1>1, SegmentSteps, TryKeeps DEF Try
<1>3. CASE Branch(p, "stack_pages", {"panic"}) BY <1>3, SegmentSteps, BranchKeeps
<1>4. CASE /\ At(p, "stack_pages")
           /\ held' = [held EXCEPT ![p] = @ \cup {"pages"}]
           /\ ptr' = [ptr EXCEPT ![p] = @ \cup {"mm"}]
           /\ Goto(p, "uargv") /\ UNCHANGED <<child, ret, misused>>
  <2>1. pc[p] = "stack_pages" /\ held[p] \in SUBSET Object /\ ptr[p] \in SUBSET Pointer
    BY <1>4 DEF At, IInv, TypeOK, Pointer
  <2>2. Fits("stack_pages", held[p], ptr[p]) BY <1>1, <2>1 DEF IInv, Makers, Fitting
  <2>3. Fits("uargv", held[p] \cup {"pages"}, ptr[p] \cup {"mm"})
    BY <2>2 DEF Fits, Bounded, ForkTable, ExecTable, RestTable, PointerTable, Pointers, Base, Space, Call, Whole,
                CopyLabel, CopiedLabel, ForkLabel, SegmentLabel, LoadLabel, ExecLabel, RestLabel, TiedLabel
  <2>4. "uargv" \in Label \ ForkLabel
    BY DEF Label, ExecLabel, LoadLabel, ForkLabel, CopyLabel, CopiedLabel
  <2>5. held[p] \cup {"pages"} \in SUBSET Object /\ ptr[p] \cup {"mm"} \in SUBSET Pointer
    BY <2>1 DEF Object, Pointer
  <2> QED BY <1>1, <1>4, <2>1, <2>3, <2>4, <2>5, OwnMove DEF Goto, IInv, TypeOK, MisusedAtMost
<1> QED BY <1>2, <1>3, <1>4 DEF stack

\* phdrs may have been released before: the one misuse there is.
LEMMA OutKeeps ==
  ASSUME IInv, NEW p \in Proc, out(p)
  PROVE  IInv'
<1>1. pc[p] = "out" /\ held[p] \in SUBSET Object /\ ptr[p] \in SUBSET Pointer
  BY DEF out, At, IInv, TypeOK, Pointer
<1>2. "close" \in Label \ ForkLabel /\ "out" \notin ForkLabel
  BY DEF Label, ExecLabel, ForkLabel, CopyLabel, CopiedLabel
<1>3. Fits("out", held[p], ptr[p]) BY <1>1, <1>2 DEF IInv, Makers, Fitting
<1> DEFINE O == ptr[p] \cap {"phdrs", "uargv"}
<1>4. Fits("close", held[p] \ O, ptr[p] \ {"phdrs", "uargv"})
  BY <1>1, <1>3 DEF Fits, Bounded, ForkTable, ExecTable, RestTable, PointerTable, Pointers, Base, Space, Call, Whole,
              CopyLabel, CopiedLabel, ForkLabel, SegmentLabel, LoadLabel, ExecLabel, RestLabel, TiedLabel, Object, Pointer
<1>5. misused' \subseteq {"phdrs"}
  <2>1. "uargv" \in ptr[p] => "uargv" \in held[p] BY <1>3 DEF Fits, Pointers
  <2>2. misused' = misused \cup ((O \ Lists) \ held[p]) BY DEF out, Drop
  <2> QED BY <2>1, <2>2 DEF IInv, MisusedAtMost
<1>6. held[p] \ O \in SUBSET Object /\ ptr[p] \ {"phdrs", "uargv"} \in SUBSET Pointer BY <1>1
<1> QED BY <1>1, <1>2, <1>4, <1>5, <1>6, OwnMove DEF out, Drop, Goto, IInv, TypeOK

(* load_icode before, *)
LEMMA LoadKeeps ==
  ASSUME IInv, NEW p \in Proc, load_icode(p)
  PROVE  IInv'
<1>1. LoadLabel \cap ForkLabel = {}
  BY DEF LoadLabel, SegmentLabel, ForkLabel, CopyLabel, CopiedLabel
<1>2. {"load_icode", "load_pgdir", "load_elf", "load_phdrs", "read_phdrs", "uargv", "copy_args", "bad_cleanup_user",
       "bad_cleanup_mmap", "bad_elf_cleanup_pgdir", "bad_pgdir_cleanup_mm_", "bad_free_phdrs"} \cap ForkLabel = {}
  BY <1>1 DEF LoadLabel, SegmentLabel
<1>3. CASE Try(p, p, "load_icode", {"mm"}, "load_pgdir", "out")
  BY <1>3, <1>2, LoadTries, TryKeeps DEF Try
<1>4. CASE Try(p, p, "load_pgdir", {"pgdir"}, "load_elf", "bad_pgdir_cleanup_mm_")
  BY <1>4, <1>2, LoadTries, TryKeeps DEF Try
<1>5. CASE Try(p, p, "load_elf", {}, "load_phdrs", "bad_elf_cleanup_pgdir")
  BY <1>5, <1>2, LoadTries, TryKeeps DEF Try
<1>6. CASE Try(p, p, "load_phdrs", {"phdrs"}, "read_phdrs", "bad_elf_cleanup_pgdir")
  BY <1>6, <1>2, LoadTries, TryKeeps DEF Try
<1>7. CASE Try(p, p, "read_phdrs", {}, "headers", "bad_free_phdrs")
  BY <1>7, <1>2, LoadTries, TryKeeps DEF Try
<1>8. CASE Try(p, p, "uargv", {"uargv"}, "copy_args", "bad_cleanup_user")
  BY <1>8, <1>2, LoadTries, TryKeeps DEF Try
<1>9. CASE Try(p, p, "copy_args", {}, "out", "bad_cleanup_user")
  BY <1>9, <1>2, LoadTries, TryKeeps DEF Try
<1>10. CASE LeaveMm(p, p, "bad_cleanup_user", {}, "out") BY <1>10, <1>2, LoadReleases, LeaveKeeps
<1>11. CASE bad_cleanup_mmap(p) BY <1>11, <1>2, LoadReleases, ReleaseKeeps DEF bad_cleanup_mmap
<1>12. CASE Release(p, p, "bad_elf_cleanup_pgdir", {"mm"}, {"pgdir"}, "bad_pgdir_cleanup_mm_")
  BY <1>12, <1>2, LoadReleases, ReleaseKeeps
<1>13. CASE Release(p, p, "bad_pgdir_cleanup_mm_", {}, {"mm", "vmas"}, "out")
  BY <1>13, <1>2, LoadReleases, ReleaseKeeps
<1>14. CASE Release(p, p, "bad_free_phdrs", {}, {"phdrs"}, "bad_elf_cleanup_pgdir")
  BY <1>14, <1>2, LoadReleases, ReleaseKeeps
<1> QED BY <1>3, <1>4, <1>5, <1>6, <1>7, <1>8, <1>9, <1>10, <1>11, <1>12, <1>13, <1>14,
           HeadersKeep, StackKeeps, OutKeeps DEF load_icode

(* do_execve, *)
LEMMA DoExecveKeeps ==
  ASSUME IInv, NEW p \in Proc, do_execve(p)
  PROVE  IInv'
<1>1. {"user", "kernel", "open", "leave_mm", "close", "executed", "execve_exit"} \cap ForkLabel = {}
  BY DEF ForkLabel, CopyLabel, CopiedLabel
<1>2. CASE Try(p, p, "user", {"kargv"}, "open", "user") BY <1>2, <1>1, ExecveSteps, TryKeeps DEF Try
<1>3. CASE Try(p, p, "kernel", {"kargv"}, "open", "kernel")
  BY <1>3, <1>1, ExecveSteps, TryKeeps DEF Try
<1>4. CASE Try(p, p, "open", {"fd"}, "leave_mm", "execve_exit")
  BY <1>4, <1>1, ExecveSteps, TryKeeps DEF Try
<1>5. CASE LeaveMm(p, p, "leave_mm", {}, "load_icode") BY <1>5, <1>1, ExecveSteps, LeaveKeeps
<1>6. CASE sysfile_close(p)
  <2>1. \/ Release(p, p, "close", {}, {"fd"}, "executed")
        \/ Release(p, p, "close", {}, {"fd"}, "execve_exit")
    BY <1>6 DEF sysfile_close
  <2> QED BY <2>1, <1>1, ExecveSteps, ReleaseKeeps
<1>7. CASE Execved(p)
  <2> DEFINE t == IF "mm" \in ptr[p] THEN "user" ELSE "stranded"
  <2> USE DEF Execved, Release, Drop, Goto
  <2>1. pc[p] = "executed" /\ held[p] \in SUBSET Object /\ ptr[p] \in SUBSET Pointer
    BY <1>7 DEF At, IInv, TypeOK, Pointer
  <2>2. Fits("executed", held[p], ptr[p]) BY <1>1, <2>1 DEF IInv, Makers, Fitting
  <2>3. Fits(t, held[p] \ {"kargv"}, ptr[p]) /\ "kargv" \in held[p]
    BY <2>1, <2>2 DEF Fits, Bounded, ForkTable, ExecTable, RestTable, PointerTable, Pointers, Base, Space, Call, Whole,
                CopyLabel, CopiedLabel, ForkLabel, SegmentLabel, LoadLabel, ExecLabel, RestLabel, TiedLabel, Object, Pointer
  <2>4. misused' \subseteq {"phdrs"} BY <1>7, <2>3 DEF IInv, MisusedAtMost
  <2>5. t \in Label \ (ForkLabel \cup {"embryo", "init", "wait"})
    BY DEF Label, RestLabel, ForkLabel, CopyLabel, CopiedLabel
  <2>6. ptr' = [ptr EXCEPT ![p] = ptr[p]] BY <1>7 DEF IInv, TypeOK
  <2>7. held[p] \ {"kargv"} \in SUBSET Object BY <2>1
  <2>8. /\ pc' = [pc EXCEPT ![p] = t] /\ held' = [held EXCEPT ![p] = held[p] \ {"kargv"}]
        /\ child' = child /\ ret' \in [Proc -> {0, -1}]
    BY <1>7 DEF IInv, TypeOK
  <2> HIDE DEF t, Execved
  <2> QED BY <1>1, <2>1, <2>3, <2>4, <2>5, <2>6, <2>7, <2>8, OwnMove
<1>8. CASE Release(p, p, "execve_exit", {}, {"kargv"}, "do_exit")
  BY <1>8, <1>1, ExecveSteps, ReleaseKeeps
<1> QED BY <1>2, <1>3, <1>4, <1>5, <1>6, <1>7, <1>8, LoadKeeps DEF do_execve

-----------------------------------------------------------------------------
(* do_exit and do_wait, and the theorem. *)

(* exit_mmap, put_pgdir and mm_destroy keep the invariant. *)
LEMMA DoExitKeeps ==
  ASSUME IInv, NEW p \in Proc, do_exit(p)
  PROVE  IInv'
<1>1. "do_exit" \notin ForkLabel BY DEF ForkLabel, CopyLabel, CopiedLabel
<1> QED BY <1>1, ExecveSteps, BranchKeeps, LeaveKeeps DEF do_exit

(* and do_wait. *)
LEMMA DoWaitKeeps ==
  ASSUME IInv, NEW p \in Proc, do_wait(p)
  PROVE  IInv'
<1> USE DEF do_wait, Drop, Goto
<1>1. pc[p] = "zombie" /\ held[p] \in SUBSET Object /\ ptr[p] \in SUBSET Pointer
  BY DEF At, IInv, TypeOK, Pointer
<1>2. "unused" \in Label \ ForkLabel /\ "zombie" \notin ForkLabel
  BY DEF Label, RestLabel, ForkLabel, CopyLabel, CopiedLabel
<1>3. Fits("zombie", held[p], ptr[p]) BY <1>1, <1>2 DEF IInv, Makers, Fitting
<1>4. Fits("unused", held[p] \ {"kstack", "proc"}, ptr[p]) /\ {"kstack", "proc"} \subseteq held[p]
  BY <1>1, <1>3 DEF Fits, Bounded, ForkTable, ExecTable, RestTable, PointerTable, Pointers, Base, Space, Call, Whole,
              CopyLabel, CopiedLabel, ForkLabel, SegmentLabel, LoadLabel, ExecLabel, RestLabel, TiedLabel, Object, Pointer
<1>5. misused' \subseteq {"phdrs"} BY <1>4 DEF IInv, MisusedAtMost
<1>6. held[p] \ {"kstack", "proc"} \in SUBSET Object /\ ptr' = [ptr EXCEPT ![p] = ptr[p]]
  BY <1>1 DEF IInv, TypeOK
<1>7. ret' \in [Proc -> {0, -1}] BY DEF Returns, IInv, TypeOK
<1> QED BY <1>1, <1>2, <1>4, <1>5, <1>6, <1>7, OwnMove

(* The table holds in the beginning. *)
LEMMA InitIInv == Init => IInv
<1> SUFFICES ASSUME Init PROVE IInv
  OBVIOUS
<1> USE InitIsProc DEF Init
<1>1. /\ \A p \in Proc : child[p] = p /\ ptr[p] = {} /\ pc[p] = (IF p = initproc THEN "init" ELSE "unused")
      /\ \A p \in Proc : held[p] = (IF p = initproc THEN Base ELSE {})
  BY DEF Base
<1>2. TypeOK /\ MisusedAtMost BY DEF TypeOK, MisusedAtMost, Object
<1>3. Labels BY DEF Labels, Label, RestLabel
<1>4. Makers BY <1>1 DEF Makers, ForkLabel, CopyLabel, CopiedLabel
<1>5. InitForks BY <1>1 DEF InitForks, ForkLabel, CopyLabel, CopiedLabel
<1>6. Fitting
  <2>1. Fits("init", Base, {}) /\ Fits("unused", {}, {})
    BY DEF Fits, Bounded, ForkTable, ExecTable, RestTable, PointerTable, Pointers, Base, Space, Call, Whole,
           CopyLabel, CopiedLabel, ForkLabel, SegmentLabel, LoadLabel, ExecLabel, RestLabel, TiedLabel
  <2> QED BY <1>1, <2>1 DEF Fitting
<1> QED BY <1>2, <1>3, <1>4, <1>5, <1>6 DEF IInv

(* Every step keeps it. *)
LEMMA NextIInv == IInv /\ [Next]_vars => IInv'
<1> SUFFICES ASSUME IInv, [Next]_vars PROVE IInv'
  OBVIOUS
<1>1. CASE UNCHANGED vars
  BY <1>1 DEF vars, IInv, TypeOK, Labels, Makers, InitForks, Fitting, MisusedAtMost
<1>2. ASSUME NEW p \in Proc, do_fork(p) \/ do_execve(p) \/ do_exit(p) \/ do_wait(p)
      PROVE  IInv'
  BY <1>2, DoForkKeeps, DoExecveKeeps, DoExitKeeps, DoWaitKeeps
<1> QED BY <1>1, <1>2 DEF Next

(* Outside a call it gives what the run checks. *)
LEMMA IInvObjects == IInv => ObjectsInv
<1> SUFFICES ASSUME IInv PROVE NothingLost
  BY DEF IInv, ObjectsInv
<1> SUFFICES ASSUME NEW p \in Proc
             PROVE  /\ pc[p] = "user" => held[p] = Whole /\ ptr[p] = {"mm"}
                    /\ pc[p] \in {"init", "wait", "kernel", "stranded"} =>
                          held[p] = {"proc", "kstack", "files"} /\ ptr[p] = {}
                    /\ pc[p] = "zombie" => held[p] \ {"files"} = {"proc", "kstack"} /\ ptr[p] = {}
                    /\ pc[p] = "unused" => held[p] \subseteq {"files"} /\ ptr[p] = {}
  BY DEF NothingLost
<1>1. pc[p] \in {"user", "init", "wait", "kernel", "stranded", "zombie", "unused"} => Fits(pc[p], held[p], ptr[p])
  BY DEF IInv, Makers, Fitting, ForkLabel, CopyLabel, CopiedLabel
<1>2. ASSUME pc[p] = "user" PROVE held[p] = Whole /\ ptr[p] = {"mm"}
  <2>1. Bounded(Whole, held[p], {}) /\ Bounded({"mm"}, ptr[p], {})
    BY <1>1, <1>2 DEF Fits, RestTable, PointerTable
  <2> QED BY <2>1 DEF Bounded
<1>3. ASSUME pc[p] \in {"init", "wait", "kernel", "stranded"}
      PROVE  held[p] = {"proc", "kstack", "files"} /\ ptr[p] = {}
  <2>1. Bounded(Base, held[p], {}) /\ Bounded({}, ptr[p], {})
    BY <1>1, <1>3 DEF Fits, RestTable, PointerTable
  <2> QED BY <2>1 DEF Bounded, Base
<1>4. ASSUME pc[p] = "zombie" PROVE held[p] \ {"files"} = {"proc", "kstack"} /\ ptr[p] = {}
  <2>1. Bounded({"proc", "kstack"}, held[p], {"files"}) /\ Bounded({}, ptr[p], {})
    BY <1>1, <1>4 DEF Fits, RestTable, PointerTable
  <2> QED BY <2>1 DEF Bounded
<1>5. ASSUME pc[p] = "unused" PROVE held[p] \subseteq {"files"} /\ ptr[p] = {}
  <2>1. Bounded({}, held[p], {"files"}) /\ Bounded({}, ptr[p], {})
    BY <1>1, <1>5 DEF Fits, RestTable, PointerTable
  <2> QED BY <2>1 DEF Bounded
<1> QED BY <1>2, <1>3, <1>4, <1>5

\* At every label a process or its child holds what the tables say, in every
\* behaviour (do_fork, do_execve, do_exit, do_wait and their labels).
THEOREM ObjectsInvariance == Spec => []IInv
BY InitIInv, NextIInv, PTL DEF Spec

\* Outside a call a process holds exactly the objects it needs, wherever the
\* calls before failed, and nothing is released twice, phdrs apart (do_fork,
\* do_execve, do_exit, do_wait).
THEOREM ObjectsCorrect == Spec => []ObjectsInv
BY ObjectsInvariance, IInvObjects, PTL

-----------------------------------------------------------------------------
(***************************************************************************)
(* The kernel heap.  The listed blocks form a circle in the order of their *)
(* addresses (Circle), and together with the blocks of the callers they    *)
(* tile the units of the pages (Tiles).                                    *)
(***************************************************************************)

(* Quotients. *)
LEMMA DivFacts ==
    ASSUME NEW a \in Nat, NEW d \in Nat \ {0}
    PROVE  /\ a \div d \in Nat /\ d * (a \div d) <= a /\ a < d * (a \div d) + d
OBVIOUS

(* A quotient between two bounds. *)
LEMMA DivBounds ==
    ASSUME NEW a \in Nat, NEW d \in Nat \ {0}, NEW m \in Nat, NEW n \in Nat, m * d <= a, a < n * d + d
    PROVE  a \div d \in m..n
<1> DEFINE q == a \div d
<1>1. q \in Nat /\ d * q <= a /\ a < d * q + d BY DivFacts
<1>2. m <= q
  <2>1. CASE q + 1 <= m
    <3>1. (q + 1) * d <= m * d BY <1>1, <2>1
    <3> QED BY <1>1, <3>1
  <2> QED BY <1>1, <2>1
<1>3. q <= n
  <2>1. CASE n + 1 <= q
    <3>1. (n + 1) * d <= q * d BY <1>1, <2>1
    <3> QED BY <1>1, <3>1
  <2> QED BY <1>1, <2>1
<1> QED BY <1>1, <1>2, <1>3

(* The numbers of units in a page, a header and a small request. *)
LEMMA SlobNumbers ==
    /\ PageUnits \in Nat /\ PageUnits >= 3 /\ PAGE_SIZE = SLOB_UNIT * PageUnits
    /\ SLOB_UNITS(BIGBLOCK) \in 2..PageUnits
    /\ \A size \in Nat \ {0} : size + SLOB_UNIT + SLOB_UNIT < PAGE_SIZE => SLOB_UNITS(size + SLOB_UNIT) \in 2..PageUnits
<1> USE SlobAssumption
<1>1. PAGE_SIZE = SLOB_UNIT * PageUnits /\ PageUnits \in Nat BY DEF PageUnits
<1>2. PageUnits >= 3
  <2>1. CASE PageUnits <= 2
    <3>1. SLOB_UNIT * PageUnits <= SLOB_UNIT * 2 BY <1>1, <2>1
    <3> QED BY <1>1, <3>1
  <2> QED BY <1>1, <2>1
<1>3. ASSUME NEW s \in Nat, SLOB_UNIT < s, s + SLOB_UNIT < PAGE_SIZE
      PROVE  SLOB_UNITS(s) \in 2..PageUnits
  <2>1. 2 * SLOB_UNIT <= s + SLOB_UNIT - 1 /\ s + SLOB_UNIT - 1 < PageUnits * SLOB_UNIT + SLOB_UNIT
    BY <1>1, <1>3
  <2>2. s + SLOB_UNIT - 1 \in Nat BY <1>3
  <2> QED BY <1>1, <2>1, <2>2, DivBounds DEF SLOB_UNITS
<1> QED BY <1>1, <1>2, <1>3

(* Where pages lie. *)
LEMMA PageNumbers ==
    /\ Addr \subseteq Nat /\ arena \in Addr /\ NONE \notin Addr /\ NoBlock \notin Addr
    /\ \A a \in Addr : \A x \in 0..a : x \in Addr
    /\ \A p \in 1..HeapPages : Page(p) \in Nat /\ Page(p) >= PageUnits /\ Page(p) + PageUnits - 1 \in Addr
    /\ \A p, q \in 1..HeapPages : p < q => Page(p) + PageUnits <= Page(q)
    /\ IsFiniteSet(Addr)
<1> USE SlobAssumption
<1>1. PageUnits \in Nat /\ PageUnits >= 3 BY SlobNumbers
<1>2. PICK N : N = (HeapPages + 1) * PageUnits OBVIOUS
<1>3. N \in Nat /\ N >= PageUnits BY <1>1, <1>2
<1>4. Addr = 0..(N - 1) BY <1>2 DEF Addr
<1>5. ASSUME NEW p \in Nat, NEW q \in Nat, p < q PROVE p * PageUnits + PageUnits <= q * PageUnits
  <2>1. (p + 1) * PageUnits <= q * PageUnits BY <1>1, <1>5
  <2> QED BY <1>1, <2>1
<1>6. ASSUME NEW p \in 1..HeapPages PROVE Page(p) \in Nat /\ Page(p) >= PageUnits /\ Page(p) + PageUnits - 1 \in Addr
  <2>1. 0 * PageUnits + PageUnits <= p * PageUnits /\ p * PageUnits + PageUnits <= N BY <1>2, <1>5
  <2>2. p * PageUnits \in Nat BY <1>1
  <2> QED BY <1>1, <1>3, <1>4, <2>1, <2>2 DEF Page
<1>7. \A p, q \in 1..HeapPages : p < q => Page(p) + PageUnits <= Page(q) BY <1>5 DEF Page
<1>8. IsFiniteSet(Addr) BY <1>3, <1>4, FS_Interval
<1> QED BY <1>1, <1>3, <1>4, <1>6, <1>7, <1>8 DEF arena, NONE

\* c comes next after b in the circle of L.
IsNext(L, b, c) ==
    /\ c \in L
    /\ \/ c > b /\ \A x \in L : x > b => x >= c
       \/ c = arena /\ \A x \in L : x <= b
Circle(next, L) ==
    /\ next \in [Addr -> Addr \cup {NONE}] /\ L \subseteq Addr /\ arena \in L
    /\ \A b \in L : IsNext(L, b, next[b])
    /\ \A b \in Addr : b \notin L => next[b] = NONE

\* cur is the last in front of b.
InFront(L, cur, b) == cur \in L /\ cur < b /\ \A x \in L : x < b => x <= cur
LinkedIn(next, cur, b) == [next EXCEPT ![b] = next[cur], ![cur] = b]
LinkedOut(next, cur, x) == [next EXCEPT ![x] = NONE, ![cur] = next[x]]

(* What a circle is made of. *)
LEMMA CircleFacts ==
    ASSUME NEW next, NEW L, Circle(next, L)
    PROVE  /\ L \subseteq Addr /\ L \subseteq Nat /\ arena \in L /\ IsFiniteSet(L)
           /\ \A b \in L : next[b] \in L /\ next[b] \in Addr /\ b \in Nat /\ next[b] \in Nat
           /\ \A b \in Addr : b \in Nat
           /\ next \in [Addr -> Addr \cup {NONE}]
           /\ L = {b \in Addr : next[b] # NONE}
<1>1. L \subseteq Addr /\ arena \in L /\ next \in [Addr -> Addr \cup {NONE}] BY DEF Circle
<1>2. \A b \in L : next[b] \in L BY DEF Circle, IsNext
<1>3. \A b \in Addr : b \notin L => next[b] = NONE BY DEF Circle
<1>4. IsFiniteSet(L) BY <1>1, PageNumbers, FS_Subset
<1>5. Addr \subseteq Nat /\ NONE \notin Addr BY PageNumbers
<1> QED BY <1>1, <1>2, <1>3, <1>4, <1>5

(* A block is linked behind the last one in front of it. *)
LEMMA CircleIn ==
    ASSUME NEW next, NEW L, Circle(next, L), NEW b \in Addr, b \notin L, NEW cur, InFront(L, cur, b)
    PROVE  Circle(LinkedIn(next, cur, b), L \cup {b})
<1> DEFINE new == LinkedIn(next, cur, b)
           M == L \cup {b}
<1>1. /\ L \subseteq Addr /\ Addr \subseteq Nat /\ arena \in L /\ cur \in L /\ cur \in Addr /\ cur # b /\ next[cur] \in Addr
      /\ b \in Nat /\ cur \in Nat /\ \A x \in L : x \in Nat /\ next[x] \in Nat
      /\ next \in [Addr -> Addr \cup {NONE}] /\ arena = 0
  BY CircleFacts, PageNumbers DEF InFront, arena
<1>2. /\ new \in [Addr -> Addr \cup {NONE}] /\ new[b] = next[cur] /\ new[cur] = b
      /\ \A x \in Addr : x # b /\ x # cur => new[x] = next[x]
  BY <1>1 DEF LinkedIn
<1>3. IsNext(M, cur, b) BY <1>1 DEF IsNext, InFront
<1>4. IsNext(M, b, next[cur])
  <2>1. IsNext(L, cur, next[cur]) BY <1>1 DEF Circle
  <2> QED BY <1>1, <2>1 DEF IsNext, InFront
<1>5. ASSUME NEW x \in L, x # cur PROVE IsNext(M, x, next[x])
  <2>1. IsNext(L, x, next[x]) BY DEF Circle
  <2>2. CASE next[x] > x /\ \A y \in L : y > x => y >= next[x]
    <3>1. next[x] \in L BY <2>1 DEF IsNext
    <3>2. b > x => b >= next[x]
      <4>1. SUFFICES ASSUME b > x PROVE b >= next[x] OBVIOUS
      <4>2. x <= cur /\ x < cur BY <1>1, <1>5, <4>1 DEF InFront
      <4>3. cur >= next[x] BY <1>1, <2>2, <4>2
      <4> QED BY <1>1, <3>1, <4>3 DEF InFront
    <3> QED BY <2>2, <3>1, <3>2 DEF IsNext
  <2>3. CASE next[x] = arena /\ \A y \in L : y <= x
    <3>1. cur <= x /\ cur < x BY <1>1, <1>5, <2>3
    <3>2. b < x BY <1>1, <1>5, <3>1 DEF InFront
    <3> QED BY <1>1, <2>3, <3>2 DEF IsNext
  <2> QED BY <2>1, <2>2, <2>3 DEF IsNext
<1>6. \A x \in M : IsNext(M, x, new[x]) BY <1>1, <1>2, <1>3, <1>4, <1>5
<1>7. \A x \in Addr : x \notin M => new[x] = NONE BY <1>1, <1>2 DEF Circle
<1> QED BY <1>1, <1>2, <1>6, <1>7 DEF Circle

(* The block behind cur is unlinked. *)
LEMMA CircleOut ==
    ASSUME NEW next, NEW L, Circle(next, L), NEW cur \in L, NEW x, x = next[cur], x # arena
    PROVE  Circle(LinkedOut(next, cur, x), L \ {x}) /\ cur # x /\ x \in L /\ InFront(L, cur, x)
<1> DEFINE new == LinkedOut(next, cur, x)
           M == L \ {x}
<1>1. /\ L \subseteq Addr /\ Addr \subseteq Nat /\ arena \in L /\ cur \in Addr /\ x \in L /\ x \in Addr /\ next[x] \in L
      /\ next \in [Addr -> Addr \cup {NONE}] /\ arena = 0 /\ next[x] \in Addr /\ NONE \notin Addr
      /\ x \in Nat /\ cur \in Nat /\ \A y \in L : y \in Nat /\ next[y] \in Nat
  BY CircleFacts, PageNumbers DEF arena
<1>2. x > cur /\ \A y \in L : y > cur => y >= x
  <2>1. IsNext(L, cur, x) BY DEF Circle
  <2> QED BY <1>1, <2>1 DEF IsNext
<1>3. /\ new \in [Addr -> Addr \cup {NONE}] /\ new[x] = NONE /\ new[cur] = next[x]
      /\ \A y \in Addr : y # x /\ y # cur => new[y] = next[y]
  BY <1>1, <1>2 DEF LinkedOut
<1>4. IsNext(L, x, next[x]) BY <1>1 DEF Circle
<1>5. IsNext(M, cur, next[x]) BY <1>1, <1>2, <1>4 DEF IsNext
<1>6. ASSUME NEW y \in M, y # cur PROVE IsNext(M, y, next[y])
  <2>1. IsNext(L, y, next[y]) BY DEF Circle
  <2>2. next[y] # x
    <3>1. SUFFICES ASSUME next[y] = x PROVE FALSE OBVIOUS
    <3>2. x > y /\ \A z \in L : z > y => z >= x BY <1>1, <2>1, <3>1 DEF IsNext
    <3>3. y < cur \/ y > cur BY <1>1, <1>6
    <3> QED BY <1>1, <1>2, <1>6, <3>2, <3>3
  <2> QED BY <1>1, <2>1, <2>2 DEF IsNext
<1>7. \A y \in M : IsNext(M, y, new[y]) BY <1>1, <1>2, <1>3, <1>5, <1>6
<1>8. \A y \in Addr : y \notin M => new[y] = NONE BY <1>1, <1>2, <1>3 DEF Circle
<1>9. InFront(L, cur, x) BY <1>1, <1>2 DEF InFront
<1> QED BY <1>1, <1>2, <1>3, <1>7, <1>8, <1>9 DEF Circle

\* The place of b: the code's test, and what it means.
FitsBehind(next, b, cur) == \/ b > cur /\ b < next[cur]
                            \/ cur >= next[cur] /\ (b > cur \/ b < next[cur])

(* The test of slob_free finds the last block in front of b. *)
LEMMA FitsMeans ==
    ASSUME NEW next, NEW L, Circle(next, L), NEW b \in Addr, b \notin L, NEW cur \in L
    PROVE  FitsBehind(next, b, cur) <=> InFront(L, cur, b)
<1>1. L \subseteq Addr /\ Addr \subseteq Nat /\ arena \in L /\ cur \in Addr /\ b > 0 /\ arena = 0 /\ next[cur] \in Addr /\ b # cur
      /\ b \in Nat /\ cur \in Nat /\ next[cur] \in Nat /\ \A x \in L : x \in Nat
  BY CircleFacts, PageNumbers DEF arena
<1>2. IsNext(L, cur, next[cur]) BY DEF Circle
<1>3. CASE next[cur] > cur /\ \A x \in L : x > cur => x >= next[cur]
  <2>1. next[cur] \in L BY <1>2 DEF IsNext
  <2>2. ASSUME FitsBehind(next, b, cur) PROVE InFront(L, cur, b)
    <3>1. b > cur /\ b < next[cur] BY <1>1, <1>3, <2>2 DEF FitsBehind
    <3> QED BY <1>1, <1>3, <3>1 DEF InFront
  <2>3. ASSUME InFront(L, cur, b) PROVE FitsBehind(next, b, cur)
    <3>1. ~ (next[cur] < b) BY <1>1, <1>3, <2>1, <2>3 DEF InFront
    <3>2. next[cur] # b BY <2>1
    <3> QED BY <1>1, <2>3, <3>1, <3>2 DEF FitsBehind, InFront
  <2> QED BY <2>2, <2>3
<1>4. CASE next[cur] = arena /\ \A x \in L : x <= cur
  <2>1. ASSUME FitsBehind(next, b, cur) PROVE InFront(L, cur, b)
    BY <1>1, <1>4, <2>1 DEF FitsBehind, InFront
  <2>2. ASSUME InFront(L, cur, b) PROVE FitsBehind(next, b, cur)
    BY <1>1, <1>4, <2>2 DEF FitsBehind, InFront
  <2> QED BY <2>1, <2>2
<1> QED BY <1>2, <1>3, <1>4 DEF IsNext

(* A walk of n steps exists, wherever a step leads. *)

(* The loops go along the circle. *)
LEMMA BehindFacts ==
    ASSUME NEW h, NEW L, L = FreeBlocks(h), Circle(h.next, L), h.slobfree \in L, NEW n, n = Cardinality(L)
    PROVE  /\ n \in Nat
           /\ Behind(h, 0) = h.slobfree
           /\ \A k \in 0..n : Behind(h, k) \in L
           /\ \A k \in 1..n : Behind(h, k) = h.next[Behind(h, k - 1)]
<1> DEFINE step == [e \in L |-> h.next[e]]
           rec(f) == [i \in 0..n |-> IF i = 0 THEN h.slobfree ELSE h.next[f[i - 1]]]
<1>1. n \in Nat BY CircleFacts, FS_CardinalityType
<1>2. step \in [L -> L] BY CircleFacts
<1>3. PICK at \in [0..n -> L] : at[0] = h.slobfree /\ \A k \in 1..n : at[k] = step[at[k - 1]]
  <2> HIDE DEF step
  <2>1. \E at \in [0..n -> L] : IsWalk(at, n, h.slobfree, step) BY <1>1, <1>2, WalkExists
  <2> QED BY <2>1, Zenon DEF IsWalk
<1>4. at = rec(at)
  <2>1. ASSUME NEW k \in 0..n PROVE at[k] = rec(at)[k]
    <3>1. CASE k = 0 BY <1>3, <3>1
    <3>2. CASE k # 0
      <4>1. k \in 1..n /\ k - 1 \in 0..n BY <1>1, <3>2
      <4>2. at[k] = step[at[k - 1]] /\ at[k - 1] \in L BY <1>3, <4>1
      <4> QED BY <3>2, <4>2
    <3> QED BY <3>1, <3>2
  <2> QED BY <2>1
<1> DEFINE node == CHOOSE f : f = rec(f)
<1>5. node = rec(node)
  <2> HIDE DEF rec
  <2> QED BY <1>4
<1>6. \A k : Behind(h, k) = node[k] BY DEF Behind
<1> HIDE DEF node
<1>7. /\ node[0] = h.slobfree
      /\ \A k \in 1..n : node[k] = h.next[node[k - 1]]
  <2>1. /\ rec(node)[0] = h.slobfree
        /\ \A k \in 1..n : rec(node)[k] = h.next[node[k - 1]]
    BY <1>1
  <2> HIDE DEF rec
  <2> QED BY <1>5, <2>1
<1>8. \A k \in 0..n : node[k] \in L
  <2> DEFINE B == {k \in 0..n : node[k] \in L}
  <2>1. 0 \in B BY <1>1, <1>7
  <2>2. \A k \in 1..n : k - 1 \in B => k \in B
    <3> TAKE k \in 1..n
    <3> HAVE k - 1 \in B
    <3>1. k \in 0..n /\ node[k - 1] \in L /\ node[k] = h.next[node[k - 1]] BY <1>1, <1>7
    <3>2. h.next[node[k - 1]] \in L BY <3>1, CircleFacts
    <3> QED BY <3>1, <3>2
  <2>3. \A k \in 0..n : k \in B
    <3> HIDE DEF B
    <3> QED BY <1>1, <2>1, <2>2, StaysIn
  <2> QED BY <2>3
<1> QED BY <1>1, <1>6, <1>7, <1>8

\* What lies between c and the target, going around once.
Ahead(L, c, target) == {x \in L : IF c < target THEN c < x /\ x <= target ELSE c < x \/ x <= target}

(* The blocks still ahead on the way to the target become fewer. *)
LEMMA AheadFacts ==
    ASSUME NEW next, NEW L, Circle(next, L), NEW c \in L, NEW target \in L
    PROVE  /\ Ahead(L, c, target) \subseteq L /\ next[c] \in Ahead(L, c, target)
           /\ next[c] # target => Ahead(L, next[c], target) = Ahead(L, c, target) \ {next[c]}
<1> PICK d : d = next[c]
  OBVIOUS
<1>1. /\ c \in Nat /\ target \in Nat /\ d \in L /\ d \in Nat /\ arena \in L /\ arena = 0
      /\ \A x \in L : x \in Nat
  BY CircleFacts DEF arena
<1>2. \/ d > c /\ \A x \in L : x > c => x >= d
      \/ d = arena /\ \A x \in L : x <= c
  BY DEF Circle, IsNext
<1>3. d \in Ahead(L, c, target)
  <2>1. CASE d > c /\ \A x \in L : x > c => x >= d BY <1>1, <2>1 DEF Ahead
  <2>2. CASE d = arena /\ \A x \in L : x <= c BY <1>1, <2>2 DEF Ahead
  <2> QED BY <1>2, <2>1, <2>2
<1>4. ASSUME d # target, NEW x \in L
      PROVE  x \in Ahead(L, d, target) <=> x \in Ahead(L, c, target) /\ x # d
  <2>1. x \in Nat BY <1>1
  <2>2. CASE d > c /\ \A y \in L : y > c => y >= d
    <3>1. (x > c => x >= d) /\ (target > c => target >= d) BY <2>2
    <3> QED BY <1>1, <1>4, <2>1, <2>2, <3>1 DEF Ahead
  <2>3. CASE d = arena /\ \A y \in L : y <= c
    <3>1. x <= c /\ target <= c BY <2>3
    <3> QED BY <1>1, <1>4, <2>1, <2>3, <3>1 DEF Ahead
  <2> QED BY <1>2, <2>2, <2>3
<1>5. Ahead(L, c, target) \subseteq L /\ Ahead(L, d, target) \subseteq L BY DEF Ahead
<1> QED BY <1>3, <1>4, <1>5

(* Each listed block is met within one round. *)
LEMMA EachIsMet ==
    ASSUME NEW h, NEW L, L = FreeBlocks(h), Circle(h.next, L), h.slobfree \in L, NEW n, n = Cardinality(L),
           NEW target \in L
    PROVE  \E k \in 1..n : Behind(h, k) = target
<1> SUFFICES ASSUME \A k \in 1..n : Behind(h, k) # target PROVE FALSE
  OBVIOUS
<1>1. /\ n \in Nat /\ Behind(h, 0) = h.slobfree
      /\ \A k \in 0..n : Behind(h, k) \in L
      /\ \A k \in 1..n : Behind(h, k) = h.next[Behind(h, k - 1)]
  BY BehindFacts
<1>2. IsFiniteSet(L) BY CircleFacts
<1> DEFINE A(k) == Ahead(L, Behind(h, k), target)
           B == {k \in 0..n : Cardinality(A(k)) <= n - k}
<1>3. \A k \in 0..n : A(k) \subseteq L /\ IsFiniteSet(A(k)) /\ Cardinality(A(k)) \in Nat
  <2> TAKE k \in 0..n
  <2>1. A(k) \subseteq L BY <1>1, AheadFacts
  <2> QED BY <1>2, <2>1, FS_Subset, FS_CardinalityType
<1>4. 0 \in B BY <1>1, <1>2, <1>3, FS_Subset
<1>5. ASSUME NEW k \in 1..n, k - 1 \in B PROVE k \in B
  <2>1. k - 1 \in 0..n /\ k \in 0..n BY <1>1
  <2>2. Behind(h, k) = h.next[Behind(h, k - 1)] /\ Behind(h, k) # target /\ Behind(h, k - 1) \in L
    BY <1>1, <2>1
  <2>3. A(k) = A(k - 1) \ {Behind(h, k)} /\ Behind(h, k) \in A(k - 1) BY <2>2, AheadFacts
  <2>4. Cardinality(A(k)) = Cardinality(A(k - 1)) - 1
    <3>1. PICK S : S = A(k - 1) OBVIOUS
    <3>2. IsFiniteSet(S) /\ Behind(h, k) \in S BY <1>3, <2>1, <2>3, <3>1
    <3>3. Cardinality(S \ {Behind(h, k)}) = Cardinality(S) - 1 BY <3>2, FS_RemoveElement
    <3> QED BY <2>3, <3>1, <3>3
  <2>5. Cardinality(A(k - 1)) <= n - (k - 1) /\ Cardinality(A(k - 1)) \in Nat BY <1>3, <1>5, <2>1
  <2> QED BY <1>1, <2>1, <2>4, <2>5
<1>6. n \in B
  <2>1. \A k \in 0..n : k \in B
    <3> HIDE DEF B
    <3> QED BY <1>1, <1>4, <1>5, StaysIn
  <2> QED BY <1>1, <2>1
<1>7. A(n) = {}
  <2>1. n \in 0..n BY <1>1
  <2>2. Cardinality(A(n)) = 0 BY <1>1, <1>3, <1>6, <2>1
  <2> QED BY <1>3, <2>1, <2>2, FS_EmptySet
<1>8. h.next[Behind(h, n)] \in A(n)
  <2>1. Behind(h, n) \in L BY <1>1
  <2> QED BY <2>1, AheadFacts
<1> QED BY <1>7, <1>8

(* There is always a block in front: the arena at least. *)
LEMMA FrontExists ==
    ASSUME NEW next, NEW L, Circle(next, L), NEW b \in Addr, b \notin L
    PROVE  \E cur \in L : InFront(L, cur, b)
<1> DEFINE S == {b - x : x \in {y \in L : y < b}}
<1>1. b \in Nat /\ b > 0 /\ arena \in L /\ arena = 0 /\ \A x \in L : x \in Nat
  BY CircleFacts DEF arena
<1>2. S \subseteq Nat /\ S # {}
  <2>1. b - arena \in S BY <1>1
  <2> QED BY <1>1, <2>1
<1>3. PICK m \in S : \A y \in S : m <= y BY <1>2, Least
<1>4. PICK cur \in L : cur < b /\ m = b - cur OBVIOUS
<1>5. ASSUME NEW x \in L, x < b PROVE x <= cur
  <2>1. b - x \in S BY <1>5
  <2>2. b - cur <= b - x BY <1>3, <1>4, <2>1
  <2> QED BY <1>1, <2>2
<1> QED BY <1>4, <1>5 DEF InFront

\* A block of the list: it is a circle, and the loops begin in it.
Ring(h, L) == L = FreeBlocks(h) /\ Circle(h.next, L) /\ h.slobfree \in L

(* slob_free puts a block behind the last one in front of it. *)
LEMMA ReinsertionFacts ==
    ASSUME NEW h, NEW L, Ring(h, L), NEW b \in Addr, b \notin L
    PROVE  InFront(L, ReinsertionPoint(h, b), b)
<1> DEFINE n == Cardinality(FreeBlocks(h))
           S == {i \in 0..n : FitsBehind(h.next, b, Behind(h, i))}
<1>1. /\ L = FreeBlocks(h) /\ Circle(h.next, L) /\ h.slobfree \in L
      /\ n \in Nat /\ \A k \in 0..n : Behind(h, k) \in L
  BY BehindFacts DEF Ring
<1>2. S # {}
  <2>1. PICK cur \in L : InFront(L, cur, b) BY <1>1, FrontExists
  <2>2. FitsBehind(h.next, b, cur) BY <1>1, <2>1, FitsMeans
  <2>3. PICK k \in 1..n : Behind(h, k) = cur BY <1>1, EachIsMet
  <2> QED BY <1>1, <2>2, <2>3
<1>3. Min(S) \in S BY <1>2, MinIsLeast
<1>4. ReinsertionPoint(h, b) = Behind(h, Min(S)) BY DEF ReinsertionPoint, FitsBehind
<1>5. Behind(h, Min(S)) \in L /\ FitsBehind(h.next, b, Behind(h, Min(S))) BY <1>1, <1>3
<1> QED BY <1>1, <1>4, <1>5, FitsMeans

(* The search stops at a block with enough room, if there is one. *)
LEMMA SearchFacts ==
    ASSUME NEW h, NEW L, Ring(h, L), NEW units, NEW k, k = Search(h, units)
    PROVE  /\ k # 0 => /\ Behind(h, k - 1) \in L /\ Behind(h, k) \in L
                       /\ Behind(h, k) = h.next[Behind(h, k - 1)]
                       /\ h.units[Behind(h, k)] >= units
           /\ (\E c \in L : h.units[c] >= units) => k # 0
<1> DEFINE n == Cardinality(FreeBlocks(h))
           S == {i \in 1..n : h.units[Behind(h, i)] >= units}
<1>1. /\ L = FreeBlocks(h) /\ Circle(h.next, L) /\ h.slobfree \in L
      /\ n \in Nat /\ \A i \in 0..n : Behind(h, i) \in L
      /\ \A i \in 1..n : Behind(h, i) = h.next[Behind(h, i - 1)]
  BY BehindFacts DEF Ring
<1>2. k = IF S = {} THEN 0 ELSE Min(S) BY DEF Search
<1>3. ASSUME k # 0 PROVE k \in S BY <1>2, <1>3, MinIsLeast
<1>4. ASSUME k # 0
      PROVE  /\ Behind(h, k - 1) \in L /\ Behind(h, k) \in L
             /\ Behind(h, k) = h.next[Behind(h, k - 1)]
             /\ h.units[Behind(h, k)] >= units
  <2>1. k \in 1..n /\ k - 1 \in 0..n /\ k \in 0..n BY <1>1, <1>3, <1>4
  <2> QED BY <1>1, <1>3, <1>4, <2>1
<1>5. ASSUME NEW c \in L, h.units[c] >= units PROVE k # 0
  <2>1. PICK i \in 1..n : Behind(h, i) = c BY <1>1, EachIsMet
  <2>2. S # {} /\ S \subseteq Nat BY <1>1, <1>5, <2>1
  <2>3. Min(S) \in S BY <2>2, MinIsLeast
  <2> QED BY <1>1, <1>2, <2>2, <2>3
<1> QED BY <1>4, <1>5

-----------------------------------------------------------------------------
\* The blocks B, with their units, lie side by side and fill U.
Tiles(B, units, U) ==
    /\ units \in [Addr -> Nat] /\ B \subseteq Addr /\ U \subseteq Addr
    /\ \A b \in B : units[b] >= 1 /\ b..(b + units[b] - 1) \subseteq U
    /\ \A b, c \in B : b < c => b + units[b] <= c
    /\ \A u \in U : \E b \in B : b <= u /\ u < b + units[b]

\* A block is put among them, taken out, joined to the one behind it, split.
LEMMA TilesFacts ==
    ASSUME NEW B, NEW units, NEW U, Tiles(B, units, U)
    PROVE  /\ units \in [Addr -> Nat] /\ B \subseteq Addr /\ U \subseteq Addr
           /\ \A b \in B : /\ b \in Nat /\ units[b] \in Nat /\ units[b] >= 1 /\ b \in U
                           /\ b + units[b] - 1 \in U
           /\ \A u \in U : u \in Nat
           /\ \A b \in Addr : b \in Nat
<1>1. units \in [Addr -> Nat] /\ B \subseteq Addr /\ U \subseteq Addr BY DEF Tiles
<1>2. \A b \in Addr : b \in Nat BY PageNumbers
<1>3. ASSUME NEW b \in B PROVE units[b] \in Nat /\ units[b] >= 1 /\ b \in U /\ b + units[b] - 1 \in U
  <2>1. units[b] \in Nat /\ units[b] >= 1 /\ b..(b + units[b] - 1) \subseteq U /\ b \in Nat
    BY <1>1, <1>2 DEF Tiles
  <2> QED BY <2>1
<1> QED BY <1>1, <1>2, <1>3

(* A block is put among them. *)
LEMMA TilesIn ==
    ASSUME NEW B, NEW units, NEW U, Tiles(B, units, U), NEW b \in Addr, NEW n \in Nat, n >= 1,
           b..(b + n - 1) \subseteq Addr, b..(b + n - 1) \cap U = {}
    PROVE  /\ Tiles(B \cup {b}, [units EXCEPT ![b] = n], U \cup b..(b + n - 1))
           /\ b \notin B
<1> DEFINE new == [units EXCEPT ![b] = n]
<1>1. /\ units \in [Addr -> Nat] /\ B \subseteq Addr /\ U \subseteq Addr
      /\ \A c \in B : /\ c \in Nat /\ units[c] \in Nat /\ units[c] >= 1 /\ c \in U
                      /\ c + units[c] - 1 \in U
      /\ \A u \in U : u \in Nat
      /\ b \in Nat
  BY TilesFacts
<1>2. b \in b..(b + n - 1) /\ b \notin U /\ b \notin B BY <1>1
<1>3. new \in [Addr -> Nat] /\ new[b] = n /\ \A c \in B : new[c] = units[c] BY <1>1, <1>2
<1>4. ASSUME NEW c \in B, c < b PROVE c + units[c] <= b
  <2>1. b \notin c..(c + units[c] - 1) BY <1>2 DEF Tiles
  <2> QED BY <1>1, <1>4, <2>1
<1>5. ASSUME NEW c \in B, b < c PROVE b + n <= c
  <2>1. c \notin b..(b + n - 1) BY <1>1
  <2> QED BY <1>1, <1>5, <2>1
<1>6. \A c, d \in B \cup {b} : c < d => c + new[c] <= d BY <1>1, <1>3, <1>4, <1>5 DEF Tiles
<1>7. \A c \in B \cup {b} : new[c] >= 1 /\ c..(c + new[c] - 1) \subseteq U \cup b..(b + n - 1)
  BY <1>1, <1>3 DEF Tiles
<1>8. \A u \in U \cup b..(b + n - 1) : \E c \in B \cup {b} : c <= u /\ u < c + new[c]
  <2>1. ASSUME NEW u \in U PROVE \E c \in B : c <= u /\ u < c + new[c] BY <1>3 DEF Tiles
  <2>2. ASSUME NEW u \in b..(b + n - 1) PROVE b <= u /\ u < b + new[b] BY <1>1, <1>3
  <2> QED BY <2>1, <2>2
<1> QED BY <1>1, <1>2, <1>3, <1>6, <1>7, <1>8 DEF Tiles

(* A block is taken out. *)
LEMMA TilesOut ==
    ASSUME NEW B, NEW units, NEW U, Tiles(B, units, U), NEW b \in B
    PROVE  /\ Tiles(B \ {b}, units, U \ (b..(b + units[b] - 1)))
           /\ b..(b + units[b] - 1) \subseteq Addr /\ b..(b + units[b] - 1) \subseteq U
<1> DEFINE V == U \ (b..(b + units[b] - 1))
<1>1. /\ units \in [Addr -> Nat] /\ B \subseteq Addr /\ U \subseteq Addr
      /\ \A c \in B : c \in Nat /\ units[c] \in Nat /\ units[c] >= 1
      /\ b \in Nat
  BY TilesFacts
<1>2. ASSUME NEW c \in B \ {b} PROVE units[c] >= 1 /\ c..(c + units[c] - 1) \subseteq V
  <2>1. c < b \/ b < c BY <1>1
  <2>2. (c < b => c + units[c] <= b) /\ (b < c => b + units[b] <= c) BY <1>2 DEF Tiles
  <2>3. c..(c + units[c] - 1) \subseteq U BY <1>2 DEF Tiles
  <2>4. c..(c + units[c] - 1) \cap b..(b + units[b] - 1) = {} BY <1>1, <2>1, <2>2
  <2> QED BY <1>1, <2>3, <2>4
<1>3. \A c, d \in B \ {b} : c < d => c + units[c] <= d BY DEF Tiles
<1>4. ASSUME NEW u \in V PROVE \E c \in B \ {b} : c <= u /\ u < c + units[c]
  <2>1. PICK c \in B : c <= u /\ u < c + units[c] BY DEF Tiles
  <2>2. u \in Nat BY <1>1, TilesFacts
  <2>3. c # b BY <1>1, <2>1, <2>2
  <2> QED BY <2>1, <2>3
<1>5. b..(b + units[b] - 1) \subseteq U BY DEF Tiles
<1> QED BY <1>1, <1>2, <1>3, <1>4, <1>5 DEF Tiles

Joined(units, b, c) == [units EXCEPT ![b] = units[b] + units[c], ![c] = 0]

(* Two blocks that touch become one. *)
LEMMA TilesJoin ==
    ASSUME NEW B, NEW units, NEW U, Tiles(B, units, U), NEW b \in B, NEW c \in B, b + units[b] = c
    PROVE  Tiles(B \ {c}, Joined(units, b, c), U)
<1> DEFINE new == Joined(units, b, c)
<1>1. /\ units \in [Addr -> Nat] /\ B \subseteq Addr /\ U \subseteq Addr
      /\ \A d \in B : d \in Nat /\ units[d] \in Nat /\ units[d] >= 1
      /\ \A u \in U : u \in Nat
      /\ b < c /\ b # c
  BY TilesFacts
<1>2. /\ new \in [Addr -> Nat] /\ new[b] = units[b] + units[c]
      /\ \A d \in B : d # b /\ d # c => new[d] = units[d]
  BY <1>1 DEF Joined
<1>3. \A d \in B \ {c} : new[d] >= 1 /\ d..(d + new[d] - 1) \subseteq U
  <2> TAKE d \in B \ {c}
  <2>1. CASE d # b BY <1>2, <2>1 DEF Tiles
  <2>2. CASE d = b
    <3>1. ASSUME NEW u \in b..(b + new[b] - 1) PROVE u \in U
      <4>1. u \in b..(b + units[b] - 1) \/ u \in c..(c + units[c] - 1) BY <1>1, <1>2
      <4> QED BY <4>1 DEF Tiles
    <3>2. new[b] >= 1 BY <1>1, <1>2
    <3> QED BY <2>2, <3>1, <3>2
  <2> QED BY <2>1, <2>2
<1>4. ASSUME NEW d \in B \ {c}, NEW e \in B \ {c}, d < e PROVE d + new[d] <= e
  <2>1. d + units[d] <= e BY <1>4 DEF Tiles
  <2>2. CASE d # b BY <1>2, <2>1, <2>2
  <2>3. CASE d = b
    <3>1. c < e BY <1>1, <1>4, <2>1, <2>3
    <3>2. c + units[c] <= e BY <3>1 DEF Tiles
    <3> QED BY <1>1, <1>2, <2>3, <3>2
  <2> QED BY <2>2, <2>3
<1>5. ASSUME NEW u \in U PROVE \E d \in B \ {c} : d <= u /\ u < d + new[d]
  <2>1. PICK d \in B : d <= u /\ u < d + units[d] BY DEF Tiles
  <2>2. CASE d = b \/ d = c
    <3>1. b <= u /\ u < b + new[b] BY <1>1, <1>2, <2>1, <2>2
    <3> QED BY <1>1, <3>1
  <2>3. CASE d # b /\ d # c BY <1>2, <2>1, <2>3
  <2> QED BY <2>2, <2>3
<1> QED BY <1>1, <1>2, <1>3, <1>4, <1>5 DEF Tiles

SplitAt(units, b, n) == [units EXCEPT ![b + n] = units[b] - n, ![b] = n]

(* A block is split. *)
LEMMA TilesSplit ==
    ASSUME NEW B, NEW units, NEW U, Tiles(B, units, U), NEW b \in B, NEW n \in Nat, n >= 1, n < units[b]
    PROVE  /\ Tiles(B \cup {b + n}, SplitAt(units, b, n), U)
           /\ b + n \in Addr /\ b + n \notin B
<1> DEFINE new == SplitAt(units, b, n)
           r == b + n
<1>1. /\ units \in [Addr -> Nat] /\ B \subseteq Addr /\ U \subseteq Addr
      /\ \A d \in B : d \in Nat /\ units[d] \in Nat /\ units[d] >= 1
      /\ \A u \in U : u \in Nat
      /\ r \in Nat /\ b < r /\ r < b + units[b]
  BY TilesFacts
<1>2. r \in Addr
  <2>1. r \in b..(b + units[b] - 1) BY <1>1
  <2> QED BY <1>1, <2>1 DEF Tiles
<1>3. r \notin B BY <1>1 DEF Tiles
<1>4. /\ new \in [Addr -> Nat] /\ new[b] = n /\ new[r] = units[b] - n
      /\ \A d \in B : d # b => new[d] = units[d]
  BY <1>1, <1>2, <1>3 DEF SplitAt
<1>5. \A d \in B \cup {r} : new[d] >= 1 /\ d..(d + new[d] - 1) \subseteq U
  <2> TAKE d \in B \cup {r}
  <2>1. CASE d \in B /\ d # b BY <1>4, <2>1 DEF Tiles
  <2>2. CASE d = b \/ d = r
    <3>1. d..(d + new[d] - 1) \subseteq b..(b + units[b] - 1) /\ new[d] >= 1 BY <1>1, <1>4, <2>2
    <3> QED BY <3>1 DEF Tiles
  <2> QED BY <2>1, <2>2
<1>6. ASSUME NEW d \in B \cup {r}, NEW e \in B \cup {r}, d < e PROVE d + new[d] <= e
  <2>1. CASE d \in B /\ d # b /\ e \in B BY <1>4, <1>6, <2>1 DEF Tiles
  <2>2. CASE d = b /\ e \in B
    <3>1. b + units[b] <= e BY <1>6, <2>2 DEF Tiles
    <3> QED BY <1>1, <1>4, <2>2, <3>1
  <2>3. CASE d = b /\ e = r BY <1>4, <2>3
  <2>4. CASE d \in B /\ d # b /\ e = r
    <3>1. d < b
      <4>1. CASE b < d
        <5>1. b + units[b] <= d BY <2>4, <4>1 DEF Tiles
        <5> QED BY <1>1, <1>6, <2>4, <5>1
      <4> QED BY <1>1, <2>4, <4>1
    <3>2. d + units[d] <= b BY <2>4, <3>1 DEF Tiles
    <3> QED BY <1>1, <1>4, <2>4, <3>2
  <2>5. CASE d = r /\ e \in B
    <3>1. b < e BY <1>1, <1>6, <2>5
    <3>2. b + units[b] <= e BY <2>5, <3>1 DEF Tiles
    <3> QED BY <1>1, <1>4, <2>5, <3>2
  <2> QED BY <1>1, <1>6, <2>1, <2>2, <2>3, <2>4, <2>5
<1>7. ASSUME NEW u \in U PROVE \E d \in B \cup {r} : d <= u /\ u < d + new[d]
  <2>1. PICK d \in B : d <= u /\ u < d + units[d] BY DEF Tiles
  <2>2. CASE d = b
    <3>1. CASE u < r BY <1>1, <1>4, <2>1, <2>2, <3>1
    <3>2. CASE u >= r BY <1>1, <1>4, <2>1, <2>2, <3>2
    <3> QED BY <1>1, <3>1, <3>2
  <2>3. CASE d # b BY <1>4, <2>1, <2>3
  <2> QED BY <2>2, <2>3
<1> QED BY <1>1, <1>2, <1>3, <1>4, <1>5, <1>6, <1>7 DEF Tiles

HeapType == [next : [Addr -> Addr \cup {NONE}], units : [Addr -> Nat], slobfree : Addr]

\* No listed block ends where the next one begins.
Apart(next, L, units) == \A b \in L : b + units[b] # next[b]
Arranged(next, units, L, C, U) ==
    /\ Circle(next, L) /\ Tiles(L \cup C, units, U) /\ L \cap C = {}
    /\ Apart(next, L, units) /\ units[arena] = 1 /\ 1 \notin U
Clear(units, B) == \A x \in Addr : x \notin B => units[x] = 0

\* A heap with the listed blocks L and the callers' C that fill U; b is a
\* block of neither, or NONE.
HeapOK(h, L, C, U, b) ==
    /\ h \in HeapType /\ Ring(h, L)
    /\ Arranged(h.next, h.units, L, C, U)
    /\ Clear(h.units, L \cup C \cup {b})

(* The first join of slob_free, field by field. *)
LEMMA JoinUpperFields ==
    ASSUME NEW h \in HeapType, NEW cur \in Addr, NEW b \in Addr, NEW n \in Nat, NEW up, up = h.next[cur],
           up \in Addr, h.next[up] \in Addr, up # b, cur # b, b + n = up => up # cur,
           NEW g, g = JoinUpper(h, cur, b, n), NEW w, w = h.units[up]
    PROVE  /\ g \in HeapType
           /\ g.next[cur] = up /\ \A x \in Addr : x # cur /\ x # b /\ x # up => g.next[x] = h.next[x]
           /\ \A x \in Addr : x # b /\ x # up => g.units[x] = h.units[x]
           /\ b + n = up => g.next[b] = h.next[up] /\ g.next[up] = NONE /\ g.units[b] = n + w /\ g.units[up] = 0
           /\ b + n # up => g.next[b] = up /\ g.next[up] = h.next[up] /\ g.units[b] = n /\ g.units[up] = w
<1>1. h.next \in [Addr -> Addr \cup {NONE}] /\ h.units \in [Addr -> Nat] /\ h.slobfree \in Addr
  BY DEF HeapType
<1>2. PICK nx, us : nx = h.next /\ us = h.units OBVIOUS
<1>3. h = [next |-> nx, units |-> us, slobfree |-> h.slobfree] BY <1>2 DEF HeapType
<1>4. CASE b + n = up
  <2>1. /\ g.next = [nx EXCEPT ![b] = nx[up], ![up] = NONE]
        /\ g.units = [us EXCEPT ![b] = n + us[up], ![up] = 0]
        /\ g.slobfree = h.slobfree
        /\ g = [next |-> g.next, units |-> g.units, slobfree |-> g.slobfree]
    BY <1>2, <1>3, <1>4 DEF JoinUpper
  <2>2. g.next \in [Addr -> Addr \cup {NONE}] /\ g.units \in [Addr -> Nat] /\ g.slobfree \in Addr
    BY <1>1, <1>2, <2>1
  <2>3. g \in HeapType BY <2>1, <2>2 DEF HeapType
  <2> QED BY <1>1, <1>2, <1>4, <2>1, <2>3
<1>5. CASE b + n # up
  <2>1. /\ g.next = [nx EXCEPT ![b] = up] /\ g.units = [us EXCEPT ![b] = n] /\ g.slobfree = h.slobfree
        /\ g = [next |-> g.next, units |-> g.units, slobfree |-> g.slobfree]
    BY <1>2, <1>3, <1>5 DEF JoinUpper
  <2>2. g.next \in [Addr -> Addr \cup {NONE}] /\ g.units \in [Addr -> Nat] /\ g.slobfree \in Addr
    BY <1>1, <1>2, <2>1
  <2>3. g \in HeapType BY <2>1, <2>2 DEF HeapType
  <2> QED BY <1>1, <1>2, <1>5, <2>1, <2>3
<1> QED BY <1>4, <1>5

Lowered(g, cur, b) == [JoinLower(g, cur, b) EXCEPT !.slobfree = cur]

(* The second one, and slobfree. *)
LEMMA JoinLowerFields ==
    ASSUME NEW g \in HeapType, NEW cur \in Addr, NEW b \in Addr, b # cur,
           NEW r, r = Lowered(g, cur, b), NEW w, w = g.units[cur], NEW v, v = g.units[b]
    PROVE  /\ r \in HeapType
           /\ r.slobfree = cur
           /\ \A x \in Addr : x # cur /\ x # b => r.next[x] = g.next[x] /\ r.units[x] = g.units[x]
           /\ cur + w = b => r.next[cur] = g.next[b] /\ r.next[b] = NONE /\ r.units[cur] = w + v /\ r.units[b] = 0
           /\ cur + w # b => r.next[cur] = b /\ r.next[b] = g.next[b] /\ r.units[cur] = w /\ r.units[b] = v
<1>2. PICK nx, us : nx = g.next /\ us = g.units OBVIOUS
<1>1. nx \in [Addr -> Addr \cup {NONE}] /\ us \in [Addr -> Nat] /\ g.slobfree \in Addr
  BY <1>2 DEF HeapType
<1>3. g = [next |-> nx, units |-> us, slobfree |-> g.slobfree] BY <1>2 DEF HeapType
<1>4. CASE cur + w = b
  <2>1. /\ r.next = [nx EXCEPT ![cur] = nx[b], ![b] = NONE]
        /\ r.units = [us EXCEPT ![cur] = us[cur] + us[b], ![b] = 0]
        /\ r.slobfree = cur
        /\ r = [next |-> r.next, units |-> r.units, slobfree |-> r.slobfree]
    BY <1>1, <1>2, <1>3, <1>4 DEF JoinLower, Lowered
  <2>2. r.next \in [Addr -> Addr \cup {NONE}] /\ r.units \in [Addr -> Nat] /\ r.slobfree \in Addr
    BY <1>1, <1>2, <2>1
  <2>3. r \in HeapType BY <2>1, <2>2 DEF HeapType
  <2> QED BY <1>1, <1>2, <1>4, <2>1, <2>3
<1>5. CASE cur + w # b
  <2>1. /\ r.next = [nx EXCEPT ![cur] = b] /\ r.units = us /\ r.slobfree = cur
        /\ r = [next |-> r.next, units |-> r.units, slobfree |-> r.slobfree]
    BY <1>2, <1>3, <1>5 DEF JoinLower, Lowered
  <2>2. r.next \in [Addr -> Addr \cup {NONE}] /\ r.units \in [Addr -> Nat] /\ r.slobfree \in Addr
    BY <1>1, <1>2, <2>1
  <2>3. r \in HeapType BY <2>1, <2>2 DEF HeapType
  <2> QED BY <1>1, <1>2, <1>5, <2>1, <2>3
<1> QED BY <1>4, <1>5

ApartBut(next, L, units, S) == \A x \in L : x \notin S => x + units[x] # next[x]
\* The blocks before all joins are made.
Loose(next, units, L, C, U, S) ==
    /\ Circle(next, L) /\ Tiles(L \cup C, units, U) /\ L \cap C = {} /\ ApartBut(next, L, units, S)

(* Two listed blocks that touch are joined. *)
LEMMA JoinBehind ==
    ASSUME NEW nx, NEW us, NEW L, NEW C, NEW U, NEW S, NEW a, Loose(nx, us, L, C, U, S \cup {a}),
           a \in L, NEW c, c = nx[a], a + us[a] = c, c \notin S \cup {a}
    PROVE  /\ Loose(LinkedOut(nx, a, c), Joined(us, a, c), L \ {c}, C, U, S)
           /\ c \in L /\ c # arena /\ a < c
<1> DEFINE nx2 == LinkedOut(nx, a, c)
           us2 == Joined(us, a, c)
           B == L \cup C
<1>1. Circle(nx, L) /\ Tiles(B, us, U) /\ L \cap C = {} BY DEF Loose
<1>2. /\ L \subseteq Addr /\ c \in L /\ a \in Nat /\ c \in Nat /\ us[a] \in Nat /\ us[a] >= 1 /\ us[c] \in Nat
      /\ nx \in [Addr -> Addr \cup {NONE}] /\ us \in [Addr -> Nat] /\ a \in Addr /\ c \in Addr
  BY <1>1, CircleFacts, TilesFacts
<1>3. c # arena /\ a < c BY <1>2 DEF arena
<1>4. Circle(nx2, L \ {c}) BY <1>1, <1>3, CircleOut
<1>5. Tiles((L \ {c}) \cup C, us2, U)
  <2>1. Tiles(B \ {c}, us2, U) BY <1>1, <1>2, TilesJoin
  <2>2. B \ {c} = (L \ {c}) \cup C BY <1>1, <1>2
  <2> QED BY <2>1, <2>2
<1>6. ASSUME NEW x \in L \ {c}, x \notin S PROVE x + us2[x] # nx2[x]
  <2>1. CASE x = a
    <3>1. nx2[a] = nx[c] /\ us2[a] = us[a] + us[c] BY <1>2, <1>3 DEF LinkedOut, Joined
    <3>2. c + us[c] # nx[c] BY <1>2 DEF Loose, ApartBut
    <3> QED BY <1>2, <2>1, <3>1, <3>2
  <2>2. CASE x # a
    <3>1. nx2[x] = nx[x] /\ us2[x] = us[x] BY <1>2, <1>6, <2>2 DEF LinkedOut, Joined
    <3> QED BY <1>6, <2>2, <3>1 DEF Loose, ApartBut
  <2> QED BY <2>1, <2>2
<1>7. (L \ {c}) \cap C = {} BY <1>1
<1>8. ApartBut(nx2, L \ {c}, us2, S) BY <1>6 DEF ApartBut
<1> QED BY <1>2, <1>3, <1>4, <1>5, <1>7, <1>8 DEF Loose

\* What slob_free makes of the two fields: b is linked, joined to the block
\* behind it and to the one in front.
NextIn(next, cur, b, n, up) ==
    IF b + n = up THEN LinkedOut(LinkedIn(next, cur, b), b, up) ELSE LinkedIn(next, cur, b)
UnitsIn(units, b, n, up) ==
    IF b + n = up THEN Joined([units EXCEPT ![b] = n], b, up) ELSE [units EXCEPT ![b] = n]
ListedIn(L, b, n, up) == IF b + n = up THEN (L \cup {b}) \ {up} ELSE L \cup {b}
Touches(units, cur, b) == cur + units[cur] = b

Block(b, n) == b..(b + n - 1)
\* A block that can be put into the heap.
Puttable(b, n, B, U) ==
    /\ b \in Addr /\ b >= 2 /\ b \notin B /\ n \in Nat /\ n >= 1
    /\ Block(b, n) \subseteq Addr /\ Block(b, n) \cap U = {}

\* It is in the list, joined to the block behind it.
HalfFreed(next, units, L, C, V, b, n, cur, up) ==
    /\ Loose(NextIn(next, cur, b, n, up), UnitsIn(units, b, n, up), ListedIn(L, b, n, up), C, V, {cur})
    /\ cur \in ListedIn(L, b, n, up) /\ b \in ListedIn(L, b, n, up) /\ up \in L /\ up # b /\ cur # b
    /\ b + n = up => up # cur
    /\ NextIn(next, cur, b, n, up)[cur] = b /\ UnitsIn(units, b, n, up)[cur] = units[cur]

(* slob_free up to the first join. *)
LEMMA FirstHalf ==
    ASSUME NEW next, NEW units, NEW L, NEW C, NEW U, Arranged(next, units, L, C, U),
           NEW b, NEW n, Puttable(b, n, L \cup C, U),
           NEW cur, InFront(L, cur, b), NEW up, up = next[cur], NEW V, V = U \cup Block(b, n)
    PROVE  HalfFreed(next, units, L, C, V, b, n, cur, up)
<1> DEFINE nx == LinkedIn(next, cur, b)
           us == [units EXCEPT ![b] = n]
           M == L \cup {b}
<1>0. /\ b \in Addr /\ b >= 2 /\ b \notin L \cup C /\ n \in Nat /\ n >= 1
      /\ b..(b + n - 1) \subseteq Addr /\ b..(b + n - 1) \cap U = {} /\ V = U \cup b..(b + n - 1)
  BY DEF Puttable, Block
<1>1. Circle(next, L) /\ Tiles(L \cup C, units, U) /\ L \cap C = {} /\ Apart(next, L, units)
  BY DEF Arranged
<1>2. /\ L \subseteq Addr /\ cur \in L /\ cur \in Addr /\ cur \in Nat /\ b \in Nat /\ up \in L /\ up \in Addr /\ up \in Nat
      /\ next \in [Addr -> Addr \cup {NONE}] /\ units \in [Addr -> Nat] /\ cur < b /\ arena = 0 /\ up # b
  BY <1>0, <1>1, CircleFacts, TilesFacts, PageNumbers DEF InFront, arena
<1>3. Circle(nx, M) BY <1>0, <1>1, <1>2, CircleIn
<1>4. Tiles(M \cup C, us, V)
  <2>0. Tiles((L \cup C) \cup {b}, us, U \cup b..(b + n - 1)) BY <1>0, <1>1, TilesIn
  <2>1. Tiles((L \cup C) \cup {b}, us, V) BY <1>0, <2>0
  <2>2. (L \cup C) \cup {b} = M \cup C OBVIOUS
  <2> QED BY <2>1, <2>2
<1>5. /\ nx[b] = up /\ nx[cur] = b /\ us[b] = n /\ us[cur] = units[cur]
      /\ \A x \in L : x # cur => nx[x] = next[x] /\ us[x] = units[x]
  BY <1>0, <1>2 DEF LinkedIn
<1>6. ApartBut(nx, M, us, {cur} \cup {b}) BY <1>1, <1>5 DEF ApartBut, Apart
<1>7. Loose(nx, us, M, C, V, {cur} \cup {b}) BY <1>0, <1>1, <1>3, <1>4, <1>6 DEF Loose
<1>8. CASE b + n = up
  <2>1. up # cur /\ up # b BY <1>0, <1>2, <1>8
  <2>2. /\ Loose(LinkedOut(nx, b, up), Joined(us, b, up), M \ {up}, C, V, {cur})
    <3>1. b \in M /\ up = nx[b] /\ b + us[b] = up /\ up \notin {cur} \cup {b} BY <1>5, <1>8, <2>1
    <3> HIDE DEF nx, us, M
    <3> QED BY <1>7, <3>1, JoinBehind
  <2>3. NextIn(next, cur, b, n, up)[cur] = b /\ UnitsIn(units, b, n, up)[cur] = units[cur]
    <3>1. LinkedOut(nx, b, up)[cur] = nx[cur] /\ Joined(us, b, up)[cur] = us[cur]
      <4>1. nx \in [Addr -> Addr \cup {NONE}] /\ us \in [Addr -> Nat]
        <5> HIDE DEF nx, us, M
        <5> QED BY <1>3, <1>4, CircleFacts, TilesFacts
      <4> HIDE DEF nx, us
      <4> QED BY <1>2, <2>1, <4>1 DEF LinkedOut, Joined
    <3> QED BY <1>5, <1>8, <3>1 DEF NextIn, UnitsIn
  <2> QED BY <1>2, <1>8, <2>1, <2>2, <2>3 DEF NextIn, UnitsIn, ListedIn, HalfFreed
<1>9. CASE b + n # up
  <2>1. ApartBut(nx, M, us, {cur}) BY <1>2, <1>5, <1>6, <1>9 DEF ApartBut
  <2>2. Loose(nx, us, M, C, V, {cur}) BY <1>7, <2>1 DEF Loose
  <2> QED BY <1>2, <1>5, <1>9, <2>2 DEF NextIn, UnitsIn, ListedIn, HalfFreed
<1> QED BY <1>8, <1>9

(* slob_free after the first join. *)
LEMMA SecondHalf ==
    ASSUME NEW nx, NEW us, NEW L, NEW C, NEW U, NEW cur, Loose(nx, us, L, C, U, {cur}), us[arena] = 1, 1 \notin U,
           cur \in L, NEW b, nx[cur] = b, b \in L, b \in Nat, b >= 2
    PROVE  IF Touches(us, cur, b)
           THEN Arranged(LinkedOut(nx, cur, b), Joined(us, cur, b), L \ {b}, C, U) /\ cur \in L \ {b}
           ELSE Arranged(nx, us, L, C, U)
<1>1. Circle(nx, L) /\ Tiles(L \cup C, us, U) /\ L \cap C = {} /\ ApartBut(nx, L, us, {cur})
  BY DEF Loose
<1>2. L \subseteq Addr /\ us \in [Addr -> Nat] /\ cur \in Nat /\ us[cur] \in Nat /\ arena \in L /\ us[cur] >= 1 /\ arena = 0
  BY <1>1, CircleFacts, TilesFacts DEF arena
<1>3. CASE cur + us[cur] = b
  <2>1. b \notin {} \cup {cur} BY <1>2, <1>3
  <2>2. Loose(nx, us, L, C, U, {} \cup {cur})
    <3>1. {} \cup {cur} = {cur} OBVIOUS
    <3> QED BY <3>1
  <2>3. Loose(LinkedOut(nx, cur, b), Joined(us, cur, b), L \ {b}, C, U, {})
    BY <1>3, <2>1, <2>2, JoinBehind
  <2>4. cur # arena BY <1>2, <1>3
  <2>5. Joined(us, cur, b)[arena] = 1 BY <1>2, <2>4 DEF Joined
  <2> QED BY <1>3, <2>1, <2>3, <2>5 DEF Loose, Arranged, Apart, ApartBut, Touches
<1>4. CASE cur + us[cur] # b BY <1>1, <1>4 DEF Arranged, Apart, ApartBut, Touches
<1> QED BY <1>3, <1>4 DEF Touches

(* What the two joins leave in the two fields. *)
LEMMA FreeFields ==
    ASSUME NEW h \in HeapType, NEW cur \in Addr, NEW b \in Addr, NEW n \in Nat, NEW up, up = h.next[cur],
           up \in Addr, h.next[up] \in Addr, up # b, cur # b, b + n = up => up # cur, cur = ReinsertionPoint(h, b),
           NEW r, r = slob_free(h, b, n),
           NEW nx, nx = NextIn(h.next, cur, b, n, up), NEW us, us = UnitsIn(h.units, b, n, up),
           nx[cur] = b, us[cur] = h.units[cur]
    PROVE  /\ r \in HeapType /\ r.slobfree = cur
           /\ Touches(us, cur, b) => r.next = LinkedOut(nx, cur, b) /\ r.units = Joined(us, cur, b)
           /\ ~Touches(us, cur, b) => r.next = nx /\ r.units = us
<1>1. PICK g : g = JoinUpper(h, cur, b, n) OBVIOUS
<1>2. PICK w : w = h.units[up] OBVIOUS
<1>4. /\ g \in HeapType
      /\ g.next[cur] = up /\ \A x \in Addr : x # cur /\ x # b /\ x # up => g.next[x] = h.next[x]
      /\ \A x \in Addr : x # b /\ x # up => g.units[x] = h.units[x]
      /\ b + n = up => g.next[b] = h.next[up] /\ g.next[up] = NONE /\ g.units[b] = n + w /\ g.units[up] = 0
      /\ b + n # up => g.next[b] = up /\ g.next[up] = h.next[up] /\ g.units[b] = n /\ g.units[up] = w
  BY <1>1, <1>2, JoinUpperFields
<1>5. h.next \in [Addr -> Addr \cup {NONE}] /\ h.units \in [Addr -> Nat] /\ w \in Nat
  BY <1>2 DEF HeapType
<1>6. /\ nx \in [Addr -> Addr \cup {NONE}] /\ \A x \in Addr : x # cur => nx[x] = g.next[x]
  <2>1. CASE b + n = up
    <3>1. PICK l : l = LinkedIn(h.next, cur, b) OBVIOUS
    <3>2. l \in [Addr -> Addr \cup {NONE}] /\ l[b] = up /\ l[cur] = b /\ \A x \in Addr : x # b /\ x # cur => l[x] = h.next[x]
      BY <1>5, <3>1 DEF LinkedIn
    <3>3. nx = LinkedOut(l, b, up) BY <2>1, <3>1 DEF NextIn
    <3> QED BY <1>4, <2>1, <3>2, <3>3 DEF LinkedOut
  <2>2. CASE b + n # up
    <3>1. nx = LinkedIn(h.next, cur, b) BY <2>2 DEF NextIn
    <3> QED BY <1>4, <1>5, <2>2, <3>1 DEF LinkedIn
  <2> QED BY <2>1, <2>2
<1>7. us = g.units
  <2>1. us \in [Addr -> Nat] BY <1>5 DEF UnitsIn, Joined
  <2>2. ASSUME NEW x \in Addr PROVE us[x] = g.units[x]
    <3>1. CASE b + n = up BY <1>2, <1>4, <1>5, <3>1 DEF UnitsIn, Joined
    <3>2. CASE b + n # up BY <1>2, <1>4, <1>5, <3>2 DEF UnitsIn
    <3> QED BY <3>1, <3>2
  <2>3. g.units \in [Addr -> Nat] BY <1>4 DEF HeapType
  <2> QED BY <2>1, <2>2, <2>3
<1>8. r = Lowered(g, cur, b) BY <1>1 DEF slob_free, Lowered
<1>9. PICK v : v = g.units[b] OBVIOUS
<1>10. /\ r \in HeapType
       /\ r.slobfree = cur
       /\ \A x \in Addr : x # cur /\ x # b => r.next[x] = g.next[x] /\ r.units[x] = g.units[x]
       /\ cur + us[cur] = b => r.next[cur] = g.next[b] /\ r.next[b] = NONE /\ r.units[cur] = us[cur] + v /\ r.units[b] = 0
       /\ cur + us[cur] # b => r.next[cur] = b /\ r.next[b] = g.next[b] /\ r.units[cur] = us[cur] /\ r.units[b] = v
  <2>1. g \in HeapType /\ us[cur] = g.units[cur] BY <1>4, <1>7
  <2> QED
    <3>1. PICK u : u = g.units[cur] OBVIOUS
    <3>2. /\ r \in HeapType
          /\ r.slobfree = cur
          /\ \A x \in Addr : x # cur /\ x # b => r.next[x] = g.next[x] /\ r.units[x] = g.units[x]
          /\ cur + u = b => r.next[cur] = g.next[b] /\ r.next[b] = NONE /\ r.units[cur] = u + v /\ r.units[b] = 0
          /\ cur + u # b => r.next[cur] = b /\ r.next[b] = g.next[b] /\ r.units[cur] = u /\ r.units[b] = v
      BY <1>8, <1>9, <2>1, <3>1, JoinLowerFields
    <3>3. u = us[cur] BY <2>1, <3>1
    <3> QED BY <3>2, <3>3
<1>12. r.next \in [Addr -> Addr \cup {NONE}] /\ r.units \in [Addr -> Nat] /\ us \in [Addr -> Nat]
  BY <1>4, <1>7, <1>10 DEF HeapType
<1>13. CASE cur + us[cur] = b
  <2>1. PICK lo : lo = LinkedOut(nx, cur, b) OBVIOUS
  <2>2. lo \in [Addr -> Addr \cup {NONE}] /\ lo[b] = NONE /\ lo[cur] = nx[b] /\ \A x \in Addr : x # b /\ x # cur => lo[x] = nx[x]
    BY <1>6, <2>1 DEF LinkedOut
  <2>3. ASSUME NEW x \in Addr PROVE r.next[x] = lo[x] BY <1>6, <1>10, <1>13, <2>2
  <2>4. r.next = lo BY <1>12, <2>2, <2>3
  <2>5. PICK j : j = Joined(us, cur, b) OBVIOUS
  <2>6. j \in [Addr -> Nat] /\ j[b] = 0 /\ j[cur] = us[cur] + us[b] /\ \A x \in Addr : x # b /\ x # cur => j[x] = us[x]
    BY <1>12, <2>5 DEF Joined
  <2>7. ASSUME NEW x \in Addr PROVE r.units[x] = j[x] BY <1>7, <1>9, <1>10, <1>13, <2>6
  <2>8. r.units = j BY <1>12, <2>6, <2>7
  <2> QED BY <1>10, <1>13, <2>1, <2>4, <2>5, <2>8 DEF Touches
<1>14. CASE cur + us[cur] # b
  <2>1. ASSUME NEW x \in Addr PROVE r.next[x] = nx[x] BY <1>6, <1>10, <1>14
  <2>2. r.next = nx BY <1>6, <1>12, <2>1
  <2>3. ASSUME NEW x \in Addr PROVE r.units[x] = us[x] BY <1>7, <1>9, <1>10, <1>14
  <2>4. r.units = us BY <1>12, <2>3
  <2> QED BY <1>10, <1>14, <2>2, <2>4 DEF Touches
<1> QED BY <1>13, <1>14

(* The circle holds exactly the blocks that have a successor. *)
LEMMA RingOf ==
    ASSUME NEW h \in HeapType, NEW L, Circle(h.next, L), h.slobfree \in L
    PROVE  Ring(h, L)
BY CircleFacts DEF Ring, FreeBlocks

\* A free block has room for n units, and the blocks in C are as they were.
Freed(r, h, C, V, n) ==
    /\ \E M : HeapOK(r, M, C, V, NONE) /\ \E c \in M : r.units[c] >= n
    /\ \A x \in C : r.units[x] = h.units[x]

(* slob_free: the block is in the list, alone or joined to its neighbours. *)
LEMMA FreeKeeps ==
    ASSUME NEW h, NEW L, NEW C, NEW U, NEW b, HeapOK(h, L, C, U, b), NEW n, Puttable(b, n, L \cup C, U),
           NEW r, r = slob_free(h, b, n), NEW V, V = U \cup Block(b, n)
    PROVE  Freed(r, h, C, V, n)
<1>1. /\ h \in HeapType /\ Ring(h, L) /\ Arranged(h.next, h.units, L, C, U) /\ Clear(h.units, L \cup C \cup {b})
      /\ Circle(h.next, L) /\ Tiles(L \cup C, h.units, U) /\ L \cap C = {} /\ h.units[arena] = 1 /\ 1 \notin U
  BY DEF HeapOK, Arranged
<1>2. /\ b \in Addr /\ b >= 2 /\ b \notin L \cup C /\ n \in Nat /\ n >= 1 /\ b \in Nat
      /\ b..(b + n - 1) \subseteq Addr /\ b..(b + n - 1) \cap U = {}
  BY PageNumbers DEF Puttable, Block
<1>3. PICK cur : cur = ReinsertionPoint(h, b) OBVIOUS
<1>4. PICK up : up = h.next[cur] OBVIOUS
<1>5. PICK nx : nx = NextIn(h.next, cur, b, n, up) OBVIOUS
<1>6. PICK us : us = UnitsIn(h.units, b, n, up) OBVIOUS
<1>7. PICK K : K = ListedIn(L, b, n, up) OBVIOUS
<1>8. V = U \cup b..(b + n - 1) BY DEF Block
<1>9. InFront(L, cur, b)
  <2>1. b \notin L BY <1>2
  <2> QED BY <1>1, <1>2, <1>3, <2>1, ReinsertionFacts
<1>10. /\ Loose(nx, us, K, C, V, {cur})
       /\ cur \in K /\ b \in K /\ up \in L /\ up # b /\ cur # b /\ (b + n = up => up # cur)
       /\ nx[cur] = b /\ us[cur] = h.units[cur]
  <2>1. PICK next : next = h.next OBVIOUS
  <2>2. PICK units : units = h.units OBVIOUS
  <2>3. Arranged(next, units, L, C, U) /\ up = next[cur] BY <1>1, <1>4, <2>1, <2>2
  <2>4. HalfFreed(next, units, L, C, V, b, n, cur, up)
    <3>1. V = U \cup Block(b, n) BY <1>8 DEF Block
    <3> QED BY <1>9, <2>3, <3>1, FirstHalf
  <2> QED BY <1>5, <1>6, <1>7, <2>1, <2>2, <2>4 DEF HalfFreed
<1>11. /\ cur \in L /\ L \subseteq Addr /\ cur \in Addr /\ up \in Addr /\ h.next[up] \in Addr /\ arena \in L
       /\ h.units \in [Addr -> Nat] /\ h.units[up] \in Nat /\ h.units[cur] \in Nat /\ cur \in Nat /\ up \in Nat
  BY <1>1, <1>9, <1>10, CircleFacts, TilesFacts DEF InFront
<1>12. /\ r \in HeapType /\ r.slobfree = cur
       /\ Touches(us, cur, b) => r.next = LinkedOut(nx, cur, b) /\ r.units = Joined(us, cur, b)
       /\ ~Touches(us, cur, b) => r.next = nx /\ r.units = us
  BY <1>1, <1>2, <1>3, <1>4, <1>5, <1>6, <1>10, <1>11, FreeFields
<1>13. us[arena] = 1 /\ 1 \notin V
  <2>1. arena # b /\ (b + n = up => arena # up) BY <1>2 DEF arena
  <2>2. us[arena] = 1 BY <1>1, <1>2, <1>6, <1>11, <2>1 DEF UnitsIn, Joined
  <2> QED BY <1>1, <1>2, <1>8, <2>2
<1>14. /\ Touches(us, cur, b) => Arranged(LinkedOut(nx, cur, b), Joined(us, cur, b), K \ {b}, C, V)
       /\ ~Touches(us, cur, b) => Arranged(nx, us, K, C, V)
  BY <1>2, <1>10, <1>13, SecondHalf
<1>15. PICK M : M = IF Touches(us, cur, b) THEN K \ {b} ELSE K OBVIOUS
<1>16. Arranged(r.next, r.units, M, C, V) /\ cur \in M BY <1>10, <1>12, <1>14, <1>15
<1>17. /\ us \in [Addr -> Nat] /\ us[b] >= n /\ us[b] \in Nat
       /\ b + n = up => us[up] = 0
       /\ \A x \in Addr : x # b /\ x # up => us[x] = h.units[x]
       /\ b + n # up => us[up] = h.units[up]
  BY <1>2, <1>6, <1>10, <1>11 DEF UnitsIn, Joined
<1>18. ASSUME NEW x \in Addr, x \notin M \cup C PROVE r.units[x] = 0
  <2>1. CASE x = b BY <1>10, <1>11, <1>12, <1>15, <1>17, <1>18, <2>1 DEF Joined
  <2>2. CASE x # b
    <3>1. x # cur /\ x \notin K BY <1>10, <1>15, <1>18, <2>2
    <3>2. r.units[x] = us[x] BY <1>12, <1>17, <2>2, <3>1 DEF Joined
    <3>3. us[x] = 0
      <4>1. CASE x = up /\ b + n = up BY <1>17, <4>1
      <4>2. CASE ~(x = up /\ b + n = up)
        <5>1. x \notin L \cup C \cup {b} BY <1>7, <1>18, <2>2, <3>1, <4>2 DEF ListedIn
        <5>2. h.units[x] = 0 BY <1>1, <1>18, <5>1 DEF Clear
        <5>3. us[x] = h.units[x] BY <1>17, <1>18, <2>2, <4>2
        <5> QED BY <5>2, <5>3
      <4> QED BY <4>1, <4>2
    <3> QED BY <3>2, <3>3
  <2> QED BY <2>1, <2>2
<1>19. HeapOK(r, M, C, V, NONE)
  <2>1. Ring(r, M)
    <3>1. Circle(r.next, M) BY <1>16 DEF Arranged
    <3> QED BY <1>12, <1>16, <3>1, RingOf
  <2>2. Clear(r.units, M \cup C \cup {NONE}) BY <1>18, PageNumbers DEF Clear
  <2> QED BY <1>12, <1>16, <2>1, <2>2 DEF HeapOK
<1>20. \E c \in M : r.units[c] >= n
  <2>1. CASE Touches(us, cur, b)
    <3>1. r.units[cur] = us[cur] + us[b] /\ us[cur] \in Nat
      BY <1>2, <1>10, <1>11, <1>12, <1>17, <2>1 DEF Joined
    <3>2. r.units[cur] >= n BY <1>2, <1>17, <3>1
    <3> QED BY <1>16, <3>2
  <2>2. CASE ~Touches(us, cur, b) BY <1>10, <1>12, <1>15, <1>17, <2>2
  <2> QED BY <2>1, <2>2
<1>21. ASSUME NEW x \in C PROVE r.units[x] = h.units[x]
  <2>1. x \in Addr /\ x # b /\ x # cur /\ x # up BY <1>1, <1>2, <1>10, <1>11, TilesFacts
  <2>2. us[x] = h.units[x] BY <1>17, <2>1
  <2>3. r.units[x] = us[x] BY <1>12, <1>17, <2>1 DEF Joined
  <2> QED BY <2>2, <2>3
<1> QED BY <1>19, <1>20, <1>21 DEF Freed

(* A block leaves the list as it is. *)
LEMMA WholeLeaves ==
    ASSUME NEW next, NEW units, NEW L, NEW C, NEW U, Arranged(next, units, L, C, U),
           NEW prev \in L, NEW cur, cur = next[prev], cur # arena
    PROVE  /\ Arranged(LinkedOut(next, prev, cur), units, L \ {cur}, C \cup {cur}, U)
           /\ prev # cur /\ cur \in L /\ InFront(L, prev, cur) /\ prev \in L \ {cur}
<1> DEFINE nx == LinkedOut(next, prev, cur)
           M == L \ {cur}
<1>1. Circle(next, L) /\ Tiles(L \cup C, units, U) /\ L \cap C = {} /\ Apart(next, L, units)
  BY DEF Arranged
<1>2. Circle(nx, M) /\ prev # cur /\ cur \in L /\ InFront(L, prev, cur) BY <1>1, CircleOut
<1>3. /\ L \subseteq Addr /\ next \in [Addr -> Addr \cup {NONE}] /\ units \in [Addr -> Nat] /\ arena = 0
      /\ \A x \in L : x \in Nat /\ units[x] \in Nat /\ units[x] >= 1 /\ next[x] \in Nat /\ next[x] \in L
      /\ cur \in Nat /\ prev \in Nat /\ prev < cur /\ arena \in L
  BY <1>1, <1>2, CircleFacts, TilesFacts DEF InFront, arena
<1>4. M \cup (C \cup {cur}) = L \cup C /\ M \cap (C \cup {cur}) = {} BY <1>1, <1>2
<1>5. ASSUME NEW x \in M PROVE x + units[x] # nx[x]
  <2>1. CASE x = prev
    <3>1. nx[x] = next[cur] BY <1>2, <1>3, <2>1 DEF LinkedOut
    <3>2. prev + units[prev] <= cur BY <1>1, <1>2, <1>3 DEF Tiles
    <3>3. next[cur] > cur \/ next[cur] = 0 BY <1>1, <1>2, <1>3 DEF Circle, IsNext
    <3> QED BY <1>3, <2>1, <3>1, <3>2, <3>3
  <2>2. CASE x # prev
    <3>1. nx[x] = next[x] BY <1>2, <1>3, <2>2 DEF LinkedOut
    <3> QED BY <1>1, <3>1 DEF Apart
  <2> QED BY <2>1, <2>2
<1>6. Arranged(nx, units, M, C \cup {cur}, U)
  <2>1. Tiles(M \cup (C \cup {cur}), units, U) BY <1>1, <1>4
  <2>2. units[arena] = 1 /\ 1 \notin U BY DEF Arranged
  <2>3. Apart(nx, M, units) BY <1>5 DEF Apart
  <2> HIDE DEF nx, M
  <2> QED BY <1>2, <1>4, <2>1, <2>2, <2>3 DEF Arranged
<1> QED BY <1>2, <1>6

(* Or without the surplus at its end, which stays in its place. *)
Parted(next, units, L, C, U, prev, cur, n, rest) ==
    /\ Arranged(LinkedIn(LinkedOut(next, prev, cur), prev, rest), SplitAt(units, cur, n),
                (L \ {cur}) \cup {rest}, C \cup {cur}, U)
    /\ rest \in Addr /\ rest \notin L \cup C

(* Cutting off the first units of a block leaves its rest in its place. *)
LEMMA PartLeaves ==
    ASSUME NEW next, NEW units, NEW L, NEW C, NEW U, Arranged(next, units, L, C, U),
           NEW prev \in L, NEW cur, cur = next[prev], cur # arena,
           NEW n \in Nat, n >= 1, n < units[cur], NEW rest, rest = cur + n
    PROVE  Parted(next, units, L, C, U, prev, cur, n, rest)
<1> DEFINE nx == LinkedOut(next, prev, cur)
           M == L \ {cur}
           lk == LinkedIn(nx, prev, rest)
           us == SplitAt(units, cur, n)
<1>1. /\ Circle(next, L) /\ Tiles(L \cup C, units, U) /\ L \cap C = {} /\ Apart(next, L, units)
      /\ units[arena] = 1 /\ 1 \notin U
  BY DEF Arranged
<1>2. /\ Arranged(nx, units, M, C \cup {cur}, U)
      /\ prev # cur /\ cur \in L /\ InFront(L, prev, cur) /\ prev \in M
  BY WholeLeaves
<1>3. Circle(nx, M) /\ Apart(nx, M, units) BY <1>2 DEF Arranged
<1>4. /\ L \subseteq Addr /\ next \in [Addr -> Addr \cup {NONE}] /\ units \in [Addr -> Nat] /\ arena = 0
      /\ \A x \in L : x \in Nat /\ units[x] \in Nat /\ units[x] >= 1 /\ next[x] \in Nat /\ next[x] \in L
      /\ cur \in Nat /\ prev \in Nat /\ prev < cur /\ arena \in L /\ \A x \in L : x < cur => x <= prev
  BY <1>1, <1>2, CircleFacts, TilesFacts DEF InFront, arena
<1>5. Tiles((L \cup C) \cup {rest}, us, U) /\ rest \in Addr /\ rest \notin L \cup C
  BY <1>1, <1>2, TilesSplit
<1>6. InFront(M, prev, rest)
  <2>1. ASSUME NEW x \in M, x < rest PROVE x <= prev
    <3>1. cur < x => cur + units[cur] <= x BY <1>1, <1>2 DEF Tiles
    <3>2. x < cur BY <1>4, <2>1, <3>1
    <3> QED BY <1>4, <3>2
  <2> QED BY <1>2, <1>4, <2>1 DEF InFront
<1>7. Circle(lk, M \cup {rest})
  <2>1. rest \notin M BY <1>5
  <2> HIDE DEF nx, M
  <2> QED BY <1>3, <1>5, <1>6, <2>1, CircleIn
<1>8. nx \in [Addr -> Addr \cup {NONE}] /\ nx[prev] = next[cur] /\ \A x \in L : x # prev /\ x # cur => nx[x] = next[x]
  BY <1>2, <1>4 DEF LinkedOut
<1>9. /\ lk[rest] = next[cur] /\ lk[prev] = rest /\ \A x \in L : x # prev /\ x # cur => lk[x] = next[x]
  <2> HIDE DEF nx
  <2> QED BY <1>2, <1>4, <1>5, <1>8 DEF LinkedIn
<1>10. /\ us[cur] = n /\ us[rest] = units[cur] - n /\ \A x \in L : x # cur => us[x] = units[x]
  BY <1>2, <1>4, <1>5 DEF SplitAt
<1>11. ASSUME NEW x \in M \cup {rest} PROVE x + us[x] # lk[x]
  <2>1. CASE x = prev
    <3>1. prev + units[prev] <= cur BY <1>1, <1>2, <1>4 DEF Tiles
    <3>2. us[x] = units[prev] /\ lk[x] = rest /\ units[prev] \in Nat
      BY <1>2, <1>4, <1>9, <1>10, <2>1
    <3> HIDE DEF us, lk
    <3> QED BY <1>4, <2>1, <3>1, <3>2
  <2>2. CASE x = rest
    <3>1. cur + units[cur] # next[cur] BY <1>1, <1>2 DEF Apart
    <3>2. us[x] = units[cur] - n /\ lk[x] = next[cur] /\ units[cur] \in Nat
      BY <1>2, <1>4, <1>9, <1>10, <2>2
    <3> HIDE DEF us, lk
    <3> QED BY <1>4, <2>2, <3>1, <3>2
  <2>3. CASE x # prev /\ x # rest
    <3>1. x \in L /\ us[x] = units[x] /\ lk[x] = next[x] BY <1>9, <1>10, <2>3
    <3> QED BY <1>1, <3>1 DEF Apart
  <2> QED BY <2>1, <2>2, <2>3
<1>12. Arranged(lk, us, M \cup {rest}, C \cup {cur}, U)
  <2>1. (M \cup {rest}) \cup (C \cup {cur}) = (L \cup C) \cup {rest} /\ (M \cup {rest}) \cap (C \cup {cur}) = {}
    BY <1>1, <1>2, <1>4, <1>5
  <2>2. us[arena] = 1 BY <1>1, <1>4, <1>10
  <2>3. Apart(lk, M \cup {rest}, us) BY <1>11 DEF Apart
  <2> HIDE DEF lk, us, M
  <2>4. Tiles((M \cup {rest}) \cup (C \cup {cur}), us, U) BY <1>5, <2>1
  <2> QED BY <1>1, <1>7, <2>1, <2>2, <2>3, <2>4 DEF Arranged
<1> QED BY <1>5, <1>12 DEF Parted

TakenAt(h, k, units, prev, cur, u) ==
    /\ h \in HeapType /\ units \in Nat /\ prev = Behind(h, k - 1) /\ cur = Behind(h, k)
    /\ prev \in Addr /\ cur \in Addr /\ h.next[cur] \in Addr /\ prev # cur
    /\ u = h.units[cur] /\ u >= units /\ units >= 1
    /\ u # units => cur + units \in Addr /\ cur + units # prev

(* What slob_alloc does to the fields. *)
LEMMA TakeFields ==
    ASSUME NEW h, NEW units, NEW k, NEW prev, NEW cur, NEW u, TakenAt(h, k, units, prev, cur, u),
           NEW r, r = TakeUnits(h, k, units)
    PROVE  /\ r \in HeapType /\ r.slobfree = prev
           /\ u = units => r.next = LinkedOut(h.next, prev, cur) /\ r.units = h.units
           /\ u # units => /\ r.next = LinkedIn(LinkedOut(h.next, prev, cur), prev, cur + units)
                           /\ r.units = SplitAt(h.units, cur, units)
<1>0. /\ h \in HeapType /\ units \in Nat /\ prev = Behind(h, k - 1) /\ cur = Behind(h, k)
      /\ prev \in Addr /\ cur \in Addr /\ h.next[cur] \in Addr /\ prev # cur
      /\ u = h.units[cur] /\ u >= units /\ units >= 1
      /\ u # units => cur + units \in Addr /\ cur + units # prev
  BY DEF TakenAt
<1>1. PICK nx, us, rest : nx = h.next /\ us = h.units /\ rest = cur + units OBVIOUS
<1>2. nx \in [Addr -> Addr \cup {NONE}] /\ us \in [Addr -> Nat] /\ h.slobfree \in Addr /\ u \in Nat /\ u = us[cur]
  BY <1>0, <1>1 DEF HeapType
<1>3. h = [next |-> nx, units |-> us, slobfree |-> h.slobfree] BY <1>0, <1>1 DEF HeapType
<1>4. CASE u = units
  <2>1. /\ r.next = [nx EXCEPT ![cur] = NONE, ![prev] = nx[cur]]
        /\ r.units = us /\ r.slobfree = prev
        /\ r = [next |-> r.next, units |-> r.units, slobfree |-> r.slobfree]
    BY <1>0, <1>1, <1>2, <1>3, <1>4 DEF TakeUnits
  <2>2. r.next \in [Addr -> Addr \cup {NONE}] /\ r.units \in [Addr -> Nat] BY <1>0, <1>1, <1>2, <2>1
  <2>3. r \in HeapType BY <2>1, <2>2 DEF HeapType
  <2> QED BY <1>0, <1>1, <1>4, <2>1, <2>3 DEF LinkedOut
<1>5. CASE u # units
  <2>1. /\ r.next = [nx EXCEPT ![cur] = NONE, ![prev] = rest, ![rest] = nx[cur]]
        /\ r.units = [us EXCEPT ![rest] = u - units, ![cur] = units] /\ r.slobfree = prev
        /\ r = [next |-> r.next, units |-> r.units, slobfree |-> r.slobfree]
    BY <1>0, <1>1, <1>2, <1>3, <1>5 DEF TakeUnits, RestUnits
  <2>4. rest \in Addr /\ rest # prev BY <1>0, <1>1, <1>5
  <2>5. cur \in Nat /\ rest # cur
    <3>1. cur \in Nat BY <1>0, PageNumbers
    <3> QED BY <1>0, <1>1, <3>1
  <2>2. r.next \in [Addr -> Addr \cup {NONE}] /\ r.units \in [Addr -> Nat]
    <3>1. u - units \in Nat /\ nx[cur] \in Addr BY <1>0, <1>1, <1>2
    <3> QED BY <1>0, <1>2, <2>1, <2>4, <3>1
  <2>3. r \in HeapType BY <1>0, <2>1, <2>2 DEF HeapType
  <2>6. r.next = LinkedIn(LinkedOut(nx, prev, cur), prev, rest)
    <3>1. PICK l : l = LinkedOut(nx, prev, cur) OBVIOUS
    <3>2. l \in [Addr -> Addr \cup {NONE}] /\ l[cur] = NONE /\ l[prev] = nx[cur]
          /\ \A x \in Addr : x # cur /\ x # prev => l[x] = nx[x]
      BY <1>0, <1>1, <1>2, <3>1 DEF LinkedOut
    <3>3. PICK m : m = LinkedIn(l, prev, rest) OBVIOUS
    <3>4. m \in [Addr -> Addr \cup {NONE}] /\ m[rest] = nx[cur] /\ m[prev] = rest
          /\ \A x \in Addr : x # rest /\ x # prev => m[x] = l[x]
      BY <1>0, <1>1, <2>4, <3>2, <3>3 DEF LinkedIn
    <3>5. ASSUME NEW x \in Addr PROVE r.next[x] = m[x]
      BY <1>0, <1>1, <1>2, <2>1, <2>4, <2>5, <3>2, <3>4
    <3> QED BY <2>2, <3>1, <3>3, <3>4, <3>5
  <2>7. r.units = SplitAt(us, cur, units) BY <1>0, <1>1, <1>2, <2>1 DEF SplitAt
  <2> QED BY <1>0, <1>1, <1>5, <2>1, <2>3, <2>6, <2>7
<1> QED BY <1>4, <1>5

(* slob_alloc takes a block of the wanted size. *)
LEMMA TakeKeeps ==
    ASSUME NEW h, NEW L, NEW C, NEW U, HeapOK(h, L, C, U, NONE), NEW units \in Nat, units >= 2,
           NEW k, k = Search(h, units), k # 0, NEW r, r = TakeUnits(h, k, units), NEW cur, cur = Behind(h, k)
    PROVE  /\ \E M : HeapOK(r, M, C \cup {cur}, U, NONE)
           /\ cur \in Addr /\ cur >= 2 /\ cur \notin C /\ r.units[cur] = units
           /\ \A x \in C : r.units[x] = h.units[x]
<1>1. /\ h \in HeapType /\ Ring(h, L) /\ Arranged(h.next, h.units, L, C, U) /\ Clear(h.units, L \cup C \cup {NONE})
      /\ Circle(h.next, L) /\ Tiles(L \cup C, h.units, U) /\ L \cap C = {} /\ h.units[arena] = 1 /\ 1 \notin U
  BY DEF HeapOK, Arranged
<1>2. PICK prev : prev = Behind(h, k - 1) OBVIOUS
<1>3. prev \in L /\ cur \in L /\ cur = h.next[prev] /\ h.units[cur] >= units
  BY <1>1, <1>2, SearchFacts
<1>4. PICK u : u = h.units[cur] OBVIOUS
<1>5. cur # arena BY <1>1, <1>3
<1>6. /\ Arranged(LinkedOut(h.next, prev, cur), h.units, L \ {cur}, C \cup {cur}, U)
      /\ prev # cur /\ InFront(L, prev, cur) /\ prev \in L \ {cur}
  BY <1>1, <1>3, <1>5, WholeLeaves
<1>7. /\ L \subseteq Addr /\ h.units \in [Addr -> Nat] /\ cur \in Nat /\ prev \in Nat /\ u \in Nat /\ u >= units /\ u >= 1
      /\ prev < cur /\ h.next[cur] \in Addr /\ cur \in U
  BY <1>1, <1>3, <1>4, <1>6, CircleFacts, TilesFacts DEF InFront
<1>8. u # units => /\ Arranged(LinkedIn(LinkedOut(h.next, prev, cur), prev, cur + units), SplitAt(h.units, cur, units),
                       (L \ {cur}) \cup {cur + units}, C \cup {cur}, U)
                   /\ cur + units \in Addr /\ cur + units \notin L \cup C
  <2>1. PICK rest, nx, us : rest = cur + units /\ nx = h.next /\ us = h.units OBVIOUS
  <2>2. SUFFICES ASSUME u # units
                 PROVE  /\ Arranged(LinkedIn(LinkedOut(nx, prev, cur), prev, rest), SplitAt(us, cur, units),
                                    (L \ {cur}) \cup {rest}, C \cup {cur}, U)
                        /\ rest \in Addr /\ rest \notin L \cup C
    BY <2>1
  <2>3. Arranged(nx, us, L, C, U) /\ cur = nx[prev] /\ units >= 1 /\ units < us[cur]
    BY <1>1, <1>3, <1>4, <1>7, <2>1, <2>2
  <2> QED
    <3>1. Parted(nx, us, L, C, U, prev, cur, units, rest) BY <1>3, <1>5, <2>1, <2>3, PartLeaves
    <3> QED BY <3>1 DEF Parted
<1>9. u # units => cur + units \in Addr /\ cur + units # prev BY <1>7, <1>8
<1>10. /\ r \in HeapType /\ r.slobfree = prev
       /\ u = units => r.next = LinkedOut(h.next, prev, cur) /\ r.units = h.units
       /\ u # units => /\ r.next = LinkedIn(LinkedOut(h.next, prev, cur), prev, cur + units)
                       /\ r.units = SplitAt(h.units, cur, units)
  <2>1. TakenAt(h, k, units, prev, cur, u) BY <1>1, <1>2, <1>3, <1>4, <1>6, <1>7, <1>9 DEF TakenAt
  <2> QED BY <2>1, TakeFields
<1>11. PICK M : M = IF u = units THEN L \ {cur} ELSE (L \ {cur}) \cup {cur + units} OBVIOUS
<1>12. Arranged(r.next, r.units, M, C \cup {cur}, U) /\ prev \in M BY <1>6, <1>8, <1>10, <1>11
<1>13. r.units[cur] = units BY <1>3, <1>4, <1>7, <1>10 DEF SplitAt
<1>14. ASSUME NEW x \in Addr, x \notin M \cup (C \cup {cur}) \cup {NONE} PROVE r.units[x] = 0
  <2>1. x \notin L \cup C \cup {NONE} /\ (u # units => x # cur + units) /\ x # cur BY <1>11, <1>14
  <2>2. h.units[x] = 0 BY <1>1, <2>1 DEF Clear
  <2>3. r.units[x] = h.units[x] BY <1>7, <1>8, <1>10, <2>1 DEF SplitAt
  <2> QED BY <2>2, <2>3
<1>15. HeapOK(r, M, C \cup {cur}, U, NONE)
  <2>1. Circle(r.next, M) BY <1>12 DEF Arranged
  <2>2. Ring(r, M) BY <1>10, <1>12, <2>1, RingOf
  <2>3. Clear(r.units, M \cup (C \cup {cur}) \cup {NONE}) BY <1>14 DEF Clear
  <2> QED BY <1>10, <1>12, <2>2, <2>3 DEF HeapOK
<1>16. cur >= 2 BY <1>1, <1>5, <1>7 DEF arena
<1>17. ASSUME NEW x \in C PROVE r.units[x] = h.units[x]
  <2>1. x \in Addr /\ x # cur /\ (u # units => x # cur + units) BY <1>1, <1>3, <1>8, TilesFacts
  <2> QED BY <1>7, <1>8, <1>10, <2>1 DEF SplitAt
<1> QED BY <1>1, <1>3, <1>7, <1>13, <1>15, <1>16, <1>17

(* slob_free takes a block back from its owner. *)
LEMMA GivenBack ==
    ASSUME NEW h, NEW L, NEW C, NEW U, HeapOK(h, L, C, U, NONE), NEW b \in C, NEW n, n = h.units[b],
           NEW r, r = slob_free(h, b, n), NEW D, D = C \ {b}
    PROVE  Freed(r, h, D, U, n)
<1>1. /\ h \in HeapType /\ Ring(h, L) /\ Arranged(h.next, h.units, L, C, U) /\ Clear(h.units, L \cup C \cup {NONE})
      /\ Circle(h.next, L) /\ Tiles(L \cup C, h.units, U) /\ L \cap C = {} /\ Apart(h.next, L, h.units)
      /\ h.units[arena] = 1 /\ 1 \notin U
  BY DEF HeapOK, Arranged
<1>2. PICK V : V = U \ Block(b, n) OBVIOUS
<1>3. Tiles((L \cup C) \ {b}, h.units, V) /\ Block(b, n) \subseteq Addr /\ Block(b, n) \subseteq U
  BY <1>1, <1>2, TilesOut DEF Block
<1>4. (L \cup C) \ {b} = L \cup D /\ L \cap D = {} /\ b \notin L \cup D BY <1>1
<1>5. Arranged(h.next, h.units, L, D, V) BY <1>1, <1>2, <1>3, <1>4 DEF Arranged
<1>6. Clear(h.units, L \cup D \cup {b}) BY <1>1, PageNumbers DEF Clear
<1>7. HeapOK(h, L, D, V, b) BY <1>1, <1>5, <1>6 DEF HeapOK
<1>8. b \in Addr /\ n \in Nat /\ n >= 1 /\ b \in U /\ b \in Nat /\ arena \in L
  BY <1>1, TilesFacts, CircleFacts
<1>9. b >= 2 BY <1>1, <1>4, <1>8 DEF arena
<1>10. Puttable(b, n, L \cup D, V) BY <1>2, <1>3, <1>4, <1>8, <1>9 DEF Puttable
<1>11. U = V \cup Block(b, n) BY <1>2, <1>3
<1>12. Freed(r, h, D, U, n) BY <1>7, <1>10, <1>11, FreeKeeps
<1> QED BY <1>12

(* A walk is unique. *)
LEMMA WalkUnique ==
    ASSUME NEW step, NEW start, NEW n \in Nat, NEW m \in Nat, n <= m,
           NEW at, IsWalk(at, n, start, step), NEW bt, IsWalk(bt, m, start, step)
    PROVE  \A k \in 0..n : at[k] = bt[k]
<1> DEFINE B == {k \in 0..n : at[k] = bt[k]}
<1>1. 0 \in B BY DEF IsWalk
<1>2. ASSUME NEW k \in 1..n, k - 1 \in B PROVE k \in B
  <2>1. at[k] = step[at[k - 1]] /\ bt[k] = step[bt[k - 1]] /\ at[k - 1] = bt[k - 1]
    BY <1>2 DEF IsWalk
  <2> QED BY <2>1
<1>3. \A k \in 0..n : k \in B
  <2> HIDE DEF B
  <2> QED BY <1>1, <1>2, StaysIn
<1> QED BY <1>3

(* 1 << order *)
Doubled(f) == [order \in Nat |-> IF order = 0 THEN 1 ELSE 2 * f[order - 1]]
(* The recursive function exists: at each order, the end of a walk that doubles. *)
LEMMA ShiftedIs ==
    Shifted = Doubled(Shifted)
<1> DEFINE double == [x \in Nat |-> 2 * x]
           W == [n \in Nat |-> CHOOSE at \in [0..n -> Nat] : IsWalk(at, n, 1, double)]
           F == [n \in Nat |-> W[n][n]]
<1>1. double \in [Nat -> Nat] OBVIOUS
<1>2. ASSUME NEW n \in Nat PROVE W[n] \in [0..n -> Nat] /\ IsWalk(W[n], n, 1, double)
  <2>1. \E at \in [0..n -> Nat] : IsWalk(at, n, 1, double)
    <3> HIDE DEF double
    <3> QED BY <1>1, WalkExists
  <2> HIDE DEF double
  <2> QED BY <2>1
<1>3. ASSUME NEW n \in Nat PROVE F[n] = IF n = 0 THEN 1 ELSE 2 * F[n - 1]
  <2>1. CASE n = 0 BY <1>2, <2>1 DEF IsWalk
  <2>2. CASE n # 0
    <3>1. n - 1 \in Nat /\ n - 1 <= n /\ n - 1 \in 0..(n - 1) /\ n \in 1..n BY <2>2
    <3>2. PICK a, b : a = W[n - 1] /\ b = W[n] OBVIOUS
    <3>3. IsWalk(a, n - 1, 1, double) /\ IsWalk(b, n, 1, double) /\ a \in [0..(n - 1) -> Nat]
      BY <1>2, <3>1, <3>2
    <3>4. a[n - 1] = b[n - 1]
      <4> HIDE DEF double
      <4> QED BY <3>1, <3>3, WalkUnique
    <3>5. b[n] = double[b[n - 1]] BY <3>1, <3>3 DEF IsWalk
    <3>6. b[n] = 2 * a[n - 1] BY <3>1, <3>3, <3>4, <3>5
    <3>7. F[n] = b[n] /\ F[n - 1] = a[n - 1] BY <3>1, <3>2
    <3> QED BY <2>2, <3>6, <3>7
  <2> QED BY <2>1, <2>2
<1>4. F = Doubled(F)
  <2>1. F = [order \in Nat |-> F[order]] OBVIOUS
  <2> HIDE DEF F
  <2> QED BY <1>3, <2>1 DEF Doubled
<1> QED BY <1>4 DEF Shifted, Doubled

(* 1 << order is larger than order. *)
LEMMA ShiftedFacts ==
    /\ Shifted[0] = 1
    /\ \A k \in Nat : Shifted[k] \in Nat /\ Shifted[k] >= k + 1
<1>1. \A k \in Nat : Shifted[k] = IF k = 0 THEN 1 ELSE 2 * Shifted[k - 1] BY ShiftedIs DEF Doubled
<1>2. ASSUME NEW n \in Nat PROVE Shifted[n] \in Nat /\ Shifted[n] >= n + 1
  <2> DEFINE B == {k \in 0..n : Shifted[k] \in Nat /\ Shifted[k] >= k + 1}
  <2>1. 0 \in B BY <1>1
  <2>2. ASSUME NEW k \in 1..n, k - 1 \in B PROVE k \in B BY <1>1, <2>2
  <2>3. \A k \in 0..n : k \in B
    <3> HIDE DEF B
    <3> QED BY <2>1, <2>2, StaysIn
  <2> QED BY <2>3
<1> QED BY <1>1, <1>2

(* Pages that become blocks. *)
UnitsOf(pages) == {arena} \cup UNION {Page(p)..(Page(p) + PageUnits - 1) : p \in pages}

(* A page that was no block before is disjoint from all blocks. *)
LEMMA FreshPage ==
    ASSUME NEW pages, pages \subseteq 1..HeapPages, NEW p \in 1..HeapPages, p \notin pages
    PROVE  /\ Block(Page(p), PageUnits) \cap UnitsOf(pages) = {} /\ Block(Page(p), PageUnits) \subseteq Addr
           /\ UnitsOf(pages \cup {p}) = UnitsOf(pages) \cup Block(Page(p), PageUnits)
           /\ Page(p) \in Addr /\ Page(p) >= 2 /\ Page(p) \in Block(Page(p), PageUnits)
<1>1. PageUnits \in Nat /\ PageUnits >= 3 /\ arena = 0 BY SlobNumbers DEF arena
<1>2. /\ \A q \in 1..HeapPages : Page(q) \in Nat /\ Page(q) >= PageUnits /\ Page(q) + PageUnits - 1 \in Addr
      /\ \A q, s \in 1..HeapPages : q < s => Page(q) + PageUnits <= Page(s)
      /\ Addr \subseteq Nat /\ \A a \in Addr : \A x \in 0..a : x \in Addr
  BY PageNumbers
<1>3. ASSUME NEW u \in Block(Page(p), PageUnits) PROVE u \in Addr /\ u \notin UnitsOf(pages)
  <2>1. u \in Nat /\ Page(p) <= u /\ u <= Page(p) + PageUnits - 1 BY <1>1, <1>2 DEF Block
  <2>2. u \in 0..(Page(p) + PageUnits - 1) BY <1>1, <1>2, <2>1
  <2>3. u # arena BY <1>1, <1>2, <2>1
  <2>4. ASSUME NEW q \in pages, u \in Page(q)..(Page(q) + PageUnits - 1) PROVE FALSE
    <3>1. q \in 1..HeapPages /\ (q < p \/ p < q) BY <2>4
    <3>2. Page(q) + PageUnits <= Page(p) \/ Page(p) + PageUnits <= Page(q) BY <1>2, <3>1
    <3>3. Page(q) \in Nat /\ Page(p) \in Nat BY <1>2, <3>1
    <3> QED BY <1>1, <2>1, <2>4, <3>2, <3>3
  <2> QED BY <1>2, <2>2, <2>3, <2>4 DEF UnitsOf
<1>4. UnitsOf(pages \cup {p}) = UnitsOf(pages) \cup Block(Page(p), PageUnits) BY DEF UnitsOf, Block
<1>5. Page(p) \in Nat /\ Page(p) >= 2 /\ Page(p) \in Block(Page(p), PageUnits)
  BY <1>1, <1>2 DEF Block
<1> QED BY <1>3, <1>4, <1>5

(* The outcomes of slob_alloc. *)
Allocated(h, C, U, block, units, g) ==
    /\ \E M : HeapOK(g, M, C \cup {block}, U, NONE)
    /\ block \in Addr /\ block \notin C /\ g.units[block] = units
    /\ \A x \in C : g.units[x] = h.units[x]

(* If something fits, it is handed out. *)
LEMMA OutcomeIs ==
    ASSUME NEW h, NEW L, NEW C, NEW U, HeapOK(h, L, C, U, NONE), NEW units \in Nat, units >= 2,
           Search(h, units) # 0, NEW pages, NEW r, r = Outcome(h, units, pages)
    PROVE  Allocated(h, C, U, r.block, units, r.heap) /\ r.pages = pages /\ r.block # NoBlock
<1>1. PICK k, cur, g : k = Search(h, units) /\ cur = Behind(h, k) /\ g = TakeUnits(h, k, units)
  OBVIOUS
<1>2. r.block = cur /\ r.heap = g /\ r.pages = pages BY <1>1 DEF Outcome
<1>3. /\ \E M : HeapOK(g, M, C \cup {cur}, U, NONE)
      /\ cur \in Addr /\ cur >= 2 /\ cur \notin C /\ g.units[cur] = units
      /\ \A x \in C : g.units[x] = h.units[x]
  BY <1>1, TakeKeeps
<1>4. cur # NoBlock BY <1>3, PageNumbers
<1> QED BY <1>2, <1>3, <1>4 DEF Allocated

\* The new page leaves room for n units.
Grown(g, h, C, V, n) ==
    /\ \E M : HeapOK(g, M, C, V, NONE)
    /\ \A x \in C : g.units[x] = h.units[x]
    /\ Search(g, n) # 0

(* After a new page something fits. *)
LEMMA PageGiven ==
    ASSUME NEW h, NEW L, NEW C, NEW pages, pages \subseteq 1..HeapPages, HeapOK(h, L, C, UnitsOf(pages), NONE),
           NEW p \in 1..HeapPages, p \notin pages,
           NEW units \in 2..PageUnits, NEW g, g = slob_free(h, Page(p), PageUnits),
           NEW V, V = UnitsOf(pages \cup {p})
    PROVE  Grown(g, h, C, V, units)
<1>1. PICK U, a : U = UnitsOf(pages) /\ a = Page(p) OBVIOUS
<1>2. /\ Block(a, PageUnits) \cap U = {} /\ Block(a, PageUnits) \subseteq Addr
      /\ V = U \cup Block(a, PageUnits)
      /\ a \in Addr /\ a >= 2 /\ a \in Block(a, PageUnits)
  BY <1>1, FreshPage
<1>3. /\ h \in HeapType /\ Ring(h, L) /\ Arranged(h.next, h.units, L, C, U) /\ Clear(h.units, L \cup C \cup {NONE})
      /\ Tiles(L \cup C, h.units, U)
  BY <1>1 DEF HeapOK, Arranged
<1>4. PageUnits \in Nat /\ PageUnits >= 3 BY SlobNumbers
<1>5. a \notin L \cup C BY <1>2, <1>3, TilesFacts
<1>6. Clear(h.units, L \cup C \cup {a}) BY <1>3, PageNumbers DEF Clear
<1>7. HeapOK(h, L, C, U, a) BY <1>3, <1>6 DEF HeapOK
<1>8. Puttable(a, PageUnits, L \cup C, U) BY <1>2, <1>4, <1>5 DEF Puttable
<1>9. g = slob_free(h, a, PageUnits) BY <1>1
<1>10. PICK n : n = PageUnits OBVIOUS
<1>11. Freed(g, h, C, V, n) BY <1>2, <1>7, <1>8, <1>9, <1>10, FreeKeeps
<1>12. PICK M : HeapOK(g, M, C, V, NONE) /\ \E c \in M : g.units[c] >= n BY <1>11 DEF Freed
<1>13. PICK c \in M : g.units[c] >= n BY <1>12
<1>14. g.units[c] \in Nat BY <1>12, TilesFacts DEF HeapOK, Arranged
<1>15. g.units[c] >= units BY <1>4, <1>10, <1>13, <1>14
<1>16. Search(g, units) # 0 BY <1>12, <1>15, SearchFacts DEF HeapOK
<1> QED BY <1>1, <1>11, <1>12, <1>16 DEF Freed, Grown

(* slob_alloc hands out a new block of the wanted size, or leaves everything as it is. *)
LEMMA AllocKeeps ==
    ASSUME NEW L, NEW C, slob_pages \subseteq 1..HeapPages, HeapOK(heap, L, C, UnitsOf(slob_pages), NONE),
           NEW size, NEW units \in 2..PageUnits, units = SLOB_UNITS(size), NEW r \in slob_alloc(size)
    PROVE  /\ r.pages \subseteq 1..HeapPages
           /\ r.block = NoBlock => r.heap = heap /\ r.pages = {}
           /\ r.block # NoBlock => Allocated(heap, C, UnitsOf(slob_pages \cup r.pages), r.block, units, r.heap)
<1>0. units \in Nat /\ units >= 2 BY SlobNumbers
<1>1. CASE Search(heap, units) # 0
  <2>1. r = Outcome(heap, units, {}) BY <1>1 DEF slob_alloc
  <2>2. PICK U : U = UnitsOf(slob_pages) OBVIOUS
  <2>3. Allocated(heap, C, U, r.block, units, r.heap) /\ r.pages = {} /\ r.block # NoBlock
    BY <1>0, <1>1, <2>1, <2>2, OutcomeIs
  <2>4. slob_pages \cup r.pages = slob_pages BY <2>3
  <2> QED BY <2>2, <2>3, <2>4
<1>2. CASE Search(heap, units) = 0 /\ Runs(0) = {} BY <1>2 DEF slob_alloc
<1>3. CASE Search(heap, units) = 0 /\ Runs(0) # {}
  <2>1. PICK p \in Runs(0) : r = Outcome(slob_free(heap, Page(p), PageUnits), units, {p})
    BY <1>3 DEF slob_alloc
  <2>2. p \in 1..HeapPages /\ p \notin slob_pages
    <3>1. p \in PageRun(p, 0) BY ShiftedFacts DEF PageRun, Runs
    <3> QED BY <3>1 DEF Runs, FreePages
  <2>3. PICK g : g = slob_free(heap, Page(p), PageUnits) OBVIOUS
  <2>5. PICK U : U = UnitsOf(slob_pages \cup {p}) OBVIOUS
  <2>4. Grown(g, heap, C, U, units) BY <2>2, <2>3, <2>5, PageGiven
  <2>6. PICK M : HeapOK(g, M, C, U, NONE) BY <2>4 DEF Grown
  <2>7. Allocated(g, C, U, r.block, units, r.heap) /\ r.pages = {p} /\ r.block # NoBlock
    <3>1. PICK pages : pages = {p} OBVIOUS
    <3>2. r = Outcome(g, units, pages) BY <2>1, <2>3, <3>1
    <3>3. Allocated(g, C, U, r.block, units, r.heap) /\ r.pages = pages /\ r.block # NoBlock
      BY <1>0, <2>4, <2>6, <3>2, OutcomeIs DEF Grown
    <3> QED BY <3>1, <3>3
  <2> QED BY <2>2, <2>4, <2>5, <2>7 DEF Allocated, Grown
<1> QED BY <1>1, <1>2, <1>3

Headers(bigs) == {b.bb : b \in bigs}
BigBlock == [bb : Addr, pages : 1..HeapPages, order : 0..HeapPages, size : HeapSizes]

\* Every large block has a header of its own, of the size that it will be freed with.
Headed(units, small, bigs) ==
    /\ small \cap Headers(bigs) = {}
    /\ \A b, c \in bigs : b.bb = c.bb => b = c
    /\ \A b \in bigs : units[b.bb] = SLOB_UNITS(BIGBLOCK)

Owned(small, bigs) == small \cup Headers(bigs)
Held(h, small, bigs, pages) == \E L : HeapOK(h, L, Owned(small, bigs), UnitsOf(pages), NONE)

HeapIInv ==
    /\ slob_pages \subseteq 1..HeapPages
    /\ bigblocks \subseteq BigBlock
    /\ Headed(heap.units, live, bigblocks)
    /\ Held(heap, live, bigblocks, slob_pages)

(* The arena alone. *)
LEMMA HeapIInvStarts ==
    ASSUME HeapInit PROVE HeapIInv
<1>1. /\ heap = [next |-> [b \in Addr |-> IF b = arena THEN arena ELSE NONE],
                 units |-> [b \in Addr |-> IF b = arena THEN 1 ELSE 0],
                 slobfree |-> arena]
      /\ live = {} /\ bigblocks = {} /\ slob_pages = {}
  BY DEF HeapInit
<1>2. /\ arena \in Addr /\ Addr \subseteq Nat /\ NONE \notin Addr /\ arena = 0
  BY PageNumbers DEF arena
<1>3. PICK nx, us : nx = heap.next /\ us = heap.units OBVIOUS
<1>4. /\ nx = [b \in Addr |-> IF b = arena THEN arena ELSE NONE]
      /\ us = [b \in Addr |-> IF b = arena THEN 1 ELSE 0]
      /\ heap.slobfree = arena /\ heap = [next |-> nx, units |-> us, slobfree |-> arena]
  BY <1>1, <1>3
<1>5. nx \in [Addr -> Addr \cup {NONE}] /\ us \in [Addr -> Nat] /\ nx[arena] = arena /\ us[arena] = 1
      /\ \A b \in Addr : b # arena => nx[b] = NONE /\ us[b] = 0
  BY <1>2, <1>4
<1>6. heap \in HeapType BY <1>2, <1>4, <1>5 DEF HeapType
<1>7. Circle(nx, {arena}) BY <1>2, <1>5 DEF Circle, IsNext
<1>8. Tiles({arena} \cup {}, us, {arena}) BY <1>2, <1>5 DEF Tiles
<1>9. Arranged(nx, us, {arena}, {}, {arena}) BY <1>2, <1>5, <1>7, <1>8 DEF Arranged, Apart
<1>10. Ring(heap, {arena}) BY <1>3, <1>4, <1>6, <1>7, RingOf
<1>11. Clear(us, {arena} \cup {} \cup {NONE}) BY <1>2, <1>5 DEF Clear
<1>12. HeapOK(heap, {arena}, {}, {arena}, NONE) BY <1>3, <1>6, <1>9, <1>10, <1>11 DEF HeapOK
<1>13. Owned(live, bigblocks) = {} /\ UnitsOf(slob_pages) = {arena}
  BY <1>1 DEF Owned, Headers, UnitsOf
<1>14. Held(heap, live, bigblocks, slob_pages) BY <1>12, <1>13 DEF Held
<1> QED BY <1>1, <1>14 DEF HeapIInv, Headed, Headers

(* A small block to a caller, and back. *)
LEMMA SmallTaken ==
    ASSUME NEW h, NEW g, NEW small, NEW bigs, NEW V, NEW block, NEW units, Headed(h.units, small, bigs),
           Allocated(h, Owned(small, bigs), V, block, units, g)
    PROVE  /\ Headed(g.units, small \cup {block}, bigs)
           /\ \E L : HeapOK(g, L, Owned(small \cup {block}, bigs), V, NONE)
<1>1. Owned(small, bigs) \cup {block} = Owned(small \cup {block}, bigs) BY DEF Owned
<1>2. \A b \in bigs : b.bb \in Owned(small, bigs) BY DEF Owned, Headers
<1>3. block \notin Headers(bigs) BY DEF Allocated, Owned
<1> QED BY <1>1, <1>2, <1>3 DEF Allocated, Headed

(* A small block comes back from its caller. *)
LEMMA SmallGiven ==
    ASSUME NEW h, NEW g, NEW small, NEW bigs, NEW pages, Headed(h.units, small, bigs), Held(h, small, bigs, pages),
           NEW m \in small, g = slob_free(h, m, h.units[m])
    PROVE  Headed(g.units, small \ {m}, bigs) /\ Held(g, small \ {m}, bigs, pages)
<1>1. PICK C, D, V, n : C = Owned(small, bigs) /\ D = C \ {m} /\ V = UnitsOf(pages) /\ n = h.units[m]
  OBVIOUS
<1>2. PICK L : HeapOK(h, L, C, V, NONE) BY <1>1 DEF Held
<1>3. m \in C BY <1>1 DEF Owned
<1>4. Freed(g, h, D, V, n)
  <2>1. D = C \ {m} /\ n = h.units[m] /\ g = slob_free(h, m, n) BY <1>1, <1>3
  <2> QED BY <1>2, <1>3, <2>1, GivenBack
<1>5. D = Owned(small \ {m}, bigs) /\ Headers(bigs) \subseteq D BY <1>1 DEF Owned, Headed
<1>6. \A b \in bigs : b.bb \in D BY <1>5 DEF Headers
<1> QED BY <1>1, <1>4, <1>5, <1>6 DEF Headed, Held, Freed

(* The header of a large block comes back. *)
LEMMA BigGiven ==
    ASSUME NEW h, NEW g, NEW small, NEW bigs, NEW pages, Headed(h.units, small, bigs), Held(h, small, bigs, pages),
           NEW b \in bigs, g = slob_free(h, b.bb, SLOB_UNITS(BIGBLOCK))
    PROVE  Headed(g.units, small, bigs \ {b}) /\ Held(g, small, bigs \ {b}, pages)
<1>1. PICK C, D, V, n, a : C = Owned(small, bigs) /\ D = C \ {a} /\ V = UnitsOf(pages) /\ n = h.units[a] /\ a = b.bb
  OBVIOUS
<1>2. PICK L : HeapOK(h, L, C, V, NONE) BY <1>1 DEF Held
<1>3. a \in C /\ n = SLOB_UNITS(BIGBLOCK) BY <1>1 DEF Owned, Headers, Headed
<1>4. Freed(g, h, D, V, n)
  <2>1. D = C \ {a} /\ n = h.units[a] /\ g = slob_free(h, a, n) BY <1>1, <1>3
  <2> QED BY <1>2, <1>3, <2>1, GivenBack
<1>5. Headers(bigs \ {b}) = Headers(bigs) \ {a} BY <1>1 DEF Headers, Headed
<1>6. D = Owned(small, bigs \ {b}) BY <1>1, <1>5 DEF Owned, Headed, Headers
<1>7. \A c \in bigs \ {b} : c.bb \in D BY <1>6 DEF Owned, Headers
<1> QED BY <1>1, <1>4, <1>5, <1>6, <1>7 DEF Headed, Held, Freed

(* A run of pages is no longer than there are pages. *)
LEMMA OrderBound ==
    ASSUME NEW order \in Nat, NEW p \in Runs(order) PROVE order \in 0..HeapPages
<1>1. PICK n : n = Shifted[order] OBVIOUS
<1>2. n \in Nat /\ n >= order + 1 BY <1>1, ShiftedFacts
<1>3. p \in 1..HeapPages /\ p..(p + n - 1) \subseteq 1..HeapPages
  BY <1>1 DEF Runs, FreePages, PageRun
<1>4. p + n - 1 \in 1..HeapPages BY <1>2, <1>3
<1> QED BY <1>2, <1>3, <1>4, SlobAssumption

(* The loop of find_order ends. *)
LEMMA OrderIs ==
    ASSUME NEW size \in Nat PROVE find_order(size) \in Nat
<1> DEFINE S == {k \in 0..size : size \div Shifted[k] <= PAGE_SIZE}
<1>1. PICK n : n = Shifted[size] OBVIOUS
<1>2. n \in Nat /\ n >= size + 1 BY <1>1, ShiftedFacts
<1>3. size \div n \in 0..0 BY <1>2, DivBounds
<1>4. size \in S BY <1>1, <1>3, SlobAssumption
<1>5. S \subseteq Nat OBVIOUS
<1> HIDE DEF S
<1>6. Min(S) \in S BY <1>4, <1>5, MinIsLeast
<1> QED BY <1>5, <1>6 DEF S, find_order

(* One lemma for each way to allocate. *)
LEMMA KmallocSmall ==
    ASSUME HeapIInv, NEW size \in HeapSizes, kmalloc_small(size) PROVE HeapIInv'
<1>1. /\ slob_pages \subseteq 1..HeapPages /\ bigblocks \subseteq BigBlock /\ bigblocks' = bigblocks
      /\ Headed(heap.units, live, bigblocks) /\ Held(heap, live, bigblocks, slob_pages)
  BY DEF HeapIInv, kmalloc_small
<1>2. CASE size + SLOB_UNIT + SLOB_UNIT >= PAGE_SIZE BY <1>1, <1>2 DEF kmalloc_small, HeapIInv
<1>3. CASE ~(size + SLOB_UNIT + SLOB_UNIT >= PAGE_SIZE)
  <2>1. PICK r \in slob_alloc(size + SLOB_UNIT) :
              /\ heap' = r.heap
              /\ slob_pages' = slob_pages \cup r.pages
              /\ live' = IF r.block = NoBlock THEN live ELSE live \cup {r.block}
    BY <1>3 DEF kmalloc_small
  <2>2. PICK units : units = SLOB_UNITS(size + SLOB_UNIT) OBVIOUS
  <2>3. units \in 2..PageUnits
    <3>1. size \in Nat \ {0} /\ size + SLOB_UNIT + SLOB_UNIT < PAGE_SIZE BY <1>3, SlobAssumption
    <3> QED BY <2>2, <3>1, SlobNumbers
  <2>4. PICK C : C = Owned(live, bigblocks) OBVIOUS
  <2>5. PICK L : HeapOK(heap, L, C, UnitsOf(slob_pages), NONE) BY <1>1, <2>4 DEF Held
  <2>6. /\ r.pages \subseteq 1..HeapPages
        /\ r.block = NoBlock => r.heap = heap /\ r.pages = {}
        /\ r.block # NoBlock => Allocated(heap, C, UnitsOf(slob_pages \cup r.pages), r.block, units, r.heap)
    BY <1>1, <2>2, <2>3, <2>5, AllocKeeps
  <2>7. CASE r.block = NoBlock
    <3>1. heap' = heap /\ slob_pages' = slob_pages /\ live' = live BY <2>1, <2>6, <2>7
    <3> QED BY <1>1, <3>1 DEF HeapIInv
  <2>8. CASE r.block # NoBlock
    <3>1. PICK block, g, V : block = r.block /\ g = r.heap /\ V = UnitsOf(slob_pages \cup r.pages)
      OBVIOUS
    <3>2. /\ Headed(g.units, live \cup {block}, bigblocks)
          /\ \E M : HeapOK(g, M, Owned(live \cup {block}, bigblocks), V, NONE)
      BY <1>1, <2>4, <2>6, <2>8, <3>1, SmallTaken
    <3>3. live' = live \cup {block} /\ heap' = g /\ V = UnitsOf(slob_pages') BY <2>1, <2>8, <3>1
    <3>4. Headed(heap'.units, live', bigblocks') /\ Held(heap', live', bigblocks', slob_pages')
      BY <1>1, <3>2, <3>3 DEF Held
    <3> QED BY <1>1, <2>1, <2>6, <3>4 DEF HeapIInv
  <2> QED BY <2>7, <2>8
<1> QED BY <1>2, <1>3

(* A block becomes the header of a large one. *)
LEMMA BigTaken ==
    ASSUME NEW h, NEW g, NEW small, NEW bigs, NEW V, NEW block, Headed(h.units, small, bigs),
           Allocated(h, Owned(small, bigs), V, block, SLOB_UNITS(BIGBLOCK), g), NEW b, b.bb = block
    PROVE  /\ Headed(g.units, small, bigs \cup {b})
           /\ \E L : HeapOK(g, L, Owned(small, bigs \cup {b}), V, NONE)
           /\ b \notin bigs
<1>1. Headers(bigs \cup {b}) = Headers(bigs) \cup {block} BY DEF Headers
<1>2. Owned(small, bigs) \cup {block} = Owned(small, bigs \cup {b}) BY <1>1 DEF Owned
<1>3. \A c \in bigs : c.bb \in Owned(small, bigs) BY DEF Owned, Headers
<1>4. block \notin Owned(small, bigs) /\ g.units[block] = SLOB_UNITS(BIGBLOCK) BY DEF Allocated
<1>5. \A c \in bigs : c.bb # block BY <1>3, <1>4
<1>6. block \notin small BY <1>4 DEF Owned
<1>7. \A c \in bigs : g.units[c.bb] = SLOB_UNITS(BIGBLOCK) BY <1>3 DEF Allocated, Headed
<1>8. Headed(g.units, small, bigs \cup {b}) BY <1>1, <1>4, <1>5, <1>6, <1>7 DEF Headed
<1> QED BY <1>2, <1>5, <1>8 DEF Allocated

(* The large one, whose header goes back when there are no pages. *)
LEMMA KmallocBig ==
    ASSUME HeapIInv, NEW size \in HeapSizes, kmalloc_big(size) PROVE HeapIInv'
<1>1. /\ slob_pages \subseteq 1..HeapPages /\ bigblocks \subseteq BigBlock /\ live' = live
      /\ Headed(heap.units, live, bigblocks) /\ Held(heap, live, bigblocks, slob_pages)
  BY DEF HeapIInv, kmalloc_big
<1> DEFINE order == find_order(size)
<1>2. PICK r \in slob_alloc(BIGBLOCK) :
         LET free == {p \in Runs(order) : PageRun(p, order) \cap r.pages = {}} IN
         /\ slob_pages' = slob_pages \cup r.pages
         /\ IF r.block # NoBlock /\ free # {}
            THEN /\ heap' = r.heap
                 /\ \E p \in free : bigblocks' = bigblocks \cup {[bb |-> r.block, pages |-> p, order |-> order, size |-> size]}
            ELSE /\ heap' = IF r.block = NoBlock THEN r.heap ELSE GiveBack(r.heap, r.block)
                 /\ UNCHANGED bigblocks
  BY DEF kmalloc_big
<1> DEFINE free == {p \in Runs(order) : PageRun(p, order) \cap r.pages = {}}
<1>3. PICK units : units = SLOB_UNITS(BIGBLOCK) OBVIOUS
<1>4. units \in 2..PageUnits BY <1>3, SlobNumbers
<1>5. PICK C : C = Owned(live, bigblocks) OBVIOUS
<1>6. PICK L : HeapOK(heap, L, C, UnitsOf(slob_pages), NONE) BY <1>1, <1>5 DEF Held
<1>7. /\ r.pages \subseteq 1..HeapPages
      /\ r.block = NoBlock => r.heap = heap /\ r.pages = {}
      /\ r.block # NoBlock => Allocated(heap, C, UnitsOf(slob_pages \cup r.pages), r.block, units, r.heap)
  BY <1>1, <1>3, <1>4, <1>6, AllocKeeps
<1>8. CASE r.block = NoBlock
  <2>1. heap' = heap /\ slob_pages' = slob_pages /\ bigblocks' = bigblocks BY <1>2, <1>7, <1>8
  <2> QED BY <1>1, <2>1 DEF HeapIInv
<1>9. ASSUME r.block # NoBlock PROVE HeapIInv'
  <2>1. PICK block, g, V : block = r.block /\ g = r.heap /\ V = UnitsOf(slob_pages \cup r.pages)
    OBVIOUS
  <2>2. slob_pages' \subseteq 1..HeapPages /\ V = UnitsOf(slob_pages') BY <1>1, <1>2, <1>7, <2>1
  <2>3. Allocated(heap, Owned(live, bigblocks), V, block, SLOB_UNITS(BIGBLOCK), g)
    BY <1>3, <1>5, <1>7, <1>9, <2>1
  <2>4. CASE free # {}
    <3>1. PICK p \in free : bigblocks' = bigblocks \cup {[bb |-> r.block, pages |-> p, order |-> order, size |-> size]}
      BY <1>2, <1>9, <2>4
    <3>2. PICK b : b = [bb |-> block, pages |-> p, order |-> order, size |-> size] OBVIOUS
    <3>3. bigblocks' = bigblocks \cup {b} /\ b.bb = block /\ heap' = g
      BY <1>2, <1>9, <2>1, <2>4, <3>1, <3>2
    <3>4. /\ Headed(g.units, live, bigblocks \cup {b})
          /\ \E M : HeapOK(g, M, Owned(live, bigblocks \cup {b}), V, NONE)
      BY <1>1, <2>3, <3>3, BigTaken
    <3>5. b \in BigBlock
      <4>1. order \in Nat /\ p \in Runs(order) /\ p \in 1..HeapPages /\ block \in Addr
        BY <2>3, <3>1, OrderIs, SlobAssumption DEF Runs, Allocated
      <4>2. order \in 0..HeapPages
        <5> HIDE DEF order
        <5> QED BY <4>1, OrderBound
      <4> QED BY <3>2, <4>1, <4>2 DEF BigBlock
    <3>6. Headed(heap'.units, live', bigblocks') /\ Held(heap', live', bigblocks', slob_pages')
      BY <1>1, <2>2, <3>3, <3>4 DEF Held
    <3> QED BY <1>1, <2>2, <3>3, <3>5, <3>6 DEF HeapIInv
  <2>5. CASE free = {}
    <3>1. heap' = slob_free(g, block, SLOB_UNITS(BIGBLOCK)) /\ bigblocks' = bigblocks
      BY <1>2, <1>9, <2>1, <2>5 DEF GiveBack
    <3>2. PICK b : b = [bb |-> block] OBVIOUS
    <3>3. PICK bigs : bigs = bigblocks \cup {b} OBVIOUS
    <3>4. /\ Headed(g.units, live, bigs)
          /\ \E M : HeapOK(g, M, Owned(live, bigs), V, NONE)
          /\ b \notin bigblocks
      BY <1>1, <2>3, <3>2, <3>3, BigTaken
    <3>5. Held(g, live, bigs, slob_pages') BY <2>2, <3>4 DEF Held
    <3>6. b \in bigs /\ b.bb = block /\ bigs \ {b} = bigblocks BY <3>2, <3>3, <3>4
    <3>7. PICK f, pages : f = heap' /\ pages = slob_pages' OBVIOUS
    <3>8. Headed(f.units, live, bigs \ {b}) /\ Held(f, live, bigs \ {b}, pages)
      BY <3>1, <3>4, <3>5, <3>6, <3>7, BigGiven
    <3> QED BY <1>1, <2>2, <3>1, <3>6, <3>7, <3>8 DEF HeapIInv
  <2> QED BY <2>4, <2>5
<1> QED BY <1>8, <1>9

(* Every call keeps the invariant. *)
LEMMA HeapIInvStays ==
    ASSUME HeapIInv, [HeapNext]_heapVars PROVE HeapIInv'
<1>1. CASE UNCHANGED heapVars BY <1>1 DEF HeapIInv, heapVars
<1>2. ASSUME NEW m \in live, kfree_small(m) PROVE HeapIInv'
  <2>1. heap' = slob_free(heap, m, heap.units[m]) /\ live' = live \ {m} /\ bigblocks' = bigblocks /\ slob_pages' = slob_pages
    BY <1>2 DEF kfree_small
  <2>2. PICK g : g = heap' OBVIOUS
  <2>3. Headed(g.units, live \ {m}, bigblocks) /\ Held(g, live \ {m}, bigblocks, slob_pages)
    BY <2>1, <2>2, SmallGiven DEF HeapIInv
  <2> QED BY <2>1, <2>2, <2>3 DEF HeapIInv
<1>3. ASSUME NEW b \in bigblocks, kfree_big(b) PROVE HeapIInv'
  <2>1. heap' = slob_free(heap, b.bb, SLOB_UNITS(BIGBLOCK)) /\ live' = live /\ bigblocks' = bigblocks \ {b} /\ slob_pages' = slob_pages
    BY <1>3 DEF kfree_big
  <2>2. PICK g : g = heap' OBVIOUS
  <2>3. Headed(g.units, live, bigblocks \ {b}) /\ Held(g, live, bigblocks \ {b}, slob_pages)
    BY <2>1, <2>2, BigGiven DEF HeapIInv
  <2> QED BY <2>1, <2>2, <2>3 DEF HeapIInv
<1> QED BY <1>1, <1>2, <1>3, KmallocSmall, KmallocBig DEF HeapNext

(* Addresses are smaller than their number. *)
LEMMA AddrCount ==
    /\ Cardinality(Addr) \in Nat /\ \A a \in Addr : a < Cardinality(Addr)
<1>1. PICK N : N = (HeapPages + 1) * PageUnits OBVIOUS
<1>2. N \in Nat /\ N >= 1
  <2>1. PageUnits \in Nat /\ PageUnits >= 3 /\ HeapPages \in Nat BY SlobNumbers, SlobAssumption
  <2>2. HeapPages * PageUnits \in Nat /\ N = HeapPages * PageUnits + PageUnits BY <1>1, <2>1
  <2> QED BY <2>1, <2>2
<1>3. Addr = 0..(N - 1) BY <1>1 DEF Addr
<1>4. Cardinality(0..(N - 1)) = N BY <1>2, FS_Interval
<1> QED BY <1>2, <1>3, <1>4

(* As many headers as large blocks. *)
LEMMA HeadersCount ==
    ASSUME NEW bigs, NEW units, NEW small, Headed(units, small, bigs), bigs \subseteq BigBlock
    PROVE  IsFiniteSet(Headers(bigs)) /\ IsFiniteSet(bigs) /\ Cardinality(Headers(bigs)) = Cardinality(bigs)
<1> DEFINE f == [b \in bigs |-> b.bb]
<1>1. Headers(bigs) \subseteq Addr BY DEF Headers, BigBlock
<1>2. IsFiniteSet(Headers(bigs)) BY <1>1, PageNumbers, FS_Subset
<1>3. f \in Injection(bigs, Headers(bigs)) /\ f \in Surjection(bigs, Headers(bigs))
  BY DEF Headers, Headed, Injection, Surjection, IsInjective
<1> HIDE DEF f
<1> QED BY <1>2, <1>3, FS_Injection

HeapParts(L) ==
    /\ HeapOK(heap, L, Owned(live, bigblocks), Units, NONE) /\ L = FreeBlocks(heap)
    /\ Blocks = L \cup Owned(live, bigblocks)

(* The parts of the invariant, by the names that the properties use. *)
LEMMA PartsExist ==
    ASSUME HeapIInv PROVE HeapParts(FreeBlocks(heap))
<1>1. PICK L : HeapOK(heap, L, Owned(live, bigblocks), UnitsOf(slob_pages), NONE)
  BY DEF HeapIInv, Held
<1>2. L = FreeBlocks(heap) BY <1>1 DEF HeapOK, Ring
<1>3. UnitsOf(slob_pages) = Units BY DEF UnitsOf, Units
<1>4. Blocks = L \cup Owned(live, bigblocks) BY <1>2 DEF Blocks, Owned, Headers
<1> QED BY <1>1, <1>2, <1>3, <1>4 DEF HeapParts

(* From the inductive invariant to HeapInv, part by part. *)
LEMMA TypeFollows ==
    ASSUME HeapIInv PROVE HeapTypeOK
<1>1. PICK L : HeapParts(L) BY PartsExist
<1>2. /\ heap \in HeapType /\ Ring(heap, L) /\ Circle(heap.next, L) /\ Tiles(L \cup Owned(live, bigblocks), heap.units, Units)
      /\ Clear(heap.units, L \cup Owned(live, bigblocks) \cup {NONE}) /\ L = FreeBlocks(heap)
  BY <1>1 DEF HeapParts, HeapOK, Arranged
<1>3. heap.next \in [Addr -> Addr \cup {NONE}] /\ heap.units \in [Addr -> Nat] BY <1>2 DEF HeapType
<1>4. ASSUME NEW b \in Addr PROVE heap.units[b] \in 0..Cardinality(Addr)
  <2>1. CASE b \in L \cup Owned(live, bigblocks)
    <3>1. PICK n, N : n = heap.units[b] /\ N = Cardinality(Addr) OBVIOUS
    <3>2. n \in Nat /\ b \in Nat /\ b + n - 1 \in Addr BY <1>2, <2>1, <3>1, TilesFacts
    <3>3. N \in Nat /\ b + n - 1 < N BY <3>1, <3>2, AddrCount
    <3> QED BY <3>1, <3>2, <3>3
  <2>2. CASE b \notin L \cup Owned(live, bigblocks)
    <3>1. b # NONE BY PageNumbers
    <3>2. heap.units[b] = 0 BY <1>2, <2>2, <3>1 DEF Clear
    <3> QED BY <3>2, AddrCount
  <2> QED BY <2>1, <2>2
<1>5. heap.units \in [Addr -> 0..Cardinality(Addr)] BY <1>3, <1>4
<1>6. heap.slobfree \in FreeBlocks(heap) /\ heap.next[arena] # NONE
  BY <1>2, CircleFacts, PageNumbers DEF Ring
<1>7. live \subseteq Addr BY <1>2, TilesFacts DEF Owned
<1> QED BY <1>3, <1>5, <1>6, <1>7 DEF HeapTypeOK, HeapIInv, BigBlock

(* Units and blocks. *)
LEMMA PartitionFollows ==
    ASSUME HeapIInv PROVE HeapPartition
<1>1. PICK L : HeapParts(L) BY PartsExist
<1>2. PICK C, us : C = Owned(live, bigblocks) /\ us = heap.units OBVIOUS
<1>3. /\ Circle(heap.next, L) /\ Tiles(L \cup C, us, Units) /\ L \cap C = {}
      /\ Clear(us, L \cup C \cup {NONE}) /\ L = FreeBlocks(heap) /\ Blocks = L \cup C
  BY <1>1, <1>2 DEF HeapParts, HeapOK, Arranged
<1>4. /\ Blocks \subseteq Addr /\ us \in [Addr -> Nat] /\ Units \subseteq Addr /\ Addr \subseteq Nat
      /\ \A b \in Blocks : us[b] >= 1 /\ b \in Nat /\ us[b] \in Nat
  BY <1>3, TilesFacts, PageNumbers
<1>5. {b \in Addr : us[b] # 0} = Blocks
  <2>1. ASSUME NEW b \in Addr PROVE us[b] # 0 <=> b \in Blocks
    <3>1. CASE b \in Blocks BY <1>4, <3>1
    <3>2. CASE b \notin Blocks
      <4>1. b \notin L \cup C \cup {NONE} BY <1>3, <3>2, PageNumbers
      <4> QED BY <1>3, <3>2, <4>1 DEF Clear
    <3> QED BY <3>1, <3>2
  <2> QED BY <1>4, <2>1
<1>6. Cardinality(FreeBlocks(heap)) + Cardinality(live) + Cardinality(bigblocks) = Cardinality(Blocks)
  <2>1. PICK H : H = Headers(bigblocks) OBVIOUS
  <2>2. IsFiniteSet(H) /\ Cardinality(H) = Cardinality(bigblocks) /\ live \cap H = {} /\ C = live \cup H
    BY <1>2, <2>1, HeadersCount DEF HeapIInv, Headed, Owned
  <2>3. L \subseteq Addr /\ live \subseteq Addr BY <1>3, <1>4, <2>2
  <2>4. IsFiniteSet(L) /\ IsFiniteSet(live) BY <2>3, PageNumbers, FS_Subset
  <2>5. IsFiniteSet(C) /\ Cardinality(C) = Cardinality(live) + Cardinality(H)
    <3>1. Cardinality(live \cap H) = 0 BY <2>2, FS_EmptySet
    <3>2. IsFiniteSet(live \cup H) /\ Cardinality(live \cup H) = Cardinality(live) + Cardinality(H) - Cardinality(live \cap H)
      BY <2>2, <2>4, FS_Union
    <3>3. Cardinality(live) \in Nat /\ Cardinality(H) \in Nat BY <2>2, <2>4, FS_CardinalityType
    <3> QED BY <2>2, <3>1, <3>2, <3>3
  <2>6. Cardinality(L \cup C) = Cardinality(L) + Cardinality(C)
    <3>1. Cardinality(L \cap C) = 0 BY <1>3, FS_EmptySet
    <3>2. Cardinality(L \cup C) = Cardinality(L) + Cardinality(C) - Cardinality(L \cap C)
      BY <2>4, <2>5, FS_Union
    <3>3. Cardinality(L) \in Nat /\ Cardinality(C) \in Nat BY <2>4, <2>5, FS_CardinalityType
    <3> QED BY <3>1, <3>2, <3>3
  <2>7. Cardinality(L) \in Nat /\ Cardinality(live) \in Nat /\ Cardinality(H) \in Nat
    BY <2>2, <2>4, FS_CardinalityType
  <2> QED BY <1>3, <2>2, <2>5, <2>6, <2>7
<1>7. ASSUME NEW u \in Addr
      PROVE  Cardinality({b \in Blocks : u \in b..(b + us[b] - 1)}) = IF u \in Units THEN 1 ELSE 0
  <2> DEFINE S == {b \in Blocks : u \in b..(b + us[b] - 1)}
  <2>1. CASE u \in Units
    <3>1. PICK b \in Blocks : b <= u /\ u < b + us[b] BY <1>3, <2>1 DEF Tiles
    <3>2. u \in Nat /\ b \in Nat /\ us[b] \in Nat BY <1>4
    <3>3. b \in S BY <3>1, <3>2
    <3>4. ASSUME NEW c \in S PROVE c = b
      <4>1. c \in Blocks /\ c <= u /\ u < c + us[c] /\ c \in Nat /\ us[c] \in Nat BY <1>4, <3>2
      <4>2. (b < c => b + us[b] <= c) /\ (c < b => c + us[c] <= b) BY <1>3, <4>1 DEF Tiles
      <4> QED BY <3>1, <3>2, <4>1, <4>2
    <3>5. S = {b} BY <3>3, <3>4
    <3>6. Cardinality(S) = 1 BY <3>5, FS_Singleton
    <3> QED BY <2>1, <3>6
  <2>2. CASE u \notin Units
    <3>1. S = {} BY <1>3, <2>2 DEF Tiles
    <3>2. Cardinality(S) = 0 BY <3>1, FS_EmptySet
    <3> QED BY <2>2, <3>2
  <2> QED BY <2>1, <2>2
<1> QED BY <1>2, <1>5, <1>6, <1>7 DEF HeapPartition

(* The free list. *)
LEMMA SortedFollows ==
    ASSUME HeapIInv PROVE ListSorted
<1>1. PICK L : HeapParts(L) BY PartsExist
<1>2. PICK C, us, nx : C = Owned(live, bigblocks) /\ us = heap.units /\ nx = heap.next OBVIOUS
<1>3. /\ Circle(nx, L) /\ Tiles(L \cup C, us, Units) /\ Apart(nx, L, us) /\ L = FreeBlocks(heap)
  BY <1>1, <1>2 DEF HeapParts, HeapOK, Arranged
<1>4. /\ L \subseteq Nat /\ \A b \in L : us[b] \in Nat /\ us[b] >= 1 /\ b \in Nat /\ nx[b] \in Nat /\ nx[b] \in L
      /\ arena = 0 /\ arena \in L
  BY <1>3, CircleFacts, TilesFacts DEF arena
<1>5. ASSUME NEW b \in L, NEW above, above = {c \in L : c > b}
      PROVE  /\ nx[b] = IF above = {} THEN arena ELSE Min(above)
             /\ \A c \in above : b + us[b] < c
  <2>1. IsNext(L, b, nx[b]) BY <1>3 DEF Circle
  <2>2. CASE above = {} BY <1>4, <1>5, <2>1, <2>2 DEF IsNext
  <2>3. CASE above # {}
    <3>1. nx[b] > b /\ \A x \in L : x > b => x >= nx[b]
      <4>1. PICK c \in L : c > b BY <1>5, <2>3
      <4> QED BY <1>4, <2>1, <4>1 DEF IsNext
    <3>2. nx[b] \in above /\ \A x \in above : x >= nx[b] BY <1>4, <1>5, <3>1
    <3>3. Min(above) \in above /\ \A x \in above : Min(above) <= x
      <4>1. above \subseteq Nat BY <1>4, <1>5
      <4> QED BY <2>3, <4>1, MinIsLeast
    <3>4. Min(above) = nx[b]
      <4>1. Min(above) \in Nat /\ Min(above) <= nx[b] /\ nx[b] <= Min(above)
        BY <1>4, <1>5, <3>2, <3>3
      <4> QED BY <1>4, <4>1
    <3>5. b + us[b] <= nx[b] /\ b + us[b] # nx[b] BY <1>3, <1>4, <3>1 DEF Tiles, Apart
    <3>6. ASSUME NEW c \in above PROVE b + us[b] < c
      <4>1. c \in Nat /\ c >= nx[b] BY <1>4, <1>5, <3>2
      <4> QED BY <1>4, <3>5, <4>1
    <3> QED BY <2>3, <3>4, <3>6
  <2> QED BY <2>2, <2>3
<1> QED BY <1>2, <1>3, <1>5 DEF ListSorted

(* For every page, unit and header size, number of pages and set of requests: after every
   kmalloc and kfree, failed ones included, each unit of the heap lies in exactly one block, and
   the free list goes once through all free blocks in the order of their addresses, none
   touching the next. *)
THEOREM HeapCorrect ==
    HeapSpec => []HeapInv
<1>1. HeapInit => HeapIInv BY HeapIInvStarts
<1>2. HeapIInv /\ [HeapNext]_heapVars => HeapIInv' BY HeapIInvStays
<1>3. HeapIInv => HeapInv BY TypeFollows, PartitionFollows, SortedFollows DEF HeapInv
<1> QED BY <1>1, <1>2, <1>3, PTL DEF HeapSpec

-----------------------------------------------------------------------------
(* The buddy system of lab02: numbers first.                                *)
(* 1 << order, and what doubling gives.                                     *)
LEMMA PowerFacts ==
    /\ power_of_two[0] = 1
    /\ \A k \in Nat : /\ power_of_two[k] \in Nat \ {0} /\ power_of_two[k] > k
                      /\ power_of_two[k + 1] = 2 * power_of_two[k]
<1>1. power_of_two = Shifted BY DEF power_of_two, Shifted
<1>2. Shifted = Doubled(Shifted) BY ShiftedIs
<1>3. \A k \in Nat : Shifted[k + 1] = 2 * Shifted[k]
  <2>1. ASSUME NEW k \in Nat PROVE Shifted[k + 1] = 2 * Shifted[k]
    <3>1. k + 1 \in Nat /\ k + 1 # 0 /\ (k + 1) - 1 = k OBVIOUS
    <3>2. Shifted[k + 1] = 2 * Shifted[(k + 1) - 1] BY <1>2, <3>1 DEF Doubled
    <3> QED BY <3>1, <3>2
  <2> QED BY <2>1
<1>4. Shifted[0] = 1 /\ \A k \in Nat : Shifted[k] \in Nat /\ Shifted[k] >= k + 1 BY ShiftedFacts
<1> QED BY <1>1, <1>3, <1>4

(* A larger power is a multiple of a smaller one. *)
LEMMA PowerDivides ==
    ASSUME NEW i \in Nat, NEW j \in Nat, i <= j
    PROVE  \E q \in Nat \ {0} : power_of_two[j] = q * power_of_two[i]
<1> DEFINE B == {d \in 0..(j - i) : \E q \in Nat \ {0} : power_of_two[i + d] = q * power_of_two[i]}
<1>1. 0 \in B
  <2>1. i + 0 = i /\ power_of_two[i] = 1 * power_of_two[i] /\ 1 \in Nat \ {0} /\ 0 \in 0..(j - i)
    BY PowerFacts
  <2> QED BY <2>1
<1>2. ASSUME NEW d \in 1..(j - i), d - 1 \in B PROVE d \in B
  <2>1. PICK q \in Nat \ {0} : power_of_two[i + (d - 1)] = q * power_of_two[i] BY <1>2
  <2>2. (i + (d - 1)) + 1 = i + d /\ i + (d - 1) \in Nat OBVIOUS
  <2>3. power_of_two[i + d] = 2 * power_of_two[i + (d - 1)] BY <2>2, PowerFacts
  <2>4. PICK n : n = power_of_two[i] OBVIOUS
  <2>5. n \in Nat BY <2>4, PowerFacts
  <2>6. 2 * (q * n) = (2 * q) * n /\ 2 * q \in Nat \ {0} BY <2>5
  <2>7. power_of_two[i + d] = (2 * q) * power_of_two[i] BY <2>1, <2>3, <2>4, <2>6
  <2> QED BY <2>6, <2>7
<1>3. \A d \in 0..(j - i) : d \in B
  <2>1. j - i \in Nat OBVIOUS
  <2> HIDE DEF B
  <2> QED BY <1>1, <1>2, <2>1, StaysIn
<1>4. j - i \in 0..(j - i) /\ i + (j - i) = j OBVIOUS
<1>5. j - i \in B BY <1>3, <1>4
<1> QED BY <1>4, <1>5

(* Powers grow with their order. *)
LEMMA PowerMonotone ==
    ASSUME NEW i \in Nat, NEW j \in Nat, i <= j
    PROVE  power_of_two[i] <= power_of_two[j]
<1>1. PICK q \in Nat \ {0} : power_of_two[j] = q * power_of_two[i] BY PowerDivides
<1>2. PICK n : n = power_of_two[i] OBVIOUS
<1>3. n \in Nat /\ q >= 1 BY <1>2, PowerFacts
<1>4. q * n >= n
  <2>1. q = 1 + (q - 1) /\ q - 1 \in Nat BY <1>3
  <2>2. PICK d \in Nat : q = 1 + d BY <2>1
  <2>3. (1 + d) * n = n + d * n /\ d * n \in Nat BY <1>3
  <2> QED BY <1>3, <2>2, <2>3
<1> QED BY <1>1, <1>2, <1>4

(* Factors can be cancelled. *)
LEMMA CancelFactor ==
    ASSUME NEW n \in Nat \ {0}, NEW a \in Nat, NEW b \in Nat, a * n < b * n
    PROVE  a < b
<1>1. CASE b <= a
  <2>1. PICK d \in Nat : a = b + d
    <3>1. a - b \in Nat /\ a = b + (a - b) BY <1>1
    <3> QED BY <3>1
  <2>2. a * n = b * n + d * n /\ d * n >= 0 /\ b * n \in Nat BY <2>1
  <2> QED BY <2>2
<1> QED BY <1>1

(* Factors keep the order. *)
LEMMA FactorKeeps ==
    ASSUME NEW n \in Nat, NEW a \in Nat, NEW b \in Nat, a <= b
    PROVE  a * n <= b * n
<1>1. PICK d \in Nat : b = a + d
  <2>1. b - a \in Nat /\ b = a + (b - a) OBVIOUS
  <2> QED BY <2>1
<1>2. b * n = a * n + d * n /\ d * n >= 0 /\ a * n \in Nat BY <1>1
<1> QED BY <1>2

(* The quotient of a multiple. *)
LEMMA MultipleDiv ==
    ASSUME NEW q \in Nat, NEW n \in Nat \ {0}, NEW a, a = q * n
    PROVE  a \div n = q
<1>r. PICK r : r = a \div n OBVIOUS
<1>1. a \in Nat OBVIOUS
<1>2. r \in Nat /\ n * r <= a /\ a < n * r + n BY <1>r, <1>1, DivFacts
<1>3. r * n <= q * n /\ q * n < (r + 1) * n /\ r + 1 \in Nat BY <1>1, <1>2
<1>4. q < r + 1 BY <1>2, <1>3, CancelFactor
<1>5. r < q + 1
  <2>1. r * n < (q + 1) * n /\ q + 1 \in Nat BY <1>1, <1>2, <1>3
  <2> QED BY <1>2, <2>1, CancelFactor
<1> QED BY <1>2, <1>4, <1>5, <1>r

(* A block begins at a multiple of its size. *)
Aligned(b, k) == \E q \in Nat : b = q * power_of_two[k]

(* It does so exactly if the remainder is zero. *)
LEMMA AlignedMod ==
    ASSUME NEW b \in Nat, NEW k \in Nat
    PROVE  b % power_of_two[k] = 0 <=> Aligned(b, k)
<1>n. PICK n : n = power_of_two[k] OBVIOUS
<1>1. n \in Nat \ {0} BY <1>n, PowerFacts
<1>q. PICK q, r : q = b \div n /\ r = b % n OBVIOUS
<1>2. q \in Nat /\ r \in 0..(n - 1) /\ b = n * q + r BY <1>1, <1>q
<1>3. ASSUME r = 0 PROVE Aligned(b, k)
  <2>1. b = q * n BY <1>1, <1>2, <1>3
  <2> QED BY <1>n, <1>2, <2>1 DEF Aligned
<1>4. ASSUME Aligned(b, k) PROVE r = 0
  <2>1. PICK s \in Nat : b = s * n BY <1>n, <1>4 DEF Aligned
  <2>2. q * n \in Nat /\ n * q = q * n /\ (q + 1) * n = q * n + n /\ s * n \in Nat BY <1>1, <1>2
  <2>3. CASE s < q
    <3>1. (s + 1) * n <= q * n /\ (s + 1) * n = s * n + n
      <4>1. s + 1 \in Nat /\ s + 1 <= q BY <1>2, <2>3
      <4>2. (s + 1) * n <= q * n BY <1>1, <1>2, <4>1, FactorKeeps
      <4> QED BY <1>1, <4>2
    <3> QED BY <1>1, <1>2, <2>1, <2>2, <3>1
  <2>4. CASE s > q
    <3>1. (q + 1) * n <= s * n
      <4>1. q + 1 \in Nat /\ q + 1 <= s BY <1>2, <2>4
      <4> QED BY <1>1, <4>1, FactorKeeps
    <3> QED BY <1>1, <1>2, <2>1, <2>2, <3>1
  <2>5. CASE s = q BY <1>2, <2>1, <2>2, <2>5
  <2> QED BY <1>2, <2>3, <2>4, <2>5
<1> QED BY <1>n, <1>q, <1>3, <1>4

(* A multiple of a larger power is one of a smaller power. *)
LEMMA AlignedLower ==
    ASSUME NEW i \in Nat, NEW j \in Nat, i <= j, NEW b \in Nat, Aligned(b, j)
    PROVE  Aligned(b, i)
<1>1. PICK r \in Nat : b = r * power_of_two[j] BY DEF Aligned
<1>2. PICK s \in Nat \ {0} : power_of_two[j] = s * power_of_two[i] BY PowerDivides
<1>3. PICK n : n = power_of_two[i] OBVIOUS
<1>4. n \in Nat BY <1>3, PowerFacts
<1>5. r * (s * n) = (r * s) * n /\ r * s \in Nat BY <1>4
<1> QED BY <1>1, <1>2, <1>3, <1>5 DEF Aligned

(* Two blocks that share a page: the smaller one lies in the larger one. *)
LEMMA Nested ==
    ASSUME NEW i \in Nat, NEW j \in Nat, i <= j, NEW a \in Nat, NEW b \in Nat,
           Aligned(a, i), Aligned(b, j),
           a < b + power_of_two[j], b < a + power_of_two[i]
    PROVE  b <= a /\ a + power_of_two[i] <= b + power_of_two[j]
<1>1. PICK s \in Nat \ {0} : power_of_two[j] = s * power_of_two[i] BY PowerDivides
<1>2. PICK q \in Nat : a = q * power_of_two[i] BY DEF Aligned
<1>3. PICK r \in Nat : b = r * power_of_two[i] BY AlignedLower DEF Aligned
<1>n. PICK n : n = power_of_two[i] OBVIOUS
<1>4. n \in Nat \ {0} /\ q + 1 \in Nat /\ r + s \in Nat BY <1>n, PowerFacts
<1>5. /\ (q + 1) * n = q * n + n /\ (r + s) * n = r * n + s * n
      /\ q * n \in Nat /\ r * n \in Nat /\ s * n \in Nat
  BY <1>4
<1>6. q * n < (r + s) * n /\ r * n < (q + 1) * n BY <1>1, <1>2, <1>3, <1>n, <1>5
<1>7. q < r + s /\ r < q + 1 BY <1>4, <1>6, CancelFactor
<1>8. q + 1 <= r + s /\ r <= q BY <1>4, <1>7
<1>9. (q + 1) * n <= (r + s) * n /\ r * n <= q * n BY <1>4, <1>8, FactorKeeps
<1> QED BY <1>1, <1>2, <1>3, <1>n, <1>5, <1>9

(* A block is the lower or the upper half of a larger one. *)
LEMMA HalfOf ==
    ASSUME NEW b \in Nat, NEW k \in Nat, Aligned(b, k)
    PROVE  \E lo \in Nat : Aligned(lo, k + 1) /\ (b = lo \/ b = lo + power_of_two[k])
<1>1. PICK q \in Nat : b = q * power_of_two[k] BY DEF Aligned
<1>n. PICK n : n = power_of_two[k] OBVIOUS
<1>2. n \in Nat \ {0} /\ power_of_two[k + 1] = 2 * n BY <1>n, PowerFacts
<1>3. PICK r \in Nat : q = 2 * r \/ q = 2 * r + 1
  <2>1. q \div 2 \in Nat /\ (q = 2 * (q \div 2) \/ q = 2 * (q \div 2) + 1) OBVIOUS
  <2> QED BY <2>1
<1>4. r * (2 * n) \in Nat /\ (2 * r) * n = r * (2 * n) /\ (2 * r + 1) * n = r * (2 * n) + n BY <1>2
<1>5. Aligned(r * (2 * n), k + 1) BY <1>2 DEF Aligned
<1>6. b = r * (2 * n) \/ b = r * (2 * n) + n BY <1>1, <1>n, <1>3, <1>4
<1> QED BY <1>n, <1>4, <1>5, <1>6

(* The halves of a block are each other's buddies. *)
LEMMA Halves ==
    ASSUME NEW lo \in Nat, NEW k \in Nat, Aligned(lo, k + 1)
    PROVE  /\ BuddyOf(lo, k) = lo + power_of_two[k]
           /\ BuddyOf(lo + power_of_two[k], k) = lo
           /\ Aligned(lo, k) /\ Aligned(lo + power_of_two[k], k)
<1>1. PICK r \in Nat : lo = r * power_of_two[k + 1] BY DEF Aligned
<1>n. PICK n : n = power_of_two[k] OBVIOUS
<1>2. n \in Nat \ {0} /\ power_of_two[k + 1] = 2 * n BY <1>n, PowerFacts
<1>3. /\ 2 * r \in Nat /\ 2 * r + 1 \in Nat /\ lo = (2 * r) * n /\ lo + n = (2 * r + 1) * n
      /\ lo + n \in Nat
  BY <1>1, <1>2
<1>4. Aligned(lo, k) /\ Aligned(lo + n, k) BY <1>n, <1>3 DEF Aligned
<1>5. lo \div n = 2 * r /\ (lo + n) \div n = 2 * r + 1 BY <1>2, <1>3, MultipleDiv
<1>6. (2 * r) % 2 = 0 /\ (2 * r + 1) % 2 = 1 /\ (lo + n) - n = lo BY <1>2
<1> QED BY <1>n, <1>4, <1>5, <1>6 DEF BuddyOf

-----------------------------------------------------------------------------
(* Blocks. *)
AllBlocks == {x \in Managed \X Orders : Aligned(x[1], x[2])}
Span(x) == PagesOf(x[1], x[2])
Extent(S) == UNION {Span(x) : x \in S}
Disjointed(S) == \A x, y \in S : x # y => Span(x) \cap Span(y) = {}

(* No two free buddies are apart. *)
BuddyBlock(x) == <<BuddyOf(x[1], x[2]), x[2]>>
Lonely(F) == \A x \in F : x[2] < max_order => BuddyBlock(x) \notin F

(* The order of a request is large enough. *)
LEMMA OrderFacts ==
    ASSUME NEW n \in Nat \ {0}
    PROVE  Order(n) \in Nat /\ power_of_two[Order(n)] >= n
<1> DEFINE S == {k \in 0..n : power_of_two[k] >= n}
<1>1. n \in S
  <2>1. n \in Nat /\ n \in 0..n OBVIOUS
  <2>2. power_of_two[n] \in Nat /\ power_of_two[n] > n BY <2>1, PowerFacts
  <2> QED BY <2>1, <2>2
<1>2. S \subseteq Nat /\ S # {} BY <1>1
<1>3. Min(S) \in S
  <2> HIDE DEF S
  <2> QED BY <1>2, MinIsLeast
<1>4. Order(n) = Min(S) BY DEF Order
<1> QED BY <1>3, <1>4

(* The sizes of memory. *)
LEMMA BuddyNumbers ==
    /\ max_order \in Nat /\ total_pages \in Nat \ {0}
    /\ total_pages = power_of_two[max_order]
    /\ \A k : k \in Orders <=> k \in Nat /\ k <= max_order
    /\ \A p : p \in Managed <=> p \in Nat /\ p < total_pages
<1>1. max_order \in Nat BY BuddyAssumption, OrderFacts DEF max_order
<1>2. total_pages \in Nat \ {0} BY <1>1, PowerFacts DEF total_pages
<1> QED BY <1>1, <1>2 DEF total_pages, Orders, Managed

(* What a block is. *)
LEMMA BlockIs ==
    ASSUME NEW x \in AllBlocks
    PROVE  /\ x[1] \in Nat /\ x[2] \in Nat /\ x[2] <= max_order /\ x[2] \in Orders
           /\ x = <<x[1], x[2]>> /\ Aligned(x[1], x[2])
           /\ power_of_two[x[2]] \in Nat \ {0} /\ x[1] + power_of_two[x[2]] <= total_pages
           /\ \A p : p \in Span(x) <=> p \in Nat /\ x[1] <= p /\ p < x[1] + power_of_two[x[2]]
           /\ x[1] \in Span(x) /\ Span(x) \subseteq Managed
<1>1. x[1] \in Managed /\ x[2] \in Orders /\ x = <<x[1], x[2]>> /\ Aligned(x[1], x[2])
  BY DEF AllBlocks
<1>2. x[1] \in Nat /\ x[2] \in Nat /\ x[2] <= max_order /\ x[1] < total_pages BY <1>1, BuddyNumbers
<1>n. PICK b, n : b = x[1] /\ n = power_of_two[x[2]] OBVIOUS
<1>3. n \in Nat \ {0} /\ b \in Nat BY <1>n, <1>2, PowerFacts
<1>4. Aligned(0, max_order)
  <2>1. power_of_two[max_order] \in Nat BY BuddyNumbers
  <2>2. 0 = 0 * power_of_two[max_order] BY <2>1
  <2> QED BY <2>2 DEF Aligned
<1>5. b + n <= 0 + power_of_two[max_order]
  <2>1. b < 0 + power_of_two[max_order] /\ 0 < b + n /\ 0 \in Nat /\ max_order \in Nat
    BY <1>2, <1>3, <1>n, BuddyNumbers
  <2> QED BY <1>1, <1>2, <1>3, <1>4, <1>n, <2>1, Nested
<1>6. b + n <= total_pages BY <1>5, <1>3, BuddyNumbers
<1>7. \A p : p \in Span(x) <=> p \in Nat /\ b <= p /\ p < b + n
  <2>1. Span(x) = b..(b + n - 1) BY <1>n DEF Span, PagesOf
  <2> QED BY <1>3, <2>1
<1>8. \A p : p \in Span(x) => p \in Managed BY <1>3, <1>6, <1>7, BuddyNumbers
<1>9. b \in Span(x) BY <1>3, <1>7
<1> QED BY <1>1, <1>2, <1>3, <1>6, <1>7, <1>8, <1>9, <1>n

(* Blocks are nested or disjoint. *)
LEMMA BlockWithin ==
    ASSUME NEW x \in AllBlocks, NEW y \in AllBlocks, x[2] <= y[2], NEW p \in Span(x), p \in Span(y)
    PROVE  Span(x) \subseteq Span(y) /\ (x[2] = y[2] => x = y)
<1>n. PICK a, i, b, j, m, n : a = x[1] /\ i = x[2] /\ b = y[1] /\ j = y[2] /\ m = power_of_two[i] /\ n = power_of_two[j]
  OBVIOUS
<1>1. /\ a \in Nat /\ i \in Nat /\ b \in Nat /\ j \in Nat /\ i <= j /\ Aligned(a, i) /\ Aligned(b, j)
      /\ m \in Nat /\ n \in Nat /\ x = <<a, i>> /\ y = <<b, j>>
      /\ \A q : q \in Span(x) <=> q \in Nat /\ a <= q /\ q < a + m
      /\ \A q : q \in Span(y) <=> q \in Nat /\ b <= q /\ q < b + n
  BY <1>n, BlockIs
<1>2. a < b + n /\ b < a + m
  <2>1. p \in Nat /\ a <= p /\ p < a + m /\ b <= p /\ p < b + n BY <1>1
  <2> QED BY <1>1, <2>1
<1>3. b <= a /\ a + m <= b + n BY <1>1, <1>2, <1>n, Nested
<1>4. Span(x) \subseteq Span(y)
  <2>1. ASSUME NEW q \in Span(x) PROVE q \in Span(y)
    <3>1. q \in Nat /\ a <= q /\ q < a + m BY <1>1
    <3>2. b <= q /\ q < b + n BY <1>1, <1>3, <3>1
    <3> QED BY <1>1, <3>1, <3>2
  <2> QED BY <2>1
<1>5. i = j => a = b
  <2>1. i = j => m = n BY <1>n
  <2> QED BY <1>1, <1>3, <2>1
<1> QED BY <1>1, <1>4, <1>5, <1>n

(* Pairs have a least element. *)
LEMMA MinOfTwo ==
    ASSUME NEW a \in Nat, NEW b \in Nat
    PROVE  Min({a, b}) = IF a <= b THEN a ELSE b
<1>1. Min({a, b}) \in {a, b} /\ \A y \in {a, b} : Min({a, b}) <= y
  <2>1. {a, b} \subseteq Nat /\ {a, b} # {} OBVIOUS
  <2> QED BY <2>1, MinIsLeast
<1> QED BY <1>1

(* A block and its buddy are the halves of the merged block. *)
WholeBlock(x) == <<Min({x[1], BuddyOf(x[1], x[2])}), x[2] + 1>>

(* Both are of the same size, each the buddy of the other, and disjoint. *)
LEMMA BuddyFacts ==
    ASSUME NEW x \in AllBlocks, x[2] < max_order
    PROVE  LET z == BuddyBlock(x) IN
           /\ z \in AllBlocks /\ z[2] = x[2] /\ z # x /\ BuddyBlock(z) = x
           /\ WholeBlock(x) \in AllBlocks /\ WholeBlock(x)[2] = x[2] + 1
           /\ Span(WholeBlock(x)) = Span(x) \cup Span(z) /\ Span(x) \cap Span(z) = {}
<1>z. PICK z, w : z = BuddyBlock(x) /\ w = WholeBlock(x) OBVIOUS
<1>n. PICK b, k, n : b = x[1] /\ k = x[2] /\ n = power_of_two[k] OBVIOUS
<1>1. /\ b \in Nat /\ k \in Nat /\ k < max_order /\ x = <<b, k>> /\ Aligned(b, k) /\ n \in Nat \ {0}
      /\ b < total_pages /\ b + n <= total_pages
  <2>1. /\ b \in Nat /\ k \in Nat /\ k < max_order /\ x = <<b, k>> /\ Aligned(b, k) /\ n \in Nat \ {0}
        /\ b + n <= total_pages
    BY <1>n, BlockIs
  <2> QED BY <2>1, BuddyNumbers
<1>2. PICK lo \in Nat : Aligned(lo, k + 1) /\ (b = lo \/ b = lo + n) BY <1>1, <1>n, HalfOf
<1>3. BuddyOf(lo, k) = lo + n /\ BuddyOf(lo + n, k) = lo /\ Aligned(lo, k) /\ Aligned(lo + n, k)
  BY <1>1, <1>2, <1>n, Halves
<1>4. power_of_two[k + 1] = 2 * n /\ k + 1 \in Nat /\ k + 1 <= max_order
  BY <1>1, <1>n, BuddyNumbers, PowerFacts
<1>5. <<lo, k + 1>> \in AllBlocks
  <2>1. lo < total_pages BY <1>1, <1>2, BuddyNumbers
  <2>2. lo \in Managed /\ k + 1 \in Orders BY <1>2, <1>4, <2>1, BuddyNumbers
  <2> QED BY <1>2, <2>2 DEF AllBlocks
<1>6. lo + 2 * n <= total_pages
  <2>1. PICK y : y = <<lo, k + 1>> OBVIOUS
  <2>2. y[1] + power_of_two[y[2]] <= total_pages BY <1>5, <2>1, BlockIs
  <2> QED BY <1>4, <2>1, <2>2
<1>7. <<lo, k>> \in AllBlocks /\ <<lo + n, k>> \in AllBlocks
  <2>1. lo \in Managed /\ lo + n \in Managed /\ k \in Orders
    <3>1. lo \in Nat /\ lo < total_pages /\ lo + n \in Nat /\ lo + n < total_pages
      BY <1>1, <1>2, <1>6, BuddyNumbers
    <3> QED BY <1>1, <3>1, BuddyNumbers
  <2> QED BY <1>3, <2>1 DEF AllBlocks
<1>8. w = <<lo, k + 1>>
  <2>1. {b, BuddyOf(b, k)} = {lo, lo + n} BY <1>2, <1>3
  <2>2. Min({lo, lo + n}) = lo BY <1>1, <1>2, MinOfTwo
  <2> QED BY <1>n, <1>z, <2>1, <2>2 DEF WholeBlock
<1>9. z = <<BuddyOf(b, k), k>> BY <1>n, <1>z DEF BuddyBlock
<1>10. z \in AllBlocks /\ z[2] = k /\ z # x BY <1>1, <1>2, <1>3, <1>7, <1>9
<1>11. BuddyBlock(z) = x
  <2>1. BuddyBlock(z) = <<BuddyOf(BuddyOf(b, k), k), k>> BY <1>9 DEF BuddyBlock
  <2> QED BY <1>1, <1>2, <1>3, <2>1
<1>12. \A p : /\ p \in Span(<<lo, k + 1>>) <=> p \in Nat /\ lo <= p /\ p < lo + 2 * n
              /\ p \in Span(<<lo, k>>) <=> p \in Nat /\ lo <= p /\ p < lo + n
              /\ p \in Span(<<lo + n, k>>) <=> p \in Nat /\ lo + n <= p /\ p < lo + 2 * n
  <2>1. PICK u, v, y : u = <<lo, k + 1>> /\ v = <<lo, k>> /\ y = <<lo + n, k>> OBVIOUS
  <2>2. /\ \A p : p \in Span(u) <=> p \in Nat /\ u[1] <= p /\ p < u[1] + power_of_two[u[2]]
        /\ \A p : p \in Span(v) <=> p \in Nat /\ v[1] <= p /\ p < v[1] + power_of_two[v[2]]
        /\ \A p : p \in Span(y) <=> p \in Nat /\ y[1] <= p /\ p < y[1] + power_of_two[y[2]]
    BY <1>5, <1>7, <2>1, BlockIs
  <2>3. /\ u[1] = lo /\ power_of_two[u[2]] = 2 * n /\ v[1] = lo /\ power_of_two[v[2]] = n
        /\ y[1] = lo + n /\ power_of_two[y[2]] = n
    BY <1>4, <1>n, <2>1
  <2>4. (lo + n) + n = lo + 2 * n BY <1>1
  <2> QED BY <2>1, <2>2, <2>3, <2>4
<1>13. {x, z} = {<<lo, k>>, <<lo + n, k>>} BY <1>1, <1>2, <1>3, <1>9
<1>14. Span(<<lo, k + 1>>) = Span(<<lo, k>>) \cup Span(<<lo + n, k>>)
  <2>1. ASSUME NEW p PROVE p \in Span(<<lo, k + 1>>) <=> p \in Span(<<lo, k>>) \/ p \in Span(<<lo + n, k>>)
    BY <1>1, <1>12
  <2> QED BY <2>1
<1>15. Span(<<lo, k>>) \cap Span(<<lo + n, k>>) = {} BY <1>1, <1>12
<1>16. Span(w) = Span(x) \cup Span(z) /\ Span(x) \cap Span(z) = {}
  <2>1. (x = <<lo, k>> /\ z = <<lo + n, k>>) \/ (z = <<lo, k>> /\ x = <<lo + n, k>>)
    BY <1>1, <1>2, <1>3, <1>9
  <2> QED BY <1>8, <1>14, <1>15, <2>1
<1>17. w \in AllBlocks /\ w[2] = k + 1 BY <1>5, <1>8
<1> QED BY <1>10, <1>11, <1>16, <1>17, <1>n, <1>z


(* A run of free pages that could be a block lies in a free block: when no  *)
(* free buddies are apart, no larger block is hidden in small ones.         *)
LEMMA HiddenRun ==
    ASSUME NEW F, F \subseteq AllBlocks, Disjointed(F), Lonely(F),
           NEW y \in AllBlocks, Span(y) \subseteq Extent(F)
    PROVE  \E x \in F : y[2] <= x[2] /\ Span(y) \subseteq Span(x)
<1> DEFINE S == {x \in F : Span(x) \cap Span(y) # {}}
           R == {x[2] : x \in S}
<1>1. y[1] \in Span(y) /\ y[2] \in Nat /\ y[2] <= max_order BY BlockIs
<1>2. \A p \in Span(y) : \E x \in S : p \in Span(x) BY DEF Extent
<1>3. S # {} /\ \A x \in S : x \in F /\ x \in AllBlocks /\ x[2] \in Nat BY <1>1, <1>2, BlockIs
<1>4. CASE \E x \in S : y[2] <= x[2]
  <2>1. PICK x \in S : y[2] <= x[2] BY <1>4
  <2>2. PICK p : p \in Span(x) /\ p \in Span(y) BY <2>1
  <2>3. Span(y) \subseteq Span(x) BY <1>3, <2>1, <2>2, BlockWithin
  <2> QED BY <1>3, <2>1, <2>3
<1>5. CASE \A x \in S : ~ (y[2] <= x[2])
  <2>1. PICK x \in S : \A v \in S : x[2] <= v[2]
    <3>1. R \subseteq Nat /\ R # {} BY <1>3
    <3>2. PICK m \in R : \A r \in R : m <= r
      <4> HIDE DEF R
      <4> QED BY <3>1, Least
    <3> QED BY <3>2
  <2>2. x \in F /\ x \in AllBlocks /\ x[2] \in Nat /\ x[2] < y[2] /\ x[2] < max_order
    BY <1>1, <1>3, <1>5, <2>1, BuddyNumbers
  <2>3. PICK p : p \in Span(x) /\ p \in Span(y) BY <2>1
  <2>z. PICK z, w : z = BuddyBlock(x) /\ w = WholeBlock(x) OBVIOUS
  <2>4. /\ z \in AllBlocks /\ z[2] = x[2] /\ z # x /\ BuddyBlock(z) = x
        /\ w \in AllBlocks /\ w[2] = x[2] + 1
        /\ Span(w) = Span(x) \cup Span(z) /\ Span(x) \cap Span(z) = {}
    BY <2>2, <2>z, BuddyFacts
  <2>5. Span(w) \subseteq Span(y)
    <3>1. w[2] <= y[2] /\ p \in Span(w) BY <1>1, <2>2, <2>3, <2>4
    <3> QED BY <2>3, <2>4, <3>1, BlockWithin
  <2>6. z[1] \in Span(z) /\ z[1] \in Span(w) BY <2>4, BlockIs
  <2>7. PICK v \in S : z[1] \in Span(v) BY <1>2, <2>5, <2>6
  <2>8. v \in F /\ v \in AllBlocks /\ v[2] \in Nat /\ x[2] <= v[2] BY <1>3, <2>1, <2>7
  <2>9. v[2] # x[2]
    <3>1. SUFFICES ASSUME v[2] = x[2] PROVE FALSE OBVIOUS
    <3>2. z = v
      <4>1. z[2] <= v[2] /\ z[2] = v[2] BY <2>4, <2>8, <3>1
      <4> QED BY <2>4, <2>6, <2>7, <2>8, <4>1, BlockWithin
    <3> QED BY <2>2, <2>8, <2>z, <3>2 DEF Lonely
  <2>10. Span(w) \subseteq Span(v)
    <3>1. w[2] <= v[2] BY <2>2, <2>4, <2>8, <2>9
    <3> QED BY <2>4, <2>6, <2>7, <2>8, <3>1, BlockWithin
  <2>11. p \in Span(v) BY <2>3, <2>4, <2>10
  <2>12. v = x BY <2>2, <2>3, <2>8, <2>11 DEF Disjointed
  <2> QED BY <2>9, <2>12
<1> QED BY <1>4, <1>5

(* What splitting leaves of a block: the wanted part and the upper halves. *)
Uppers(b, r, k) == {<<b + power_of_two[j], j>> : j \in r..(k - 1)}
Parts(x, r, U, y) == U = Uppers(x[1], r, x[2]) /\ y = <<x[1], r>>

(* The parts are disjoint, cover the block, and each upper half has a buddy *)
(* that begins where the block does.                                        *)
LEMMA SplitBlock ==
    ASSUME NEW x \in AllBlocks, NEW r \in Nat, r <= x[2],
           NEW U, U = Uppers(x[1], r, x[2]), NEW y, y = <<x[1], r>>
    PROVE  /\ U \subseteq AllBlocks /\ y \in AllBlocks /\ y \notin U
           /\ Disjointed(U \cup {y}) /\ Extent(U \cup {y}) = Span(x)
           /\ \A u \in U : u[2] < x[2] /\ BuddyBlock(u) = <<x[1], u[2]>>
<1>n. PICK b, k : b = x[1] /\ k = x[2] OBVIOUS
<1>1. /\ b \in Nat /\ k \in Nat /\ k <= max_order /\ Aligned(b, k) /\ r <= k
      /\ power_of_two[k] \in Nat /\ b + power_of_two[k] <= total_pages
      /\ \A p : p \in Span(x) <=> p \in Nat /\ b <= p /\ p < b + power_of_two[k]
  BY <1>n, BlockIs
<1>2. \A j \in Nat : power_of_two[j] \in Nat \ {0} /\ power_of_two[j + 1] = 2 * power_of_two[j]
  BY PowerFacts
<1>3. ASSUME NEW j \in Nat, r <= j, j < k, NEW u, u = <<b + power_of_two[j], j>>
      PROVE  /\ u \in AllBlocks /\ BuddyBlock(u) = <<b, j>>
             /\ \A p : p \in Span(u) <=> p \in Nat /\ b + power_of_two[j] <= p /\ p < b + power_of_two[j + 1]
             /\ b + power_of_two[j + 1] <= b + power_of_two[k]
  <2>n. PICK n : n = power_of_two[j] OBVIOUS
  <2>1. n \in Nat \ {0} /\ power_of_two[j + 1] = 2 * n /\ j + 1 \in Nat /\ j + 1 <= k
    BY <1>1, <1>2, <1>3, <2>n
  <2>2. Aligned(b, j + 1) BY <1>1, <2>1, AlignedLower
  <2>3. BuddyOf(b + n, j) = b /\ Aligned(b + n, j) BY <1>1, <2>2, <2>n, Halves
  <2>4. power_of_two[j + 1] <= power_of_two[k] BY <1>1, <2>1, PowerMonotone
  <2>5. b + n \in Managed /\ j \in Orders
    <3>1. b + n \in Nat /\ b + n < b + 2 * n /\ b + 2 * n <= total_pages
      BY <1>1, <2>1, <2>4, BuddyNumbers
    <3>2. b + n < total_pages /\ j <= max_order BY <1>1, <1>3, <2>1, <3>1, BuddyNumbers
    <3> QED BY <3>1, <3>2, BuddyNumbers
  <2>6. u = <<b + n, j>> /\ u[1] = b + n /\ u[2] = j BY <1>3, <2>n
  <2>7. u \in AllBlocks BY <2>3, <2>5, <2>6 DEF AllBlocks
  <2>8. BuddyBlock(u) = <<b, j>> BY <2>3, <2>6 DEF BuddyBlock
  <2>9. \A p : p \in Span(u) <=> p \in Nat /\ b + n <= p /\ p < (b + n) + n
    BY <2>6, <2>7, <2>n, BlockIs
  <2>10. (b + n) + n = b + power_of_two[j + 1] BY <1>1, <2>1
  <2>11. b + power_of_two[j + 1] <= b + power_of_two[k] BY <1>1, <2>1, <2>4
  <2> QED BY <2>7, <2>8, <2>9, <2>10, <2>11, <2>n
<1>4. \A u \in U : \E j \in Nat : r <= j /\ j < k /\ u = <<b + power_of_two[j], j>>
  BY <1>1, <1>n DEF Uppers
<1>5. \A j \in Nat : r <= j /\ j < k => <<b + power_of_two[j], j>> \in U BY <1>1, <1>n DEF Uppers
<1>6. y \in AllBlocks /\ \A p : p \in Span(y) <=> p \in Nat /\ b <= p /\ p < b + power_of_two[r]
  <2>1. Aligned(b, r) BY <1>1, AlignedLower
  <2>2. b \in Managed /\ r \in Orders
    <3>1. b \in Managed BY <1>n DEF AllBlocks
    <3> QED BY <1>1, <3>1, BuddyNumbers
  <2>3. y \in AllBlocks BY <1>n, <2>1, <2>2 DEF AllBlocks
  <2> QED BY <1>n, <2>3, BlockIs
<1>7. U \subseteq AllBlocks /\ \A u \in U : u[2] < k /\ BuddyBlock(u) = <<b, u[2]>>
  <2>1. ASSUME NEW u \in U PROVE u \in AllBlocks /\ u[2] < k /\ BuddyBlock(u) = <<b, u[2]>>
    <3>1. PICK j \in Nat : r <= j /\ j < k /\ u = <<b + power_of_two[j], j>> BY <1>4
    <3> QED BY <1>3, <3>1
  <2> QED BY <2>1
<1>8. ASSUME NEW u \in U PROVE Span(u) \cap Span(y) = {} /\ u # y
  <2>1. PICK j \in Nat : r <= j /\ j < k /\ u = <<b + power_of_two[j], j>> BY <1>4
  <2>2. \A p : p \in Span(u) <=> p \in Nat /\ b + power_of_two[j] <= p /\ p < b + power_of_two[j + 1]
    BY <1>3, <2>1
  <2>3. power_of_two[r] <= power_of_two[j] BY <2>1, PowerMonotone
  <2>4. power_of_two[r] \in Nat \ {0} /\ power_of_two[j] \in Nat \ {0} BY <1>2
  <2>5. Span(u) \cap Span(y) = {} BY <1>1, <1>6, <2>2, <2>3, <2>4
  <2>6. u[1] # y[1] BY <1>1, <1>n, <2>1, <2>4
  <2> QED BY <2>5, <2>6
<1>9. ASSUME NEW u \in U, NEW v \in U, u[2] < v[2] PROVE Span(u) \cap Span(v) = {}
  <2>1. PICK i \in Nat : r <= i /\ i < k /\ u = <<b + power_of_two[i], i>> BY <1>4
  <2>2. PICK j \in Nat : r <= j /\ j < k /\ v = <<b + power_of_two[j], j>> BY <1>4
  <2>3. \A p : p \in Span(u) <=> p \in Nat /\ b + power_of_two[i] <= p /\ p < b + power_of_two[i + 1]
    BY <1>3, <2>1
  <2>4. \A p : p \in Span(v) <=> p \in Nat /\ b + power_of_two[j] <= p /\ p < b + power_of_two[j + 1]
    BY <1>3, <2>2
  <2>5. i + 1 \in Nat /\ i + 1 <= j BY <1>9, <2>1, <2>2
  <2>6. power_of_two[i + 1] <= power_of_two[j] /\ power_of_two[i + 1] \in Nat /\ power_of_two[j] \in Nat
    BY <1>2, <2>5, PowerMonotone
  <2> QED BY <1>1, <2>3, <2>4, <2>6
<1>10. ASSUME NEW u \in U, NEW v \in U, u # v PROVE Span(u) \cap Span(v) = {}
  <2>1. u[2] \in Nat /\ v[2] \in Nat /\ u[2] # v[2]
    <3>1. PICK i \in Nat : r <= i /\ i < k /\ u = <<b + power_of_two[i], i>> BY <1>4
    <3>2. PICK j \in Nat : r <= j /\ j < k /\ v = <<b + power_of_two[j], j>> BY <1>4
    <3> QED BY <1>10, <3>1, <3>2
  <2>2. u[2] < v[2] \/ v[2] < u[2] BY <2>1
  <2> QED BY <1>9, <2>2
<1>11. Disjointed(U \cup {y}) BY <1>8, <1>10 DEF Disjointed
<1>12. ASSUME NEW u \in U \cup {y} PROVE Span(u) \subseteq Span(x)
  <2>1. CASE u = y
    <3>1. power_of_two[r] <= power_of_two[k] /\ power_of_two[r] \in Nat BY <1>1, <1>2, PowerMonotone
    <3> QED BY <1>1, <1>6, <2>1, <3>1
  <2>2. CASE u \in U
    <3>1. PICK j \in Nat : r <= j /\ j < k /\ u = <<b + power_of_two[j], j>> BY <1>4, <2>2
    <3>2. /\ \A p : p \in Span(u) <=> p \in Nat /\ b + power_of_two[j] <= p /\ p < b + power_of_two[j + 1]
          /\ b + power_of_two[j + 1] <= b + power_of_two[k]
      BY <1>3, <3>1
    <3>3. power_of_two[j] \in Nat /\ power_of_two[j + 1] \in Nat BY <1>2, <3>1
    <3> QED BY <1>1, <3>2, <3>3
  <2> QED BY <2>1, <2>2
<1>13. ASSUME NEW p \in Span(x) PROVE \E u \in U \cup {y} : p \in Span(u)
  <2>1. p \in Nat /\ b <= p /\ p < b + power_of_two[k] BY <1>1
  <2>2. CASE p < b + power_of_two[r] BY <1>6, <2>1, <2>2
  <2>3. CASE ~ (p < b + power_of_two[r])
    <3> DEFINE S == {j \in r..k : p < b + power_of_two[j]}
    <3>1. k \in S /\ S \subseteq Nat BY <1>1, <2>1
    <3>2. PICK m \in S : \A j \in S : m <= j
      <4>1. S # {} /\ S \subseteq Nat BY <3>1
      <4> HIDE DEF S
      <4> QED BY <4>1, Least
    <3>3. m \in Nat /\ r < m /\ m <= k /\ p < b + power_of_two[m] BY <1>1, <2>3, <3>2
    <3>4. m - 1 \in Nat /\ r <= m - 1 /\ m - 1 < k /\ (m - 1) + 1 = m /\ m - 1 \in r..k /\ ~ (m <= m - 1)
      BY <1>1, <3>3
    <3>5. ~ (p < b + power_of_two[m - 1]) BY <3>2, <3>4
    <3>6. power_of_two[m - 1] \in Nat BY <1>2, <3>4
    <3>7. b + power_of_two[m - 1] <= p BY <1>1, <2>1, <3>5, <3>6
    <3>8. PICK u : u = <<b + power_of_two[m - 1], m - 1>> OBVIOUS
    <3>9. u \in U BY <1>5, <3>4, <3>8
    <3>10. p \in Span(u) BY <1>3, <2>1, <3>3, <3>4, <3>7, <3>8
    <3> QED BY <3>9, <3>10
  <2> QED BY <2>2, <2>3
<1>14. Extent(U \cup {y}) = Span(x) BY <1>12, <1>13 DEF Extent
<1> QED BY <1>6, <1>7, <1>8, <1>11, <1>14, <1>n

(* What holds of free and held blocks after every call. *)
BlocksOK(F, H) ==
    /\ F \subseteq AllBlocks /\ H \subseteq AllBlocks /\ F \cap H = {}
    /\ Disjointed(F \cup H) /\ Extent(F \cup H) = Managed
    /\ Lonely(F)

(* Blocks that share a page are one. *)
LEMMA SameBlock ==
    ASSUME NEW S, Disjointed(S), NEW x \in S, NEW y \in S, NEW p \in Span(x), p \in Span(y)
    PROVE  x = y
  BY DEF Disjointed

(* A block is taken, and split. *)
LEMMA TakeBlock ==
    ASSUME NEW F, NEW H, BlocksOK(F, H), NEW x \in F, NEW r \in Nat, r <= x[2],
           NEW U, NEW y, Parts(x, r, U, y)
    PROVE  /\ BlocksOK((F \ {x}) \cup U, H \cup {y})
           /\ Extent((F \ {x}) \cup U) = Extent(F) \ Span(y)
           /\ Span(y) \subseteq Span(x) /\ Span(x) \subseteq Extent(F)
           /\ y \in AllBlocks /\ U \cap F \subseteq {x} /\ y \notin H
           /\ \A h \in H : h[1] # x[1]
<1>0. U = Uppers(x[1], r, x[2]) /\ y = <<x[1], r>> BY DEF Parts
<1>1. /\ F \subseteq AllBlocks /\ H \subseteq AllBlocks /\ F \cap H = {} /\ x \in AllBlocks
      /\ Disjointed(F \cup H) /\ Extent(F \cup H) = Managed /\ Lonely(F)
  BY DEF BlocksOK
<1>2. /\ U \subseteq AllBlocks /\ y \in AllBlocks /\ y \notin U
      /\ Disjointed(U \cup {y}) /\ Extent(U \cup {y}) = Span(x)
      /\ \A u \in U : u[2] < x[2] /\ BuddyBlock(u) = <<x[1], u[2]>>
  BY <1>0, <1>1, SplitBlock
<1>3. \A u \in U \cup {y} : Span(u) \subseteq Span(x) /\ u \in AllBlocks /\ u[1] \in Span(u)
  BY <1>2, BlockIs DEF Extent
<1>4. ASSUME NEW v \in (F \cup H) \ {x}, NEW u \in U \cup {y} PROVE Span(v) \cap Span(u) = {} /\ u # v
  <2>1. Span(v) \cap Span(x) = {} BY <1>1 DEF Disjointed
  <2> QED BY <1>3, <2>1
<1>5. Disjointed(((F \ {x}) \cup U) \cup (H \cup {y}))
  <2>1. ASSUME NEW v \in ((F \ {x}) \cup U) \cup (H \cup {y}), NEW w \in ((F \ {x}) \cup U) \cup (H \cup {y}), v # w
        PROVE  Span(v) \cap Span(w) = {}
    <3>1. (v \in (F \cup H) \ {x} \/ v \in U \cup {y}) /\ (w \in (F \cup H) \ {x} \/ w \in U \cup {y})
      BY <1>1
    <3>2. CASE v \in (F \cup H) \ {x} /\ w \in (F \cup H) \ {x} BY <1>1, <2>1, <3>2 DEF Disjointed
    <3>3. CASE v \in U \cup {y} /\ w \in U \cup {y} BY <1>2, <2>1, <3>3 DEF Disjointed
    <3> QED BY <1>4, <3>1, <3>2, <3>3
  <2> QED BY <2>1 DEF Disjointed
<1>6. Extent(((F \ {x}) \cup U) \cup (H \cup {y})) = Managed
  <2>1. Extent(((F \ {x}) \cup U) \cup (H \cup {y})) = Extent((F \cup H) \ {x}) \cup Extent(U \cup {y})
    BY <1>1 DEF Extent
  <2>2. Extent(F \cup H) = Extent((F \cup H) \ {x}) \cup Span(x) BY DEF Extent
  <2> QED BY <1>1, <1>2, <2>1, <2>2
<1>7. \A h \in H : h[1] # x[1]
  <2>1. ASSUME NEW h \in H, h[1] = x[1] PROVE FALSE
    <3>1. h \in AllBlocks /\ h \in (F \cup H) \ {x} BY <1>1
    <3>2. h[1] \in Span(h) /\ x[1] \in Span(x) BY <1>1, <3>1, BlockIs
    <3>3. Span(h) \cap Span(x) = {} BY <1>1, <3>1 DEF Disjointed
    <3> QED BY <2>1, <3>2, <3>3
  <2> QED BY <2>1
<1>8. y \notin H /\ U \cap F \subseteq {x} /\ ((F \ {x}) \cup U) \cap (H \cup {y}) = {}
  <2>1. y \notin H BY <1>0, <1>7
  <2>2. \A u \in U \cup {y} : u \notin (F \cup H) \ {x} BY <1>4
  <2>3. \A u \in U : u # x
    <3>1. x[2] \in Nat BY <1>1, BlockIs
    <3> QED BY <1>2, <3>1
  <2>4. y \notin F \ {x} BY <2>2
  <2> QED BY <1>1, <1>2, <2>1, <2>2, <2>3, <2>4
<1>9. Lonely((F \ {x}) \cup U)
  <2>1. ASSUME NEW j, j < x[2], <<x[1], j>> \in F PROVE FALSE
    <3>1. <<x[1], j>> \in AllBlocks /\ x[2] \in Nat BY <1>1, <2>1, BlockIs
    <3>2. x[1] \in Span(<<x[1], j>>) /\ x[1] \in Span(x)
      <4>1. PICK e : e = <<x[1], j>> OBVIOUS
      <4>2. e[1] \in Span(e) /\ e[1] = x[1] BY <3>1, <4>1, BlockIs
      <4> QED BY <1>1, <4>1, <4>2, BlockIs
    <3>3. <<x[1], j>> = x BY <1>1, <2>1, <3>2, SameBlock
    <3>4. <<x[1], j>>[2] = j OBVIOUS
    <3>5. j = x[2] BY <3>3, <3>4
    <3> QED BY <2>1, <3>1, <3>5
  <2>2. ASSUME NEW v \in (F \ {x}) \cup U, v[2] < max_order, BuddyBlock(v) \in (F \ {x}) \cup U
        PROVE  FALSE
    <3>0. v \in AllBlocks BY <1>1, <1>2
    <3>1. BuddyBlock(BuddyBlock(v)) = v /\ BuddyBlock(v)[2] = v[2] BY <2>2, <3>0, BuddyFacts
    <3>2. CASE v \in U
      <4>1. v[2] < x[2] /\ BuddyBlock(v) = <<x[1], v[2]>> BY <1>2, <3>2
      <4>2. <<x[1], v[2]>> \notin U
        <5>1. ASSUME <<x[1], v[2]>> \in U PROVE FALSE
          <6>1. PICK j \in r..(x[2] - 1) : <<x[1], v[2]>> = <<x[1] + power_of_two[j], j>>
            BY <1>0, <5>1 DEF Uppers
          <6>2. x[1] = x[1] + power_of_two[j] /\ j \in Nat /\ x[1] \in Nat
            <7>1. x[2] \in Nat /\ x[1] \in Nat BY <1>1, BlockIs
            <7> QED BY <6>1, <7>1
          <6>3. power_of_two[j] \in Nat \ {0} BY <6>2, PowerFacts
          <6> QED BY <6>2, <6>3
        <5> QED BY <5>1
      <4> QED BY <2>1, <2>2, <4>1, <4>2
    <3>3. CASE BuddyBlock(v) \in U
      <4>1. v = <<x[1], v[2]>> /\ v[2] < x[2] BY <1>2, <3>1, <3>3
      <4>2. v \notin U
        <5>1. ASSUME v \in U PROVE FALSE
          <6>1. PICK j \in r..(x[2] - 1) : v = <<x[1] + power_of_two[j], j>>
            BY <1>0, <5>1 DEF Uppers
          <6>2. x[1] = x[1] + power_of_two[j] /\ j \in Nat /\ x[1] \in Nat
            <7>1. x[2] \in Nat /\ x[1] \in Nat BY <1>1, BlockIs
            <7> QED BY <4>1, <6>1, <7>1
          <6>3. power_of_two[j] \in Nat \ {0} BY <6>2, PowerFacts
          <6> QED BY <6>2, <6>3
        <5> QED BY <5>1
      <4> QED BY <2>1, <2>2, <4>1, <4>2
    <3>4. CASE v \in F /\ BuddyBlock(v) \in F BY <1>1, <2>2, <3>4 DEF Lonely
    <3> QED BY <2>2, <3>2, <3>3, <3>4
  <2> QED BY <2>2 DEF Lonely
<1>10. Extent((F \ {x}) \cup U) = Extent(F) \ Span(y)
  <2>1. Extent(F) = Extent(F \ {x}) \cup Span(x) BY DEF Extent
  <2>2. Extent(F \ {x}) \cap Span(x) = {} BY <1>1 DEF Extent, Disjointed
  <2>3. Extent(U) \cap Span(y) = {} BY <1>2 DEF Extent, Disjointed
  <2>4. Extent(U \cup {y}) = Extent(U) \cup Span(y) /\ Extent((F \ {x}) \cup U) = Extent(F \ {x}) \cup Extent(U)
    BY DEF Extent
  <2>5. Extent(U) \cup Span(y) = Span(x) BY <1>2, <2>4
  <2>6. ASSUME NEW p PROVE p \in Extent((F \ {x}) \cup U) <=> p \in Extent(F) \ Span(y)
    BY <2>1, <2>2, <2>3, <2>4, <2>5
  <2> QED BY <2>6
<1>11. BlocksOK((F \ {x}) \cup U, H \cup {y})
  <2>1. (F \ {x}) \cup U \subseteq AllBlocks /\ H \cup {y} \subseteq AllBlocks BY <1>1, <1>2
  <2> QED BY <1>5, <1>6, <1>8, <1>9, <2>1 DEF BlocksOK
<1>12. Span(x) \subseteq Extent(F) /\ Span(y) \subseteq Span(x) BY <1>3 DEF Extent
<1> QED BY <1>2, <1>7, <1>8, <1>10, <1>11, <1>12

-----------------------------------------------------------------------------
(* The lists of free blocks. *)
ListsOK(lists) == lists \in [Orders -> Seq(Managed)] /\ \A k \in Orders : IsInjective(lists[k])
FreeIn(lists) == {b \in Managed \X Orders : b[1] \in Range(lists[b[2]])}

(* An element more in a list. *)
LEMMA InsertAtIs ==
    ASSUME NEW T, NEW s \in Seq(T), NEW k \in 1..(Len(s) + 1), NEW e \in T
    PROVE  LET r == InsertAt(s, k, e) IN
           /\ r \in Seq(T) /\ Len(r) = Len(s) + 1 /\ DOMAIN r = 1..(Len(s) + 1)
           /\ \A i \in 1..(Len(s) + 1) : r[i] = IF i < k THEN s[i] ELSE IF i = k THEN e ELSE s[i - 1]
<1> DEFINE a == SubSeq(s, 1, k - 1)
           b == SubSeq(s, k, Len(s))
           c == a \o <<e>>
<1>1. Len(s) \in Nat /\ k \in Nat \ {0} /\ \A i \in 1..Len(s) : s[i] \in T OBVIOUS
<1>2. a \in Seq(T) /\ Len(a) = k - 1 /\ \A i \in 1..(k - 1) : a[i] = s[i]
  <2>1. 1 \in Int /\ k - 1 \in Int /\ \A i \in 1..(k - 1) : s[i] \in T BY <1>1
  <2> QED BY <1>1, <2>1, SubSeqProperties
<1>3. b \in Seq(T) /\ Len(b) = Len(s) - k + 1 /\ \A i \in 1..(Len(s) - k + 1) : b[i] = s[k + i - 1]
  <2>1. k \in Int /\ Len(s) \in Int /\ \A i \in k..Len(s) : s[i] \in T BY <1>1
  <2> QED BY <1>1, <2>1, SubSeqProperties
<1>4. c \in Seq(T) /\ Len(c) = k /\ \A i \in 1..k : c[i] = IF i < k THEN s[i] ELSE e
  <2>1. <<e>> \in Seq(T) /\ Len(<<e>>) = 1 /\ <<e>>[1] = e OBVIOUS
  <2> HIDE DEF a
  <2>2. /\ c \in Seq(T) /\ Len(c) = (k - 1) + 1
        /\ \A i \in 1..((k - 1) + 1) : c[i] = IF i <= k - 1 THEN a[i] ELSE <<e>>[i - (k - 1)]
    BY <1>2, <2>1, ConcatProperties
  <2> HIDE DEF c
  <2> QED BY <1>1, <1>2, <2>1, <2>2
<1> HIDE DEF a, b, c
<1>5. /\ c \o b \in Seq(T) /\ Len(c \o b) = Len(s) + 1
      /\ \A i \in 1..(Len(s) + 1) : (c \o b)[i] = IF i <= k THEN c[i] ELSE b[i - k]
  <2>1. /\ c \o b \in Seq(T) /\ Len(c \o b) = Len(c) + Len(b)
        /\ \A i \in 1..(Len(c) + Len(b)) : (c \o b)[i] = IF i <= Len(c) THEN c[i] ELSE b[i - Len(c)]
    BY <1>3, <1>4, ConcatProperties
  <2>2. Len(c) + Len(b) = Len(s) + 1 BY <1>1, <1>3, <1>4
  <2> QED BY <1>4, <2>1, <2>2
<1>6. \A i \in 1..(Len(s) + 1) :
        (c \o b)[i] = IF i < k THEN s[i] ELSE IF i = k THEN e ELSE s[i - 1]
  <2> SUFFICES ASSUME NEW i \in 1..(Len(s) + 1)
               PROVE  (c \o b)[i] = IF i < k THEN s[i] ELSE IF i = k THEN e ELSE s[i - 1]
    OBVIOUS
  <2>1. CASE i <= k BY <1>1, <1>4, <1>5, <2>1
  <2>2. CASE ~ (i <= k)
    <3>1. i - k \in 1..(Len(s) - k + 1) /\ k + (i - k) - 1 = i - 1 /\ ~ (i < k) /\ i # k
      BY <1>1, <2>2
    <3> QED BY <1>3, <1>5, <2>2, <3>1
  <2> QED BY <2>1, <2>2
<1>7. InsertAt(s, k, e) = c \o b BY DEF InsertAt, a, b, c
<1> QED BY <1>5, <1>6, <1>7, LenProperties

(* buddy_insert_block puts the block into the list, once. *)
LEMMA InsertedList ==
    ASSUME NEW list \in Seq(Managed), IsInjective(list), NEW block \in Managed, block \notin Range(list),
           NEW r, r = buddy_insert_block(list, block)
    PROVE  r \in Seq(Managed) /\ IsInjective(r) /\ Range(r) = Range(list) \cup {block}
<1> DEFINE behind == {i \in DOMAIN list : block < list[i]}
<1>n. PICK k : k = IF behind = {} THEN 1 ELSE Min(behind) OBVIOUS
<1>1. Len(list) \in Nat /\ DOMAIN list = 1..Len(list) /\ k \in 1..(Len(list) + 1)
  <2>1. Len(list) \in Nat /\ DOMAIN list = 1..Len(list) OBVIOUS
  <2>2. behind # {} => Min(behind) \in behind
    <3>1. behind \subseteq Nat BY <2>1
    <3> HIDE DEF behind
    <3> QED BY <3>1, MinIsLeast
  <2> QED BY <1>n, <2>1, <2>2
<1>2. r = InsertAt(list, k, block) BY <1>n DEF buddy_insert_block
<1>3. /\ r \in Seq(Managed) /\ DOMAIN r = 1..(Len(list) + 1)
      /\ \A i \in 1..(Len(list) + 1) : r[i] = IF i < k THEN list[i] ELSE IF i = k THEN block ELSE list[i - 1]
  <2> HIDE DEF behind
  <2>1. LET q == InsertAt(list, k, block) IN
        /\ q \in Seq(Managed) /\ Len(q) = Len(list) + 1 /\ DOMAIN q = 1..(Len(list) + 1)
        /\ \A i \in 1..(Len(list) + 1) : q[i] = IF i < k THEN list[i] ELSE IF i = k THEN block ELSE list[i - 1]
    BY <1>1, InsertAtIs
  <2> QED BY <1>2, <2>1
<1>4. \A i \in 1..Len(list) : list[i] # block BY <1>1 DEF Range
<1>5. \A i, j \in 1..Len(list) : list[i] = list[j] => i = j BY <1>1 DEF IsInjective
<1>6. \A i, j \in 1..(Len(list) + 1) : r[i] = r[j] => i = j
  <2> SUFFICES ASSUME NEW i \in 1..(Len(list) + 1), NEW j \in 1..(Len(list) + 1), r[i] = r[j]
               PROVE  i = j
    OBVIOUS
  <2>1. /\ i < k => i \in 1..Len(list) /\ r[i] = list[i]
        /\ i = k => r[i] = block
        /\ i > k => i - 1 \in 1..Len(list) /\ r[i] = list[i - 1]
    BY <1>1, <1>3
  <2>2. /\ j < k => j \in 1..Len(list) /\ r[j] = list[j]
        /\ j = k => r[j] = block
        /\ j > k => j - 1 \in 1..Len(list) /\ r[j] = list[j - 1]
    BY <1>1, <1>3
  <2>3. (i < k \/ i = k \/ i > k) /\ (j < k \/ j = k \/ j > k) BY <1>1
  <2>4. CASE i = k \/ j = k BY <1>1, <1>4, <2>1, <2>2, <2>3, <2>4
  <2>5. CASE i < k /\ j < k BY <1>5, <2>1, <2>2, <2>5
  <2>6. CASE i > k /\ j > k
    <3>1. i - 1 = j - 1 BY <1>5, <2>1, <2>2, <2>6
    <3> QED BY <3>1
  <2>7. CASE i < k /\ j > k
    <3>1. i = j - 1 BY <1>5, <2>1, <2>2, <2>7
    <3> QED BY <1>1, <2>7, <3>1
  <2>8. CASE i > k /\ j < k
    <3>1. i - 1 = j BY <1>5, <2>1, <2>2, <2>8
    <3> QED BY <1>1, <2>8, <3>1
  <2> QED BY <2>3, <2>4, <2>5, <2>6, <2>7, <2>8
<1>7. IsInjective(r) BY <1>3, <1>6 DEF IsInjective
<1>8. \A v \in Range(r) : v \in Range(list) \cup {block}
  <2>1. ASSUME NEW i \in 1..(Len(list) + 1) PROVE r[i] \in Range(list) \cup {block}
    <3>1. /\ i < k => i \in 1..Len(list) /\ r[i] = list[i]
          /\ i = k => r[i] = block
          /\ i > k => i - 1 \in 1..Len(list) /\ r[i] = list[i - 1]
      BY <1>1, <1>3
    <3>2. i < k \/ i = k \/ i > k BY <1>1
    <3> QED BY <1>1, <3>1, <3>2 DEF Range
  <2> QED BY <1>3, <2>1 DEF Range
<1>9. \A v \in Range(list) \cup {block} : v \in Range(r)
  <2>1. block \in Range(r)
    <3>1. r[k] = block /\ k \in DOMAIN r BY <1>1, <1>3
    <3> QED BY <3>1 DEF Range
  <2>2. ASSUME NEW i \in 1..Len(list) PROVE list[i] \in Range(r)
    <3>1. CASE i < k
      <4>1. r[i] = list[i] /\ i \in DOMAIN r BY <1>1, <1>3, <3>1
      <4> QED BY <4>1 DEF Range
    <3>2. CASE ~ (i < k)
      <4>1. i + 1 \in DOMAIN r /\ (i + 1) - 1 = i /\ ~ (i + 1 < k) /\ i + 1 # k BY <1>1, <1>3, <3>2
      <4>2. r[i + 1] = list[i] BY <1>3, <4>1
      <4> QED BY <4>1, <4>2 DEF Range
    <3> QED BY <3>1, <3>2
  <2> QED BY <1>1, <2>1, <2>2 DEF Range
<1> QED BY <1>3, <1>7, <1>8, <1>9

(* Taking an entry out of a list without repetition leaves all others. *)
LEMMA RemovedList ==
    ASSUME NEW list \in Seq(Managed), IsInjective(list), NEW k \in DOMAIN list, NEW r, r = RemoveAt(list, k)
    PROVE  r \in Seq(Managed) /\ IsInjective(r) /\ Range(r) = Range(list) \ {list[k]}
<1>1. Len(list) \in Nat /\ DOMAIN list = 1..Len(list) /\ k \in 1..Len(list) OBVIOUS
<1>2. /\ r \in Seq(Managed) /\ DOMAIN r = 1..(Len(list) - 1)
      /\ \A i \in 1..(Len(list) - 1) : r[i] = IF i < k THEN list[i] ELSE list[i + 1]
  BY RemoveAtIs
<1>3. \A i, j \in 1..Len(list) : list[i] = list[j] => i = j BY <1>1 DEF IsInjective
<1>4. ASSUME NEW i \in 1..(Len(list) - 1)
      PROVE  /\ i \in 1..Len(list) /\ i + 1 \in 1..Len(list)
             /\ r[i] = list[IF i < k THEN i ELSE i + 1]
  BY <1>1, <1>2
<1>5. \A i, j \in 1..(Len(list) - 1) : r[i] = r[j] => i = j
  <2> SUFFICES ASSUME NEW i \in 1..(Len(list) - 1), NEW j \in 1..(Len(list) - 1), r[i] = r[j]
               PROVE  i = j
    OBVIOUS
  <2>1. (IF i < k THEN i ELSE i + 1) = (IF j < k THEN j ELSE j + 1) BY <1>3, <1>4
  <2> QED BY <1>1, <2>1
<1>6. IsInjective(r) BY <1>2, <1>5 DEF IsInjective
<1>7. \A v \in Range(r) : v \in Range(list) \ {list[k]}
  <2>1. ASSUME NEW i \in 1..(Len(list) - 1) PROVE r[i] \in Range(list) \ {list[k]}
    <3>1. PICK j : j = IF i < k THEN i ELSE i + 1 OBVIOUS
    <3>2. j \in 1..Len(list) /\ j # k /\ r[i] = list[j] BY <1>1, <1>4, <3>1
    <3>3. list[j] # list[k] BY <1>1, <1>3, <3>2
    <3> QED BY <1>1, <3>2, <3>3 DEF Range
  <2> QED BY <1>2, <2>1 DEF Range
<1>8. \A v \in Range(list) \ {list[k]} : v \in Range(r)
  <2>1. ASSUME NEW j \in 1..Len(list), list[j] # list[k] PROVE list[j] \in Range(r)
    <3>1. j # k BY <2>1
    <3>2. PICK i : i = IF j < k THEN j ELSE j - 1 OBVIOUS
    <3>3. i \in 1..(Len(list) - 1) /\ (IF i < k THEN i ELSE i + 1) = j BY <1>1, <3>1, <3>2
    <3>4. r[i] = list[j] BY <1>4, <3>3
    <3> QED BY <1>2, <3>3, <3>4 DEF Range
  <2> QED BY <1>1, <2>1 DEF Range
<1> QED BY <1>2, <1>6, <1>7, <1>8

(* list_del of a free buddy takes that block out and no other. *)
LEMMA UnlinkedList ==
    ASSUME NEW list \in Seq(Managed), IsInjective(list), NEW block \in Range(list),
           NEW r, r = Unlinked(list, block)
    PROVE  r \in Seq(Managed) /\ IsInjective(r) /\ Range(r) = Range(list) \ {block}
<1> DEFINE S == {i \in DOMAIN list : list[i] = block}
<1>1. S # {} /\ S \subseteq Nat BY DEF Range
<1>k. PICK k : k = Min(S) OBVIOUS
<1>2. k \in S
  <2> HIDE DEF S
  <2> QED BY <1>k, <1>1, MinIsLeast
<1>3. r = RemoveAt(list, k) /\ k \in DOMAIN list /\ list[k] = block BY <1>k, <1>2 DEF Unlinked
<1> QED BY <1>3, RemovedList

(* So does list_del of the first block. *)
LEMMA TailList ==
    ASSUME NEW list \in Seq(Managed), IsInjective(list), list # <<>>
    PROVE  /\ Tail(list) \in Seq(Managed) /\ IsInjective(Tail(list))
           /\ Head(list) \in Range(list) /\ Range(Tail(list)) = Range(list) \ {Head(list)}
<1>1. /\ Len(list) \in Nat \ {0} /\ DOMAIN list = 1..Len(list) /\ Head(list) = list[1]
      /\ Tail(list) \in Seq(Managed) /\ Len(Tail(list)) = Len(list) - 1
      /\ \A i \in 1..(Len(list) - 1) : Tail(list)[i] = list[i + 1]
  OBVIOUS
<1>2. 1 \in DOMAIN list BY <1>1
<1>3. /\ RemoveAt(list, 1) \in Seq(Managed) /\ Len(RemoveAt(list, 1)) = Len(list) - 1
      /\ \A i \in 1..(Len(list) - 1) : RemoveAt(list, 1)[i] = list[i + 1]
  <2>1. \A i \in 1..(Len(list) - 1) : ~ (i < 1) BY <1>1
  <2> QED BY <1>2, <2>1, RemoveAtIs
<1>4. Tail(list) = RemoveAt(list, 1) BY <1>1, <1>3, SeqEqual
<1>5. IsInjective(Tail(list)) /\ Range(Tail(list)) = Range(list) \ {list[1]}
  BY <1>2, <1>4, RemovedList
<1>6. Head(list) \in Range(list) BY <1>1, <1>2 DEF Range
<1> QED BY <1>1, <1>5, <1>6

-----------------------------------------------------------------------------
(* Merging: the block that is given back, among the others. *)
Merging(G, H, x) == x \notin H /\ BlocksOK(G, H \cup {x})

(* The block joins its buddy. *)
LEMMA MergeRound ==
    ASSUME NEW G, NEW H, NEW x, Merging(G, H, x), x[2] < max_order,
           NEW z, z = BuddyBlock(x), z \in G, NEW w, w = WholeBlock(x)
    PROVE  Merging(G \ {z}, H, w) /\ w \in AllBlocks /\ w[2] = x[2] + 1
<1>1. /\ G \subseteq AllBlocks /\ H \cup {x} \subseteq AllBlocks /\ G \cap (H \cup {x}) = {}
      /\ Disjointed(G \cup (H \cup {x})) /\ Extent(G \cup (H \cup {x})) = Managed /\ Lonely(G)
      /\ x \notin H
  BY DEF Merging, BlocksOK
<1>2. /\ z \in AllBlocks /\ z[2] = x[2] /\ z # x /\ w \in AllBlocks /\ w[2] = x[2] + 1
      /\ Span(w) = Span(x) \cup Span(z)
  BY <1>1, BuddyFacts
<1>3. x[2] \in Nat /\ x[1] \in Span(x) /\ x \in AllBlocks BY <1>1, BlockIs
<1>4. \A v \in (G \ {z}) \cup H : v \in (G \cup (H \cup {x})) \ {x, z} /\ v \in AllBlocks BY <1>1
<1>5. ASSUME NEW v \in (G \ {z}) \cup H PROVE Span(v) \cap Span(w) = {} /\ v # w
  <2>1. Span(v) \cap Span(x) = {} /\ Span(v) \cap Span(z) = {} BY <1>1, <1>4 DEF Disjointed
  <2>2. Span(v) \cap Span(w) = {} BY <1>2, <2>1
  <2>3. x[1] \in Span(w) BY <1>2, <1>3
  <2> QED BY <2>2, <2>3
<1>6. Disjointed((G \ {z}) \cup (H \cup {w}))
  <2>1. ASSUME NEW v \in (G \ {z}) \cup (H \cup {w}), NEW u \in (G \ {z}) \cup (H \cup {w}), v # u
        PROVE  Span(v) \cap Span(u) = {}
    <3>1. CASE v = w \/ u = w BY <1>5, <2>1, <3>1
    <3>2. CASE v # w /\ u # w BY <1>1, <1>4, <2>1, <3>2 DEF Disjointed
    <3> QED BY <3>1, <3>2
  <2> QED BY <2>1 DEF Disjointed
<1>7. Extent((G \ {z}) \cup (H \cup {w})) = Extent(G \cup (H \cup {x}))
  <2>1. ASSUME NEW p PROVE p \in Extent((G \ {z}) \cup (H \cup {w})) <=> p \in Extent(G \cup (H \cup {x}))
    <3>1. p \in Extent((G \ {z}) \cup (H \cup {w})) <=> p \in Extent((G \ {z}) \cup H) \/ p \in Span(w)
      BY DEF Extent
    <3>2. p \in Extent(G \cup (H \cup {x})) <=> p \in Extent((G \ {z}) \cup H) \/ p \in Span(x) \/ p \in Span(z)
      BY DEF Extent
    <3> QED BY <1>2, <3>1, <3>2
  <2> QED BY <2>1
<1>8. w \notin H /\ (G \ {z}) \cap (H \cup {w}) = {} BY <1>1, <1>5
<1>9. Lonely(G \ {z}) BY <1>1 DEF Lonely
<1>10. G \ {z} \subseteq AllBlocks /\ H \cup {w} \subseteq AllBlocks BY <1>1, <1>2
<1>11. BlocksOK(G \ {z}, H \cup {w}) BY <1>1, <1>6, <1>7, <1>8, <1>9, <1>10 DEF BlocksOK
<1> QED BY <1>2, <1>8, <1>11 DEF Merging

(* The block has no free buddy: it is a free block itself. *)
LEMMA MergeEnd ==
    ASSUME NEW G, NEW H, NEW x, Merging(G, H, x), ~ (x[2] < max_order /\ BuddyBlock(x) \in G)
    PROVE  BlocksOK(G \cup {x}, H) /\ x \in AllBlocks /\ x \notin G
<1>1. /\ G \subseteq AllBlocks /\ H \cup {x} \subseteq AllBlocks /\ G \cap (H \cup {x}) = {}
      /\ Disjointed(G \cup (H \cup {x})) /\ Extent(G \cup (H \cup {x})) = Managed /\ Lonely(G)
      /\ x \notin H
  BY DEF Merging, BlocksOK
<1>2. G \cup (H \cup {x}) = (G \cup {x}) \cup H OBVIOUS
<1>3. ASSUME NEW v \in G \cup {x}, v[2] < max_order PROVE BuddyBlock(v) \notin G \cup {x}
  <2>1. v \in AllBlocks BY <1>1
  <2>2. BuddyBlock(v) # v /\ BuddyBlock(BuddyBlock(v)) = v /\ BuddyBlock(v)[2] = v[2]
    BY <1>3, <2>1, BuddyFacts
  <2>3. CASE v = x BY <1>3, <2>2, <2>3
  <2>4. CASE v \in G
    <3>1. BuddyBlock(v) \notin G BY <1>1, <1>3, <2>4 DEF Lonely
    <3>2. BuddyBlock(v) # x BY <1>3, <2>2, <2>4
    <3> QED BY <3>1, <3>2
  <2> QED BY <2>3, <2>4
<1>4. Lonely(G \cup {x}) BY <1>3 DEF Lonely
<1>5. (G \cup {x}) \cap H = {} /\ G \cup {x} \subseteq AllBlocks /\ H \subseteq AllBlocks BY <1>1
<1>6. BlocksOK(G \cup {x}, H) BY <1>1, <1>2, <1>4, <1>5 DEF BlocksOK
<1> QED BY <1>1, <1>6

(* A list that lost or got an element. *)
Lost(list, old, v) == Range(list) = Range(old) \ {v}
Got(list, old, v) == Range(list) = Range(old) \cup {v}
Replaced(lists, j, list, new) ==
    new \in [Orders -> Seq(Managed)] /\ \A k \in Orders : new[k] = IF k = j THEN list ELSE lists[k]

(* The free blocks then lack the block that was taken out, *)
LEMMA FreeInRemoved ==
    ASSUME NEW lists, ListsOK(lists), NEW j \in Orders, NEW v \in Managed, NEW list \in Seq(Managed), IsInjective(list),
           Lost(list, lists[j], v), NEW L, Replaced(lists, j, list, L)
    PROVE  ListsOK(L) /\ FreeIn(L) = FreeIn(lists) \ {<<v, j>>}
<1>1. lists \in [Orders -> Seq(Managed)] /\ \A k \in Orders : IsInjective(lists[k]) BY DEF ListsOK
<1>2. /\ L \in [Orders -> Seq(Managed)]
      /\ \A k \in Orders : L[k] = IF k = j THEN list ELSE lists[k]
  BY DEF Replaced
<1>3. ListsOK(L)
  <2>1. L \in [Orders -> Seq(Managed)] BY <1>1, <1>2
  <2>2. \A k \in Orders : IsInjective(L[k]) BY <1>1, <1>2
  <2> QED BY <2>1, <2>2 DEF ListsOK
<1>4. ASSUME NEW b \in Managed \X Orders PROVE b \in FreeIn(L) <=> b \in FreeIn(lists) \ {<<v, j>>}
  <2>1. b[2] \in Orders /\ b = <<b[1], b[2]>> OBVIOUS
  <2>2. b \in FreeIn(L) <=> b[1] \in Range(L[b[2]]) BY DEF FreeIn
  <2>3. b \in FreeIn(lists) <=> b[1] \in Range(lists[b[2]]) BY DEF FreeIn
  <2>4. CASE b[2] = j
    <3>1. L[b[2]] = list BY <1>2, <2>4
    <3>2. b = <<v, j>> <=> b[1] = v BY <2>1, <2>4
    <3> QED BY <2>2, <2>3, <2>4, <3>1, <3>2 DEF Lost, Got
  <2>5. CASE b[2] # j
    <3>1. L[b[2]] = lists[b[2]] BY <1>2, <2>1, <2>5
    <3>2. b # <<v, j>> BY <2>5
    <3> QED BY <2>2, <2>3, <3>1, <3>2
  <2> QED BY <2>4, <2>5
<1>5. FreeIn(L) \subseteq Managed \X Orders /\ FreeIn(lists) \subseteq Managed \X Orders
  BY DEF FreeIn
<1>6. FreeIn(L) = FreeIn(lists) \ {<<v, j>>} BY <1>4, <1>5
<1> QED BY <1>3, <1>6

(* or have the one that was put in. *)
LEMMA FreeInAdded ==
    ASSUME NEW lists, ListsOK(lists), NEW j \in Orders, NEW v \in Managed, NEW list \in Seq(Managed), IsInjective(list),
           Got(list, lists[j], v), NEW L, Replaced(lists, j, list, L)
    PROVE  ListsOK(L) /\ FreeIn(L) = FreeIn(lists) \cup {<<v, j>>}
<1>1. lists \in [Orders -> Seq(Managed)] /\ \A k \in Orders : IsInjective(lists[k]) BY DEF ListsOK
<1>2. /\ L \in [Orders -> Seq(Managed)]
      /\ \A k \in Orders : L[k] = IF k = j THEN list ELSE lists[k]
  BY DEF Replaced
<1>3. ListsOK(L)
  <2>1. L \in [Orders -> Seq(Managed)] BY <1>1, <1>2
  <2>2. \A k \in Orders : IsInjective(L[k]) BY <1>1, <1>2
  <2> QED BY <2>1, <2>2 DEF ListsOK
<1>4. ASSUME NEW b \in Managed \X Orders PROVE b \in FreeIn(L) <=> b \in FreeIn(lists) \cup {<<v, j>>}
  <2>1. b[2] \in Orders /\ b = <<b[1], b[2]>> OBVIOUS
  <2>2. b \in FreeIn(L) <=> b[1] \in Range(L[b[2]]) BY DEF FreeIn
  <2>3. b \in FreeIn(lists) <=> b[1] \in Range(lists[b[2]]) BY DEF FreeIn
  <2>4. CASE b[2] = j
    <3>1. L[b[2]] = list BY <1>2, <2>4
    <3>2. b = <<v, j>> <=> b[1] = v BY <2>1, <2>4
    <3> QED BY <2>2, <2>3, <2>4, <3>1, <3>2 DEF Lost, Got
  <2>5. CASE b[2] # j
    <3>1. L[b[2]] = lists[b[2]] BY <1>2, <2>1, <2>5
    <3>2. b # <<v, j>> BY <2>5
    <3> QED BY <2>2, <2>3, <3>1, <3>2
  <2> QED BY <2>4, <2>5
<1>5. FreeIn(L) \subseteq Managed \X Orders /\ FreeIn(lists) \subseteq Managed \X Orders /\ <<v, j>> \in Managed \X Orders
  BY DEF FreeIn
<1>6. FreeIn(L) = FreeIn(lists) \cup {<<v, j>>} BY <1>4, <1>5
<1> QED BY <1>3, <1>6

(* The state of the merging loop. *)
MergeState == [lists : [Orders -> Seq(Managed)], block : Managed, order : Orders]
GivenBlock(m) == <<m.block, m.order>>
MergingOK(m, H, space) ==
    /\ m \in MergeState /\ ListsOK(m.lists) /\ Merging(FreeIn(m.lists), H, GivenBlock(m))
    /\ Extent(FreeIn(m.lists)) \subseteq space

Alone(m) == ~ (m.order < max_order /\ BuddyBlock(GivenBlock(m)) \in FreeIn(m.lists))

(* One round keeps the blocks disjoint and aligned; it merges, or the block *)
(* has no free buddy.                                                       *)
LEMMA MergeOnceOK ==
    ASSUME NEW m, NEW H, NEW space, MergingOK(m, H, space), m.order < max_order,
           NEW r, r = MergeOnce(m, m.order)
    PROVE  /\ MergingOK(r, H, space)
           /\ r.order = m.order + 1 \/ (r = m /\ Alone(m))
<1>1. /\ m.lists \in [Orders -> Seq(Managed)] /\ m.block \in Managed /\ m.order \in Orders
      /\ ListsOK(m.lists) /\ Merging(FreeIn(m.lists), H, GivenBlock(m))
      /\ Extent(FreeIn(m.lists)) \subseteq space
  BY DEF MergingOK, MergeState
<1>n. PICK x, buddy, z, list : /\ x = GivenBlock(m) /\ buddy = BuddyOf(m.block, m.order)
                               /\ z = BuddyBlock(x) /\ list = m.lists[m.order]
  OBVIOUS
<1>2. z = <<buddy, m.order>> /\ x[1] = m.block /\ x[2] = m.order BY <1>n DEF BuddyBlock, GivenBlock
<1>3. x \in AllBlocks /\ z \in AllBlocks
  <2>1. x \in AllBlocks BY <1>1, <1>n DEF Merging, BlocksOK
  <2> QED BY <1>2, <1>n, <2>1, BuddyFacts
<1>4. z \in FreeIn(m.lists) <=> buddy \in Range(list)
  <2>1. z \in Managed \X Orders /\ z[1] = buddy /\ z[2] = m.order BY <1>2, <1>3 DEF AllBlocks
  <2> QED BY <1>n, <2>1 DEF FreeIn
<1>5. CASE buddy \notin Range(list)
  <2>1. r = m BY <1>n, <1>5 DEF MergeOnce
  <2>2. Alone(m) BY <1>4, <1>5, <1>n DEF Alone
  <2> QED BY <2>1, <2>2
<1>6. CASE buddy \in Range(list)
  <2>1. /\ r.lists = [m.lists EXCEPT ![m.order] = Unlinked(list, buddy)]
        /\ r.block = Min({m.block, buddy}) /\ r.order = m.order + 1
        /\ r = [lists |-> r.lists, block |-> r.block, order |-> r.order]
    BY <1>n, <1>6 DEF MergeOnce
  <2>2. list \in Seq(Managed) /\ IsInjective(list) BY <1>1, <1>n DEF ListsOK
  <2>l. PICK left : left = Unlinked(list, buddy) OBVIOUS
  <2>3. left \in Seq(Managed) /\ IsInjective(left) /\ Range(left) = Range(list) \ {buddy}
    BY <1>6, <2>2, <2>l, UnlinkedList
  <2>4. ListsOK(r.lists) /\ FreeIn(r.lists) = FreeIn(m.lists) \ {z}
    <3>1. PICK ls, j, L : ls = m.lists /\ j = m.order /\ L = [ls EXCEPT ![j] = left] OBVIOUS
    <3>2. ListsOK(ls) /\ j \in Orders /\ Lost(left, ls[j], buddy) /\ buddy \in Managed
      <4>1. buddy \in Managed BY <1>2, <1>3 DEF AllBlocks
      <4> QED BY <1>1, <1>n, <2>3, <3>1, <4>1 DEF Lost
    <3>3. Replaced(ls, j, left, L)
      <4>1. ls \in [Orders -> Seq(Managed)] /\ left \in Seq(Managed) BY <1>1, <2>3, <3>1
      <4> QED BY <3>1, <3>2, <4>1 DEF Replaced
    <3>4. ListsOK(L) /\ FreeIn(L) = FreeIn(ls) \ {<<buddy, j>>} BY <2>3, <3>2, <3>3, FreeInRemoved
    <3> QED BY <1>2, <2>1, <2>l, <3>1, <3>4
  <2>5. GivenBlock(r) = WholeBlock(x) BY <1>2, <1>n, <2>1 DEF GivenBlock, WholeBlock
  <2>6. Merging(FreeIn(r.lists), H, GivenBlock(r)) /\ GivenBlock(r) \in AllBlocks
    BY <1>1, <1>2, <1>4, <1>6, <1>n, <2>4, <2>5, MergeRound
  <2>7. r.block \in Managed /\ r.order \in Orders
    <3>1. GivenBlock(r)[1] = r.block /\ GivenBlock(r)[2] = r.order BY DEF GivenBlock
    <3> QED BY <2>6, <3>1 DEF AllBlocks
  <2>8. r.lists \in [Orders -> Seq(Managed)] BY <2>4 DEF ListsOK
  <2>9. r \in MergeState BY <2>1, <2>7, <2>8 DEF MergeState
  <2>10. Extent(FreeIn(r.lists)) \subseteq space BY <1>1, <2>4 DEF Extent
  <2> QED BY <2>1, <2>4, <2>6, <2>9, <2>10 DEF MergingOK
<1> QED BY <1>5, <1>6

-----------------------------------------------------------------------------
(* A loop of n rounds exists: after k rounds it is in S[k]. *)
IsLoop(g, n, start, step, S) ==
    /\ DOMAIN g = 0..n /\ g = [k \in 0..n |-> g[k]]
    /\ g[0] = start /\ \A k \in 1..n : g[k] = step[k][g[k - 1]]
    /\ \A k \in 0..n : g[k] \in S[k]

(* A loop of n rounds leads somewhere, its state staying in the set of each *)
(* round.                                                                   *)
LEMMA LoopExists ==
    ASSUME NEW n \in Nat, NEW S, NEW start \in S[0], NEW step,
           \A k \in 1..n : \A u \in S[k - 1] : step[k][u] \in S[k]
    PROVE  \E g : IsLoop(g, n, start, step, S)
<1> DEFINE B == {m \in 0..n : \E g : IsLoop(g, m, start, step, S)}
<1>1. 0 \in B
  <2> DEFINE one == [i \in 0..0 |-> start]
  <2>1. /\ DOMAIN one = 0..0 /\ one = [k \in 0..0 |-> one[k]] /\ one[0] = start /\ 1..0 = {}
        /\ \A k \in 0..0 : one[k] \in S[k]
    OBVIOUS
  <2>2. IsLoop(one, 0, start, step, S) BY <2>1, Zenon DEF IsLoop
  <2>3. 0 \in 0..n OBVIOUS
  <2> QED BY <2>2, <2>3, Zenon
<1>2. ASSUME NEW m \in 1..n, m - 1 \in B PROVE m \in B
  <2>1. PICK g : IsLoop(g, m - 1, start, step, S) BY <1>2
  <2>l. PICK longer : longer = [i \in 0..m |-> IF i = m THEN step[m][g[m - 1]] ELSE g[i]] OBVIOUS
  <2>2. /\ g[0] = start /\ \A k \in 1..(m - 1) : g[k] = step[k][g[k - 1]]
        /\ \A k \in 0..(m - 1) : g[k] \in S[k]
    BY <2>1 DEF IsLoop
  <2>3. DOMAIN longer = 0..m /\ longer = [k \in 0..m |-> longer[k]] BY <2>l
  <2>4. longer[m] = step[m][g[m - 1]] /\ \A k \in 0..(m - 1) : longer[k] = g[k] BY <2>l
  <2>5. longer[0] = start BY <2>2, <2>4
  <2>6. ASSUME NEW k \in 1..m PROVE longer[k] = step[k][longer[k - 1]]
    <3>1. k - 1 \in 0..(m - 1) /\ longer[k - 1] = g[k - 1] BY <2>4
    <3>2. CASE k = m BY <2>4, <3>1, <3>2
    <3>3. CASE k # m
      <4>1. k \in 1..(m - 1) /\ k \in 0..(m - 1) BY <3>3
      <4> QED BY <2>2, <2>4, <3>1, <4>1
    <3> QED BY <3>2, <3>3
  <2>7. ASSUME NEW k \in 0..m PROVE longer[k] \in S[k]
    <3>1. CASE k = m
      <4>1. m - 1 \in 0..(m - 1) /\ g[m - 1] \in S[m - 1] BY <2>2
      <4> QED BY <2>4, <3>1, <4>1
    <3>2. CASE k # m BY <2>2, <2>4, <3>2
    <3> QED BY <3>1, <3>2
  <2>8. IsLoop(longer, m, start, step, S) BY <2>3, <2>5, <2>6, <2>7, Zenon DEF IsLoop
  <2>9. m \in 0..n OBVIOUS
  <2> QED BY <2>8, <2>9, Zenon
<1>3. \A m \in 0..n : m \in B
  <2> HIDE DEF B
  <2> QED BY <1>1, <1>2, StaysIn
<1>4. n \in B BY <1>3
<1> QED BY <1>4

(* The whole loop. *)
LEMMA MergedOK ==
    ASSUME NEW lists, NEW block, NEW order, NEW H, NEW space,
           NEW start, start = [lists |-> lists, block |-> block, order |-> order],
           MergingOK(start, H, space), NEW m, m = Merged(lists, block, order)
    PROVE  MergingOK(m, H, space) /\ Alone(m)
<1>n. PICK n : n = max_order OBVIOUS
<1>0. /\ n \in Nat /\ Orders = 0..n /\ order \in Orders
      /\ \A u : u.order \in Orders => u.order \in Nat /\ u.order <= n
  BY <1>n, BuddyNumbers DEF Orders, MergingOK, MergeState
<1> DEFINE Good(k, u) == /\ MergingOK(u, H, space)
                         /\ (k <= order /\ u = start) \/ (k > order /\ u.order <= k /\ (u.order = k \/ Alone(u)))
           T(k) == {u \in MergeState : Good(k, u)}
           next(k, u) == IF k <= order THEN start ELSE MergeOnce(u, k - 1)
<1>S. PICK S : S = [k \in 0..n |-> T(k)] OBVIOUS
<1>t. PICK step : step = [k \in 1..n |-> [u \in MergeState |-> next(k, u)]] OBVIOUS
<1>1. \A k \in 0..n : \A u : u \in S[k] <=> u \in MergeState /\ Good(k, u) BY <1>S
<1>2. \A k \in 1..n : \A u \in MergeState : step[k][u] = next(k, u) BY <1>t
<1>3. start \in S[0]
  <2>1. start \in MergeState BY DEF MergingOK
  <2>2. 0 <= order /\ 0 \in 0..n BY <1>0
  <2>3. Good(0, start) BY <2>2
  <2> QED BY <1>1, <2>1, <2>2, <2>3
<1>4. ASSUME NEW k \in 1..n, NEW u \in S[k - 1] PROVE step[k][u] \in S[k] /\ u \in MergeState
  <2>1. k - 1 \in 0..n /\ k \in 0..n /\ k \in Nat /\ k - 1 \in Nat /\ order \in Nat BY <1>0
  <2>2. u \in MergeState /\ Good(k - 1, u) BY <1>1, <2>1
  <2>r. PICK r : r = next(k, u) OBVIOUS
  <2>3. r \in MergeState /\ Good(k, r)
    <3>1. CASE k <= order
      <4>1. r = start BY <2>r, <3>1
      <4> QED BY <3>1, <4>1 DEF MergingOK
    <3>2. CASE ~ (k <= order)
      <4>1. r = MergeOnce(u, k - 1) /\ k > order BY <2>r, <2>1, <3>2
      <4>2. MergingOK(u, H, space) /\ u.order \in Nat /\ u.order <= k - 1 /\ (u.order = k - 1 \/ Alone(u))
        <5>1. MergingOK(u, H, space) BY <2>2
        <5>2. u.order \in Nat BY <1>0, <2>2 DEF MergeState
        <5>3. CASE k - 1 <= order
          <6>1. u = start /\ start.order = order /\ order = k - 1 BY <2>1, <2>2, <3>2, <5>3
          <6> QED BY <2>1, <5>1, <5>2, <6>1
        <5>4. CASE ~ (k - 1 <= order) BY <2>2, <5>1, <5>2, <5>4
        <5> QED BY <5>3, <5>4
      <4>3. CASE u.order = k - 1
        <5>1. u.order < max_order /\ r = MergeOnce(u, u.order) BY <1>0, <1>n, <2>1, <4>1, <4>3
        <5>2. MergingOK(r, H, space) /\ (r.order = u.order + 1 \/ (r = u /\ Alone(u)))
          BY <4>2, <5>1, MergeOnceOK
        <5>3. r.order <= k /\ (r.order = k \/ Alone(r)) BY <2>1, <4>3, <5>2
        <5> QED BY <4>1, <5>2, <5>3 DEF MergingOK
      <4>4. CASE u.order # k - 1
        <5>1. r = u BY <4>1, <4>4 DEF MergeOnce
        <5> QED BY <2>1, <2>2, <4>1, <4>2, <4>4, <5>1
      <4> QED BY <4>3, <4>4
    <3> QED BY <3>1, <3>2
  <2>4. step[k][u] = r BY <1>2, <2>2, <2>r
  <2>5. r \in S[k] BY <1>1, <2>1, <2>3
  <2> QED BY <2>2, <2>4, <2>5
<1> HIDE DEF Good, T, next
<1>5. PICK g : IsLoop(g, n, start, step, S)
  <2>1. \A k \in 1..n : \A u \in S[k - 1] : step[k][u] \in S[k] BY <1>4
  <2> QED BY <1>0, <1>3, <2>1, LoopExists
<1>6. /\ g = [k \in 0..n |-> g[k]] /\ g[0] = start /\ \A k \in 1..n : g[k] = step[k][g[k - 1]]
      /\ \A k \in 0..n : g[k] \in S[k]
  BY <1>5 DEF IsLoop
<1> DEFINE rec(h) == [k \in 0..n |-> IF k <= order THEN start ELSE MergeOnce(h[k - 1], k - 1)]
<1>7. g = rec(g)
  <2>1. \A k \in 0..n : g[k] = IF k <= order THEN start ELSE MergeOnce(g[k - 1], k - 1)
    <3> TAKE k \in 0..n
    <3>1. CASE k = 0 BY <1>0, <1>6, <3>1
    <3>2. CASE k # 0
      <4>1. k \in 1..n /\ k - 1 \in 0..n BY <1>0, <3>2
      <4>2. g[k - 1] \in MergeState /\ g[k] = step[k][g[k - 1]] BY <1>4, <1>6, <4>1
      <4>3. g[k] = next(k, g[k - 1]) BY <1>2, <4>1, <4>2
      <4> QED BY <4>3 DEF next
    <3> QED BY <3>1, <3>2
  <2> QED BY <1>6, <2>1, Zenon
<1>c. PICK merge : merge = CHOOSE h : h = rec(h) OBVIOUS
<1>8. merge = rec(merge)
  <2> HIDE DEF rec
  <2> QED BY <1>7, <1>c
<1>9. merge[n] = m BY <1>0, <1>c, <1>n DEF Merged
<1>10. \A k \in 0..n : merge[k] \in S[k]
  <2> DEFINE B == {k \in 0..n : merge[k] = g[k]}
  <2>1. \A k \in 0..n : /\ merge[k] = IF k <= order THEN start ELSE MergeOnce(merge[k - 1], k - 1)
                        /\ g[k] = IF k <= order THEN start ELSE MergeOnce(g[k - 1], k - 1)
    BY <1>7, <1>8
  <2>2. 0 \in B BY <1>0, <2>1
  <2>3. \A k \in 1..n : k - 1 \in B => k \in B BY <2>1
  <2>4. \A k \in 0..n : k \in B
    <3> HIDE DEF B
    <3> QED BY <1>0, <2>2, <2>3, StaysIn
  <2> QED BY <1>6, <2>4
<1>11. m \in MergeState /\ Good(n, m) BY <1>0, <1>1, <1>9, <1>10
<1>12. MergingOK(m, H, space) /\ (m.order = n \/ Alone(m))
  <2>1. CASE n <= order
    <3>1. m = start /\ order = n BY <1>0, <1>11, <2>1 DEF Good
    <3> QED BY <3>1
  <2>2. CASE ~ (n <= order) BY <1>11, <2>2 DEF Good
  <2> QED BY <2>1, <2>2
<1>13. m.order = n => Alone(m) BY <1>0, <1>n DEF Alone
<1> QED BY <1>12, <1>13

-----------------------------------------------------------------------------
(* The pages of blocks. *)
LEMMA SpanCardinality ==
    ASSUME NEW x \in AllBlocks
    PROVE  IsFiniteSet(Span(x)) /\ Cardinality(Span(x)) = power_of_two[x[2]]
<1>n. PICK b, n : b = x[1] /\ n = power_of_two[x[2]] OBVIOUS
<1>1. b \in Nat /\ n \in Nat \ {0} BY <1>n, BlockIs
<1>2. Span(x) = Run(b, n) BY <1>n DEF Span, PagesOf, Run
<1>3. b \in Int /\ n \in Nat BY <1>1
<1> QED BY <1>n, <1>2, <1>3, RunCardinality

(* Blocks cover finitely many pages. *)
LEMMA ExtentFinite ==
    ASSUME NEW S, S \subseteq AllBlocks
    PROVE  IsFiniteSet(Extent(S)) /\ Extent(S) \subseteq Managed /\ Cardinality(Extent(S)) \in Nat
<1>1. Extent(S) \subseteq Managed BY BlockIs DEF Extent
<1>2. IsFiniteSet(Managed)
  <2>1. 0 \in Int /\ total_pages - 1 \in Int BY BuddyNumbers
  <2> QED BY <2>1, FS_Interval DEF Managed
<1>3. IsFiniteSet(Extent(S)) BY <1>1, <1>2, FS_Subset
<1> QED BY <1>1, <1>3, FS_CardinalityType

(* The state of the allocator after every call: free_count is never below   *)
(* the number of free pages, though often above it.                         *)
HeldIn(al) == {<<a[1], Order(a[2])>> : a \in al}
BuddySound(lists, count, al) ==
    /\ ListsOK(lists)
    /\ count \in 0..CountLimit /\ Cardinality(Extent(FreeIn(lists))) <= count
    /\ al \subseteq Managed \X Requests
    /\ \A a, b \in al : a[1] = b[1] => a = b
    /\ BlocksOK(FreeIn(lists), HeldIn(al))

(* A request is answered. *)
Answered(lists, n, k, r, block, y, L) ==
    /\ r = Order(n) /\ r <= k /\ lists[k] # <<>> /\ block = Head(lists[k]) /\ y = <<block, r>>
    /\ L = Split([lists EXCEPT ![k] = Tail(@)], block, k, r)

(* Splitting keeps the blocks sound and hands out pages that were free. *)
LEMMA AllocSound ==
    ASSUME NEW lists, NEW count, NEW al, BuddySound(lists, count, al),
           NEW n \in Requests, NEW k \in Orders, NEW r, NEW block, NEW y, NEW L,
           Answered(lists, n, k, r, block, y, L)
    PROVE  /\ BuddySound(L, count - power_of_two[r], al \cup {<<block, n>>})
           /\ HeldIn(al \cup {<<block, n>>}) = HeldIn(al) \cup {y}
           /\ y \in AllBlocks /\ Span(y) \subseteq Extent(FreeIn(lists))
<1>F. PICK F, H, x, U : F = FreeIn(lists) /\ H = HeldIn(al) /\ x = <<block, k>> /\ U = Uppers(block, r, k)
  OBVIOUS
<1>1. /\ ListsOK(lists) /\ count \in 0..CountLimit /\ Cardinality(Extent(F)) <= count
      /\ al \subseteq Managed \X Requests /\ \A a, b \in al : a[1] = b[1] => a = b
      /\ BlocksOK(F, H)
  BY <1>F DEF BuddySound
<1>a. r = Order(n) /\ r <= k /\ lists[k] # <<>> /\ block = Head(lists[k]) /\ y = <<block, r>>
  BY DEF Answered
<1>2. r \in Nat /\ k \in Nat
  <2>1. n \in Nat \ {0} BY BuddyAssumption
  <2> QED BY <1>a, <2>1, OrderFacts, BuddyNumbers
<1>l. PICK list, left : list = lists[k] /\ left = Tail(list) OBVIOUS
<1>3. /\ list \in Seq(Managed) /\ IsInjective(list) /\ left \in Seq(Managed) /\ IsInjective(left)
      /\ block \in Range(list) /\ Lost(left, list, block) /\ block \in Managed
  <2>1. list \in Seq(Managed) /\ IsInjective(list) /\ list # <<>> BY <1>1, <1>a, <1>l DEF ListsOK
  <2>2. /\ left \in Seq(Managed) /\ IsInjective(left) /\ block \in Range(list)
        /\ Range(left) = Range(list) \ {block}
    BY <1>a, <1>l, <2>1, TailList
  <2>3. block \in Managed
    <3>1. Head(list) \in Managed BY <2>1
    <3> QED BY <1>a, <1>l, <3>1
  <2> QED BY <2>1, <2>2, <2>3 DEF Lost
<1>4. x \in F /\ x[1] = block /\ x[2] = k BY <1>3, <1>F, <1>l DEF FreeIn
<1>5. /\ BlocksOK((F \ {x}) \cup U, H \cup {y})
      /\ Extent((F \ {x}) \cup U) = Extent(F) \ Span(y)
      /\ Span(y) \subseteq Span(x) /\ Span(x) \subseteq Extent(F)
      /\ y \in AllBlocks /\ U \cap F \subseteq {x} /\ y \notin H
      /\ \A h \in H : h[1] # block
  <2>1. Parts(x, r, U, y) /\ r <= x[2] BY <1>4, <1>a, <1>F DEF Parts
  <2>2. x \in F /\ r \in Nat /\ BlocksOK(F, H) BY <1>1, <1>2, <1>4
  <2>3. /\ BlocksOK((F \ {x}) \cup U, H \cup {y})
        /\ Extent((F \ {x}) \cup U) = Extent(F) \ Span(y)
        /\ Span(y) \subseteq Span(x) /\ Span(x) \subseteq Extent(F)
        /\ y \in AllBlocks /\ U \cap F \subseteq {x} /\ y \notin H
        /\ \A h \in H : h[1] # x[1]
    BY <2>1, <2>2, TakeBlock
  <2> QED BY <1>4, <2>3
<1>M. PICK M : M = [lists EXCEPT ![k] = left] OBVIOUS
<1>6. Replaced(lists, k, left, M)
  <2>1. lists \in [Orders -> Seq(Managed)] /\ left \in Seq(Managed) BY <1>1, <1>3 DEF ListsOK
  <2> QED BY <1>M, <2>1 DEF Replaced
<1>7. ListsOK(M) /\ FreeIn(M) = F \ {x}
  <2>1. Lost(left, lists[k], block) BY <1>3, <1>l
  <2> QED
    <3>1. ListsOK(lists) /\ left \in Seq(Managed) /\ IsInjective(left) /\ block \in Managed
      BY <1>1, <1>3
    <3>2. ListsOK(M) /\ FreeIn(M) = FreeIn(lists) \ {<<block, k>>}
      BY <1>6, <2>1, <3>1, FreeInRemoved
    <3> QED BY <1>F, <3>2
<1>8. L = [j \in Orders |-> IF j \in r..(k - 1) THEN buddy_insert_block(M[j], block + power_of_two[j]) ELSE M[j]]
  BY <1>M, <1>l DEF Split, Answered
<1>9. ASSUME NEW j \in Orders, j \in r..(k - 1), NEW u, u = <<block + power_of_two[j], j>>
      PROVE  u \in U /\ u[1] \in Managed /\ u[1] \notin Range(M[j])
  <2>1. u \in U BY <1>9, <1>F DEF Uppers
  <2>2. u \in AllBlocks BY <1>5, <2>1 DEF BlocksOK
  <2>3. u # x BY <1>2, <1>9, <1>F
  <2>4. u \notin FreeIn(M) BY <1>5, <1>7, <2>1, <2>3
  <2>5. u \in Managed \X Orders /\ u[2] = j BY <1>9, <2>2 DEF AllBlocks
  <2> QED BY <2>1, <2>4, <2>5 DEF FreeIn
<1>10. ASSUME NEW j \in Orders
       PROVE  /\ L[j] \in Seq(Managed) /\ IsInjective(L[j])
              /\ Range(L[j]) = IF j \in r..(k - 1) THEN Range(M[j]) \cup {block + power_of_two[j]} ELSE Range(M[j])
  <2>1. M[j] \in Seq(Managed) /\ IsInjective(M[j]) BY <1>7 DEF ListsOK
  <2>2. CASE j \in r..(k - 1)
    <3>1. PICK e : e = block + power_of_two[j] OBVIOUS
    <3>2. e \in Managed /\ e \notin Range(M[j])
      <4>1. PICK u : u = <<e, j>> OBVIOUS
      <4>2. u[1] \in Managed /\ u[1] \notin Range(M[j]) BY <1>9, <2>2, <3>1, <4>1
      <4> QED BY <4>1, <4>2
    <3>3. L[j] = buddy_insert_block(M[j], e) BY <1>8, <2>2, <3>1
    <3>4. L[j] \in Seq(Managed) /\ IsInjective(L[j]) /\ Range(L[j]) = Range(M[j]) \cup {e}
      BY <2>1, <3>2, <3>3, InsertedList
    <3> QED BY <2>2, <3>1, <3>4
  <2>3. CASE j \notin r..(k - 1) BY <1>8, <2>1, <2>3
  <2> QED BY <2>2, <2>3
<1>11. ListsOK(L)
  <2>1. L \in [Orders -> Seq(Managed)] BY <1>8, <1>10
  <2> QED BY <1>10, <2>1 DEF ListsOK
<1>12. FreeIn(L) = (F \ {x}) \cup U
  <2>1. ASSUME NEW b \in Managed \X Orders PROVE b \in FreeIn(L) <=> b \in FreeIn(M) \/ b \in U
    <3>1. b[2] \in Orders /\ b = <<b[1], b[2]>> OBVIOUS
    <3>2. (b \in FreeIn(L) <=> b[1] \in Range(L[b[2]])) /\ (b \in FreeIn(M) <=> b[1] \in Range(M[b[2]]))
      BY DEF FreeIn
    <3>3. b \in U <=> b[2] \in r..(k - 1) /\ b[1] = block + power_of_two[b[2]]
      <4>1. ASSUME b \in U PROVE b[2] \in r..(k - 1) /\ b[1] = block + power_of_two[b[2]]
        BY <4>1, <1>F DEF Uppers
      <4>2. ASSUME b[2] \in r..(k - 1) /\ b[1] = block + power_of_two[b[2]] PROVE b \in U
        BY <3>1, <4>2, <1>F DEF Uppers
      <4> QED BY <4>1, <4>2
    <3>4. CASE b[2] \in r..(k - 1)
      <4>1. Range(L[b[2]]) = Range(M[b[2]]) \cup {block + power_of_two[b[2]]} BY <1>10, <3>1, <3>4
      <4> QED BY <3>2, <3>3, <3>4, <4>1
    <3>5. CASE b[2] \notin r..(k - 1)
      <4>1. Range(L[b[2]]) = Range(M[b[2]]) BY <1>10, <3>1, <3>5
      <4> QED BY <3>2, <3>3, <3>5, <4>1
    <3> QED BY <3>4, <3>5
  <2>2. U \subseteq Managed \X Orders BY <1>5 DEF BlocksOK, AllBlocks
  <2>3. FreeIn(L) \subseteq Managed \X Orders /\ FreeIn(M) \subseteq Managed \X Orders BY DEF FreeIn
  <2>4. FreeIn(L) = FreeIn(M) \cup U BY <2>1, <2>2, <2>3
  <2> QED BY <1>7, <2>4
<1>13. HeldIn(al \cup {<<block, n>>}) = H \cup {y}
  <2>1. PICK a0 : a0 = <<block, n>> OBVIOUS
  <2>2. <<a0[1], Order(a0[2])>> = y BY <1>a, <2>1
  <2>3. HeldIn(al \cup {a0}) = HeldIn(al) \cup {<<a0[1], Order(a0[2])>>} BY DEF HeldIn
  <2> QED BY <1>F, <2>1, <2>2, <2>3
<1>14. \A a, b \in al \cup {<<block, n>>} : a[1] = b[1] => a = b
  <2>1. ASSUME NEW a \in al PROVE a[1] # block
    <3>1. PICK h : h = <<a[1], Order(a[2])>> OBVIOUS
    <3>2. h \in H /\ h[1] = a[1] BY <1>F, <3>1 DEF HeldIn
    <3> QED BY <1>5, <3>2
  <2> QED BY <1>1, <2>1
<1>15. /\ count - power_of_two[r] \in 0..CountLimit
       /\ Cardinality(Extent(FreeIn(L))) <= count - power_of_two[r]
  <2>A. PICK A, B, p, c, d : /\ A = Extent(F) /\ B = Span(y) /\ p = power_of_two[r]
                             /\ c = Cardinality(A) /\ d = Cardinality(A \ B)
    OBVIOUS
  <2>1. IsFiniteSet(A) /\ c \in Nat BY <1>1, <2>A, ExtentFinite DEF BlocksOK
  <2>2. Cardinality(B) = p
    <3>1. y[2] = r BY <1>a
    <3> QED BY <1>5, <2>A, <3>1, SpanCardinality
  <2>3. B \subseteq A BY <1>5, <2>A
  <2>4. A \cap B = B BY <2>3
  <2>5. d = c - p
    <3>1. Cardinality(A \ B) = Cardinality(A) - Cardinality(A \cap B) BY <2>1, FS_Difference
    <3> QED BY <2>A, <2>2, <2>4, <3>1
  <2>6. p <= c /\ p \in Nat
    <3>1. Cardinality(B) <= Cardinality(A) BY <2>1, <2>3, FS_Subset
    <3> QED BY <1>2, <2>A, <2>2, <3>1, PowerFacts
  <2>7. Cardinality(Extent(FreeIn(L))) = d BY <1>5, <1>12, <2>A
  <2>8. count \in Nat /\ count <= CountLimit /\ c <= count /\ CountLimit \in Nat
    BY <1>1, <2>A, BuddyAssumption
  <2> QED BY <2>A, <2>1, <2>5, <2>6, <2>7, <2>8
<1>16. al \cup {<<block, n>>} \subseteq Managed \X Requests BY <1>1, <1>3
<1>17. BuddySound(L, count - power_of_two[r], al \cup {<<block, n>>})
  <2>1. BlocksOK(FreeIn(L), HeldIn(al \cup {<<block, n>>})) BY <1>5, <1>12, <1>13
  <2> QED BY <1>11, <1>14, <1>15, <1>16, <2>1 DEF BuddySound
<1> QED BY <1>5, <1>13, <1>17, <1>F

(* A block is given back. *)
Returned(lists, n, block, y, m, L) ==
    /\ y = <<block, Order(n)>> /\ m = Merged(lists, block, Order(n))
    /\ L = [m.lists EXCEPT ![m.order] = buddy_insert_block(@, m.block)]

(* Merging keeps the blocks sound and gives back what was held. *)
LEMMA FreeSound ==
    ASSUME NEW lists, NEW count, NEW al, BuddySound(lists, count, al),
           NEW n, NEW block, <<block, n>> \in al, NEW y, NEW m, NEW L,
           Returned(lists, n, block, y, m, L), count + power_of_two[m.order] <= CountLimit
    PROVE  /\ BuddySound(L, count + power_of_two[m.order], al \ {<<block, n>>})
           /\ y \in HeldIn(al) /\ HeldIn(al \ {<<block, n>>}) = HeldIn(al) \ {y}
<1>F. PICK F, H, a0 : F = FreeIn(lists) /\ H = HeldIn(al) /\ a0 = <<block, n>> OBVIOUS
<1>1. /\ ListsOK(lists) /\ count \in 0..CountLimit /\ Cardinality(Extent(F)) <= count
      /\ al \subseteq Managed \X Requests /\ \A a, b \in al : a[1] = b[1] => a = b
      /\ BlocksOK(F, H)
  BY <1>F DEF BuddySound
<1>a. y = <<block, Order(n)>> /\ m = Merged(lists, block, Order(n)) BY DEF Returned
<1>2. y \in H
  <2>1. a0 \in al /\ y = <<a0[1], Order(a0[2])>> BY <1>a, <1>F
  <2> QED BY <2>1, <1>F DEF HeldIn
<1>3. HeldIn(al \ {a0}) = H \ {y}
  <2>1. ASSUME NEW a \in al PROVE a # a0 <=> <<a[1], Order(a[2])>> # y
    <3>1. a[1] = a0[1] => a = a0 BY <1>1, <1>F
    <3>2. a0[1] = block /\ a0[2] = n BY <1>F
    <3> QED BY <1>a, <3>1, <3>2
  <2> QED BY <2>1, <1>F DEF HeldIn
<1>G. PICK G : G = H \ {y} OBVIOUS
<1>s. PICK start : start = [lists |-> lists, block |-> block, order |-> Order(n)] OBVIOUS
<1>4. MergingOK(start, G, Extent(F))
  <2>1. start.lists = lists /\ start.block = block /\ start.order = Order(n) BY <1>s
  <2>2. y \in AllBlocks BY <1>1, <1>2 DEF BlocksOK
  <2>3. block \in Managed /\ Order(n) \in Orders
    <3>1. y[1] = block /\ y[2] = Order(n) BY <1>a
    <3> QED BY <2>2, <3>1 DEF AllBlocks
  <2>4. start \in MergeState BY <1>1, <1>s, <2>3 DEF MergeState, ListsOK
  <2>5. Merging(F, G, y)
    <3>1. G \cup {y} = H /\ y \notin G BY <1>2, <1>G
    <3> QED BY <1>1, <3>1 DEF Merging
  <2>6. GivenBlock(start) = y BY <1>a, <2>1 DEF GivenBlock
  <2> QED BY <1>1, <2>1, <2>4, <2>5, <2>6, <1>F DEF MergingOK
<1>5. MergingOK(m, G, Extent(F)) /\ Alone(m) BY <1>4, <1>a, <1>s, MergedOK
<1>m. PICK ls, j, v, x : ls = m.lists /\ j = m.order /\ v = m.block /\ x = GivenBlock(m) OBVIOUS
<1>6. /\ ListsOK(ls) /\ v \in Managed /\ j \in Orders /\ Merging(FreeIn(ls), G, x)
      /\ Extent(FreeIn(ls)) \subseteq Extent(F) /\ x = <<v, j>>
      /\ ~ (x[2] < max_order /\ BuddyBlock(x) \in FreeIn(ls))
  <2>1. x = <<v, j>> BY <1>m DEF GivenBlock
  <2>2. x[2] = j BY <2>1
  <2> QED BY <1>5, <1>m, <2>1, <2>2 DEF MergingOK, MergeState, Alone
<1>7. BlocksOK(FreeIn(ls) \cup {x}, G) /\ x \in AllBlocks /\ x \notin FreeIn(ls) BY <1>6, MergeEnd
<1>r. PICK list : list = buddy_insert_block(ls[j], v) OBVIOUS
<1>8. list \in Seq(Managed) /\ IsInjective(list) /\ Got(list, ls[j], v)
  <2>1. ls[j] \in Seq(Managed) /\ IsInjective(ls[j]) BY <1>6 DEF ListsOK
  <2>2. v \notin Range(ls[j])
    <3>1. x \in Managed \X Orders /\ x[1] = v /\ x[2] = j BY <1>6
    <3> QED BY <1>7, <3>1 DEF FreeIn
  <2> QED BY <1>6, <1>r, <2>1, <2>2, InsertedList DEF Got
<1>9. L = [ls EXCEPT ![j] = list] BY <1>m, <1>r DEF Returned
<1>10. Replaced(ls, j, list, L)
  <2>1. ls \in [Orders -> Seq(Managed)] /\ list \in Seq(Managed) BY <1>6, <1>8 DEF ListsOK
  <2> QED BY <1>9, <2>1 DEF Replaced
<1>11. ListsOK(L) /\ FreeIn(L) = FreeIn(ls) \cup {x} BY <1>6, <1>8, <1>10, FreeInAdded
<1>12. count + power_of_two[j] \in 0..CountLimit /\ Cardinality(Extent(FreeIn(L))) <= count + power_of_two[j]
  <2>A. PICK A, B, C, p : A = Extent(F) /\ B = Span(x) /\ C = Extent(FreeIn(L)) /\ p = power_of_two[j]
    OBVIOUS
  <2>1. IsFiniteSet(A) /\ Cardinality(A) \in Nat BY <1>1, <2>A, ExtentFinite DEF BlocksOK
  <2>2. IsFiniteSet(B) /\ Cardinality(B) = p /\ p \in Nat
    <3>1. x[2] = j BY <1>6
    <3>2. power_of_two[x[2]] \in Nat BY <1>7, BlockIs
    <3> QED BY <1>7, <2>A, <3>1, <3>2, SpanCardinality
  <2>3. C \subseteq A \cup B BY <1>6, <1>11, <2>A DEF Extent
  <2>4. /\ IsFiniteSet(A \cup B)
        /\ Cardinality(A \cup B) = Cardinality(A) + Cardinality(B) - Cardinality(A \cap B)
    BY <2>1, <2>2, FS_Union
  <2>5. Cardinality(A \cap B) \in Nat
    <3>1. IsFiniteSet(A \cap B)
      <4>1. A \cap B \in SUBSET A OBVIOUS
      <4> QED BY <2>1, <4>1, FS_Subset
    <3> QED BY <3>1, FS_CardinalityType
  <2>6. IsFiniteSet(C) /\ Cardinality(C) <= Cardinality(A \cup B) /\ Cardinality(C) \in Nat
    <3>1. IsFiniteSet(C) /\ Cardinality(C) <= Cardinality(A \cup B) BY <2>3, <2>4, FS_Subset
    <3> QED BY <3>1, FS_CardinalityType
  <2>7. count \in Nat /\ Cardinality(A) <= count /\ count + p <= CountLimit
    BY <1>1, <1>m, <2>A, BuddyAssumption
  <2>8. Cardinality(C) <= count + p BY <2>1, <2>2, <2>4, <2>5, <2>6, <2>7
  <2>9. CountLimit \in Nat BY BuddyAssumption
  <2> QED BY <2>2, <2>7, <2>8, <2>9, <2>A
<1>13. BuddySound(L, count + power_of_two[j], al \ {a0})
  <2>1. BlocksOK(FreeIn(L), HeldIn(al \ {a0})) BY <1>3, <1>7, <1>11, <1>G
  <2>2. al \ {a0} \subseteq Managed \X Requests /\ \A a, b \in al \ {a0} : a[1] = b[1] => a = b
    BY <1>1
  <2> QED BY <1>11, <1>12, <2>1, <2>2 DEF BuddySound
<1> QED BY <1>2, <1>3, <1>13, <1>F, <1>m

-----------------------------------------------------------------------------
(* The inductive invariant of the buddy system. *)
BuddyIInv ==
    /\ BuddySound(free_area, free_count, allocated)
    /\ buddy_result \in {<<>>} \cup {Order(n) : n \in Requests} \X (Managed \cup {NoPage})

(* In the beginning all of memory is one free block. *)
LEMMA BuddyBegins == BuddyInit => BuddyIInv
<1> SUFFICES ASSUME BuddyInit PROVE BuddyIInv
  OBVIOUS
<1>1. /\ free_area = [k \in Orders |-> IF k = max_order THEN <<0>> ELSE <<>>]
      /\ free_count = total_pages /\ allocated = {} /\ buddy_result = <<>>
  BY DEF BuddyInit
<1>x. PICK x, F, H : x = <<0, max_order>> /\ F = FreeIn(free_area) /\ H = HeldIn(allocated) OBVIOUS
<1>2. /\ max_order \in Nat /\ max_order \in Orders /\ 0 \in Managed /\ total_pages \in Nat
      /\ x[1] = 0 /\ x[2] = max_order
  BY <1>x, BuddyNumbers
<1>3. ListsOK(free_area)
  <2>1. <<0>> \in Seq(Managed) /\ IsInjective(<<0>>) /\ <<>> \in Seq(Managed) /\ IsInjective(<<>>)
    BY <1>2 DEF IsInjective
  <2>2. \A k \in Orders : free_area[k] \in Seq(Managed) /\ IsInjective(free_area[k]) BY <1>1, <2>1
  <2> QED BY <1>1, <2>2 DEF ListsOK
<1>4. F = {x}
  <2>1. ASSUME NEW b \in Managed \X Orders PROVE b \in F <=> b = x
    <3>1. b[2] \in Orders /\ b = <<b[1], b[2]>> OBVIOUS
    <3>2. b \in F <=> b[1] \in Range(free_area[b[2]]) BY <1>x DEF FreeIn
    <3>3. Range(<<0>>) = {0} /\ Range(<<>>) = {} BY DEF Range
    <3>4. CASE b[2] = max_order
      <4>1. free_area[b[2]] = <<0>> BY <1>1, <3>1, <3>4
      <4> QED BY <1>x, <3>1, <3>2, <3>3, <3>4, <4>1
    <3>5. CASE b[2] # max_order
      <4>1. free_area[b[2]] = <<>> BY <1>1, <3>1, <3>5
      <4> QED BY <1>2, <3>2, <3>3, <3>5, <4>1
    <3> QED BY <3>4, <3>5
  <2>2. F \subseteq Managed \X Orders /\ x \in Managed \X Orders BY <1>2, <1>x DEF FreeIn
  <2> QED BY <2>1, <2>2
<1>5. x \in AllBlocks
  <2>1. Aligned(0, max_order)
    <3>1. power_of_two[max_order] \in Nat BY <1>2, PowerFacts
    <3>2. 0 = 0 * power_of_two[max_order] /\ 0 \in Nat BY <3>1
    <3> QED BY <3>2 DEF Aligned
  <2> QED BY <1>2, <1>x, <2>1 DEF AllBlocks
<1>6. Span(x) = Managed /\ Cardinality(Span(x)) = total_pages
  <2>1. Span(x) = Managed
    <3>1. Span(x) = 0..(0 + total_pages - 1) BY <1>2, BuddyNumbers DEF Span, PagesOf
    <3> QED BY <1>2, <3>1 DEF Managed
  <2>2. Cardinality(Span(x)) = total_pages BY <1>2, <1>5, SpanCardinality, BuddyNumbers
  <2> QED BY <2>1, <2>2
<1>7. Extent(F) = Span(x) BY <1>4 DEF Extent
<1>8. H = {} BY <1>1, <1>x DEF HeldIn
<1>9. BlocksOK(F, H)
  <2>1. Lonely(F) BY <1>2, <1>4 DEF Lonely
  <2>2. Disjointed(F \cup H) /\ F \cup H = F BY <1>4, <1>8 DEF Disjointed
  <2> QED BY <1>4, <1>5, <1>6, <1>7, <1>8, <2>1, <2>2 DEF BlocksOK
<1>10. free_count \in 0..CountLimit BY <1>1, <1>2, BuddyAssumption
<1> QED BY <1>1, <1>2, <1>3, <1>6, <1>7, <1>9, <1>10, <1>x DEF BuddyIInv, BuddySound

(* A request that is answered. *)
LEMMA AnsweredStep ==
    ASSUME BuddyIInv, NEW n \in Requests, buddy_alloc_pages(n),
           ~ (n > free_count \/ {k \in Order(n)..max_order : free_area[k] # <<>>} = {})
    PROVE  \E b \in Managed :
              /\ BuddyIInv' /\ buddy_result' = <<Order(n), b>>
              /\ HeldBuddies' = HeldBuddies \cup {<<b, Order(n)>>}
              /\ <<b, Order(n)>> \in AllBlocks /\ Span(<<b, Order(n)>>) \subseteq Extent(FreeIn(free_area))
<1> DEFINE Filled == {k \in Order(n)..max_order : free_area[k] # <<>>}
<1>n. PICK r, k, block, y : r = Order(n) /\ k = Min(Filled) /\ block = Head(free_area[k]) /\ y = <<block, r>>
  OBVIOUS
<1>1. r \in Nat /\ max_order \in Nat
  <2>1. n \in Nat \ {0} BY BuddyAssumption
  <2> QED BY <1>n, <2>1, OrderFacts, BuddyNumbers
<1>2. k \in Filled
  <2>1. Filled \subseteq Nat /\ Filled # {} BY <1>1, <1>n
  <2> HIDE DEF Filled
  <2> QED BY <1>n, <2>1, MinIsLeast
<1>3. k \in Orders /\ r <= k /\ free_area[k] # <<>> BY <1>1, <1>2, <1>n, BuddyNumbers
<1>4. /\ free_area' = Split([free_area EXCEPT ![k] = Tail(@)], block, k, r)
      /\ free_count' = free_count - power_of_two[r]
      /\ allocated' = allocated \cup {<<block, n>>}
      /\ buddy_result' = <<r, block>>
  BY <1>n DEF buddy_alloc_pages, CountAfter
<1> HIDE DEF Filled
<1>5. Answered(free_area, n, k, r, block, y, free_area') BY <1>3, <1>4, <1>n DEF Answered
<1>6. BuddySound(free_area, free_count, allocated) BY DEF BuddyIInv
<1>7. /\ BuddySound(free_area', free_count - power_of_two[r], allocated \cup {<<block, n>>})
      /\ HeldIn(allocated \cup {<<block, n>>}) = HeldIn(allocated) \cup {y}
      /\ y \in AllBlocks /\ Span(y) \subseteq Extent(FreeIn(free_area))
  BY <1>3, <1>5, <1>6, AllocSound
<1>8. block \in Managed BY <1>7, <1>n DEF AllBlocks
<1>9. BuddyIInv'
  <2>1. r \in {Order(q) : q \in Requests} BY <1>n
  <2>2. buddy_result' \in {Order(q) : q \in Requests} \X (Managed \cup {NoPage}) BY <1>4, <1>8, <2>1
  <2> QED BY <1>4, <1>7, <2>2 DEF BuddyIInv
<1>10. HeldBuddies' = HeldBuddies \cup {y} BY <1>4, <1>7 DEF HeldBuddies, HeldIn
<1> QED BY <1>4, <1>7, <1>8, <1>9, <1>10, <1>n

(* A block that is given back. *)
LEMMA ReturnedStep ==
    ASSUME BuddyIInv, NEW n, NEW block, buddy_free_pages(block, n)
    PROVE  /\ BuddyIInv' /\ <<block, Order(n)>> \in HeldBuddies
           /\ HeldBuddies' = HeldBuddies \ {<<block, Order(n)>>}
           /\ buddy_result' = <<>>
<1>n. PICK m, y : m = Merged(free_area, block, Order(n)) /\ y = <<block, Order(n)>> OBVIOUS
<1>1. /\ <<block, n>> \in allocated
      /\ free_count + power_of_two[m.order] <= CountLimit
      /\ free_area' = [m.lists EXCEPT ![m.order] = buddy_insert_block(@, m.block)]
      /\ free_count' = free_count + power_of_two[m.order]
      /\ allocated' = allocated \ {<<block, n>>}
      /\ buddy_result' = <<>>
  BY <1>n DEF buddy_free_pages
<1>2. Returned(free_area, n, block, y, m, free_area') BY <1>1, <1>n DEF Returned
<1>3. BuddySound(free_area, free_count, allocated) BY DEF BuddyIInv
<1>4. /\ BuddySound(free_area', free_count + power_of_two[m.order], allocated \ {<<block, n>>})
      /\ y \in HeldIn(allocated) /\ HeldIn(allocated \ {<<block, n>>}) = HeldIn(allocated) \ {y}
  <2>1. PICK lists, count, al, L : lists = free_area /\ count = free_count /\ al = allocated /\ L = free_area'
    OBVIOUS
  <2>2. BuddySound(lists, count, al) /\ <<block, n>> \in al BY <1>1, <1>3, <2>1
  <2>3. Returned(lists, n, block, y, m, L) /\ count + power_of_two[m.order] <= CountLimit
    BY <1>1, <1>2, <2>1
  <2>4. /\ BuddySound(L, count + power_of_two[m.order], al \ {<<block, n>>})
        /\ y \in HeldIn(al) /\ HeldIn(al \ {<<block, n>>}) = HeldIn(al) \ {y}
    BY <2>2, <2>3, FreeSound
  <2> QED BY <2>1, <2>4
<1>5. BuddyIInv' BY <1>1, <1>4 DEF BuddyIInv
<1>6. y \in HeldBuddies /\ HeldBuddies' = HeldBuddies \ {y} BY <1>1, <1>4 DEF HeldBuddies, HeldIn
<1> QED BY <1>1, <1>5, <1>6, <1>n

(* A request that is refused. *)
LEMMA RefusedStep ==
    ASSUME NEW n, buddy_alloc_pages(n),
           n > free_count \/ {k \in Order(n)..max_order : free_area[k] # <<>>} = {}
    PROVE  UNCHANGED <<free_area, free_count, allocated>> /\ buddy_result' = <<Order(n), NoPage>>
  BY DEF buddy_alloc_pages

(* The invariant holds in every state. *)
LEMMA BuddyInvariance == BuddySpec => []BuddyIInv
<1>1. BuddyInit => BuddyIInv BY BuddyBegins
<1>2. BuddyIInv /\ [BuddyNext]_buddyVars => BuddyIInv'
  <2> SUFFICES ASSUME BuddyIInv, [BuddyNext]_buddyVars PROVE BuddyIInv'
    OBVIOUS
  <2>1. ASSUME NEW n \in Requests, buddy_alloc_pages(n) PROVE BuddyIInv'
    <3>1. CASE n > free_count \/ {k \in Order(n)..max_order : free_area[k] # <<>>} = {}
      BY <2>1, <3>1, RefusedStep DEF BuddyIInv
    <3>2. CASE ~ (n > free_count \/ {k \in Order(n)..max_order : free_area[k] # <<>>} = {})
      BY <2>1, <3>2, AnsweredStep
    <3> QED BY <3>1, <3>2
  <2>2. ASSUME NEW n \in Requests, NEW block \in Managed, buddy_free_pages(block, n) PROVE BuddyIInv'
    BY <2>2, ReturnedStep
  <2>3. CASE UNCHANGED buddyVars BY <2>3 DEF buddyVars, BuddyIInv
  <2> QED BY <2>1, <2>2, <2>3 DEF BuddyNext
<1> QED BY <1>1, <1>2, PTL DEF BuddySpec

(* All memory is in disjoint aligned blocks, and no free buddies stay       *)
(* apart: what BuddyInv states, from the invariant.                         *)
LEMMA BuddyFactsInv == BuddyIInv => BuddyInv
<1> SUFFICES ASSUME BuddyIInv PROVE BuddyInv
  OBVIOUS
<1>F. PICK F, H : F = FreeBuddies /\ H = HeldBuddies OBVIOUS
<1>0. FreeBuddies = FreeIn(free_area) /\ HeldBuddies = HeldIn(allocated)
  BY DEF FreeBuddies, FreeIn, HeldBuddies, HeldIn
<1>1. /\ ListsOK(free_area) /\ free_count \in 0..CountLimit
      /\ allocated \subseteq Managed \X Requests /\ BlocksOK(F, H)
      /\ buddy_result \in {<<>>} \cup {Order(n) : n \in Requests} \X (Managed \cup {NoPage})
  BY <1>0, <1>F DEF BuddyIInv, BuddySound
<1>2. /\ F \subseteq AllBlocks /\ H \subseteq AllBlocks /\ F \cap H = {}
      /\ Disjointed(F \cup H) /\ Extent(F \cup H) = Managed /\ Lonely(F)
  BY <1>1 DEF BlocksOK
<1>3. BuddyTypeOK
  <2>1. ASSUME NEW k \in Orders PROVE Range(free_area[k]) \subseteq Managed
    <3>1. free_area[k] \in Seq(Managed) BY <1>1 DEF ListsOK
    <3> QED BY <3>1 DEF Range
  <2> QED BY <1>1, <2>1 DEF BuddyTypeOK
<1>4. ASSUME NEW page \in Managed
      PROVE  Cardinality({b \in F \cup H : page \in PagesOf(b[1], b[2])}) = 1
  <2>1. PICK x \in F \cup H : page \in Span(x) BY <1>2 DEF Extent
  <2>2. {b \in F \cup H : page \in PagesOf(b[1], b[2])} = {x}
    <3>1. \A b \in F \cup H : page \in PagesOf(b[1], b[2]) => b = x
      BY <1>2, <2>1, SameBlock DEF Span
    <3> QED BY <2>1, <3>1 DEF Span
  <2> QED BY <2>2, FS_Singleton
<1>5. ASSUME NEW b \in F \cup H PROVE b[1] % power_of_two[b[2]] = 0
  <2>1. b \in AllBlocks BY <1>2
  <2> QED BY <2>1, BlockIs, AlignedMod
<1>6. BlocksPartition BY <1>1, <1>2, <1>4, <1>5, <1>F DEF BlocksPartition, ListsOK
<1>7. \A b \in F : b[2] < max_order => <<BuddyOf(b[1], b[2]), b[2]>> \notin F
  BY <1>2 DEF Lonely, BuddyBlock
<1>8. ASSUME allocated = {} PROVE F = {<<0, max_order>>}
  <2>x. PICK top : top = <<0, max_order>> OBVIOUS
  <2>1. H = {} BY <1>8, <1>F DEF HeldBuddies
  <2>2. Extent(F) = Managed /\ Disjointed(F) BY <1>2, <2>1
  <2>3. top \in AllBlocks /\ top[2] = max_order /\ max_order \in Nat
    <3>1. power_of_two[max_order] \in Nat /\ 0 \in Managed /\ max_order \in Orders /\ max_order \in Nat
      BY BuddyNumbers
    <3>2. 0 = 0 * power_of_two[max_order] /\ 0 \in Nat BY <3>1
    <3>3. Aligned(0, max_order) BY <3>2 DEF Aligned
    <3> QED BY <2>x, <3>1, <3>3 DEF AllBlocks
  <2>4. Span(top) = Managed
    <3>1. Span(top) = 0..(0 + total_pages - 1) BY <2>x, BuddyNumbers DEF Span, PagesOf
    <3>2. total_pages \in Nat BY BuddyNumbers
    <3> QED BY <3>1, <3>2 DEF Managed
  <2>5. PICK x \in F : top[2] <= x[2] /\ Span(top) \subseteq Span(x)
    BY <1>2, <2>2, <2>3, <2>4, HiddenRun
  <2>6. x \in AllBlocks /\ x[2] \in Nat /\ x[2] <= max_order BY <1>2, BlockIs
  <2>7. x = top
    <3>1. top[2] = x[2] /\ top[2] <= x[2] BY <2>3, <2>5, <2>6
    <3>2. top[1] \in Span(top) BY <2>3, BlockIs
    <3>3. top[1] \in Span(x) BY <2>5, <3>2
    <3> QED BY <2>3, <2>6, <3>1, <3>2, <3>3, BlockWithin
  <2>8. ASSUME NEW v \in F PROVE v = x
    <3>1. v \in AllBlocks BY <1>2
    <3>2. v[1] \in Span(v) /\ v[1] \in Span(x) BY <2>4, <2>5, <3>1, BlockIs
    <3> QED BY <2>2, <3>2, SameBlock
  <2> QED BY <2>7, <2>8, <2>x
<1>9. FullyMerged BY <1>7, <1>8, <1>F DEF FullyMerged
<1> QED BY <1>3, <1>6, <1>9 DEF BuddyInv

(* The buddy system keeps all memory in disjoint aligned blocks, free or    *)
(* held, and merged as far as possible (buddy_alloc_pages,                  *)
(* buddy_free_pages).                                                       *)
THEOREM BuddyCorrect == BuddySpec => []BuddyInv
  BY BuddyInvariance, BuddyFactsInv, PTL

-----------------------------------------------------------------------------
(* What BuddyPool speaks of. *)
LEMMA PoolTerms ==
    /\ Buddies!Pages = Managed /\ Buddies!Taken = Extent(HeldBuddies)
    /\ \A b, k : Buddies!PagesOf(b, k) = Span(<<b, k>>)
<1>1. \A b, k : Buddies!PagesOf(b, k) = Span(<<b, k>>)
  <2> SUFFICES ASSUME NEW b, NEW k PROVE Buddies!PagesOf(b, k) = Span(<<b, k>>)
    OBVIOUS
  <2>1. <<b, k>>[1] = b /\ <<b, k>>[2] = k OBVIOUS
  <2> QED BY <2>1 DEF Buddies!PagesOf, Span, PagesOf
<1>2. Buddies!Pages = Managed BY DEF Buddies!Pages, Managed, total_pages
<1>3. Buddies!Taken = Extent(HeldBuddies)
  BY DEF Buddies!Taken, Buddies!PagesOf, Extent, Span, PagesOf
<1> QED BY <1>1, <1>2, <1>3

(* A request is refused only if no aligned run of free pages is large       *)
(* enough: runs hide in no other blocks, and free_count is not too low.     *)
LEMMA NoneFits ==
    ASSUME BuddyIInv, NEW n \in Requests,
           n > free_count \/ {k \in Order(n)..max_order : free_area[k] # <<>>} = {},
           NEW b \in Managed
    PROVE  ~ Buddies!Fits(b, Order(n))
<1>F. PICK F, H, r : F = FreeIn(free_area) /\ H = HeldBuddies /\ r = Order(n) OBVIOUS
<1>1. /\ free_count \in 0..CountLimit /\ Cardinality(Extent(F)) <= free_count /\ BlocksOK(F, H)
  BY <1>F DEF BuddyIInv, BuddySound, HeldBuddies, HeldIn
<1>2. /\ n \in Nat \ {0} /\ r \in Nat /\ n <= power_of_two[r] /\ max_order \in Nat
      /\ b \in Nat /\ total_pages \in Nat \ {0}
  <2>1. n \in Nat \ {0} BY BuddyAssumption
  <2> QED BY <1>F, <2>1, OrderFacts, BuddyNumbers
<1> SUFFICES ASSUME Buddies!Fits(b, Order(n)) PROVE FALSE
  OBVIOUS
<1>3. b % power_of_two[r] = 0 /\ Span(<<b, r>>) \subseteq Managed \ Extent(H)
  BY <1>F, PoolTerms DEF Buddies!Fits
<1>4. CASE r <= max_order
  <2>y. PICK y : y = <<b, r>> OBVIOUS
  <2>2. y \in AllBlocks /\ y[2] = r
    <3>1. Aligned(b, r) BY <1>2, <1>3, AlignedMod
    <3>2. r \in Orders BY <1>2, <1>4, BuddyNumbers
    <3> QED BY <2>y, <3>1, <3>2 DEF AllBlocks
  <2>3. Span(y) \subseteq Extent(F)
    <3>1. Extent(F \cup H) = Managed BY <1>1 DEF BlocksOK
    <3>2. Extent(F \cup H) = Extent(F) \cup Extent(H) BY DEF Extent
    <3> QED BY <1>3, <2>y, <3>1, <3>2
  <2>4. F \subseteq AllBlocks /\ Disjointed(F) /\ Lonely(F) BY <1>1 DEF BlocksOK, Disjointed
  <2>5. PICK x \in F : y[2] <= x[2] /\ Span(y) \subseteq Span(x) BY <2>2, <2>3, <2>4, HiddenRun
  <2>6. free_area[x[2]] # <<>> /\ x[2] \in r..max_order
    <3>1. x \in Managed \X Orders /\ x[1] \in Range(free_area[x[2]]) BY <1>F DEF FreeIn
    <3>2. free_area[x[2]] # <<>> BY <3>1 DEF Range
    <3>3. x[2] \in Nat /\ x[2] <= max_order BY <3>1, BuddyNumbers
    <3> QED BY <1>2, <2>2, <2>5, <3>2, <3>3
  <2>7. n <= free_count
    <3>A. PICK A, B : A = Extent(F) /\ B = Span(y) OBVIOUS
    <3>1. IsFiniteSet(A) /\ Cardinality(A) \in Nat BY <2>4, <3>A, ExtentFinite
    <3>2. Cardinality(B) = power_of_two[r] BY <2>2, <3>A, SpanCardinality
    <3>3. Cardinality(B) <= Cardinality(A) BY <2>3, <3>A, <3>1, FS_Subset
    <3>4. power_of_two[r] \in Nat BY <1>2, PowerFacts
    <3>5. free_count \in Nat BY <1>1, BuddyAssumption
    <3> QED BY <1>1, <1>2, <3>1, <3>2, <3>3, <3>4, <3>5, <3>A
  <2>8. ~ (n > free_count) BY <1>1, <1>2, <2>7, BuddyAssumption
  <2> QED BY <1>F, <2>6, <2>8
<1>5. CASE ~ (r <= max_order)
  <2>1. power_of_two[r] \in Nat /\ power_of_two[r] > total_pages
    <3>1. max_order + 1 \in Nat /\ max_order + 1 <= r BY <1>2, <1>5
    <3>2. power_of_two[max_order + 1] <= power_of_two[r] BY <1>2, <3>1, PowerMonotone
    <3>3. power_of_two[r] \in Nat /\ power_of_two[max_order + 1] = 2 * total_pages
      BY <1>2, BuddyNumbers, PowerFacts
    <3> QED BY <1>2, <3>2, <3>3
  <2>2. Span(<<b, r>>) = b..(b + power_of_two[r] - 1) BY DEF Span, PagesOf
  <2>4. b + total_pages \in Span(<<b, r>>) BY <1>2, <2>1, <2>2
  <2>5. b + total_pages \in Managed BY <1>3, <2>4
  <2> QED BY <1>2, <2>5, BuddyNumbers
<1> QED BY <1>4, <1>5

(* Every step of the buddy system is one of BuddyPool, or changes nothing   *)
(* that it speaks of.                                                       *)
LEMMA BuddyStep ==
    ASSUME BuddyIInv, [BuddyNext]_buddyVars
    PROVE  [Buddies!Next]_(Buddies!vars)
<1>v. UNCHANGED <<HeldBuddies, buddy_result>> => UNCHANGED Buddies!vars BY DEF Buddies!vars
<1>1. ASSUME NEW n \in Requests, buddy_alloc_pages(n) PROVE Buddies!Next
  <2>2. CASE n > free_count \/ {k \in Order(n)..max_order : free_area[k] # <<>>} = {}
    <3>1. UNCHANGED <<free_area, free_count, allocated>> /\ buddy_result' = <<Order(n), NoPage>>
      BY <1>1, <2>2, RefusedStep
    <3>2. HeldBuddies' = HeldBuddies BY <3>1 DEF HeldBuddies
    <3>3. \A b \in Buddies!Pages : ~ Buddies!Fits(b, Order(n)) BY <2>2, NoneFits, PoolTerms
    <3>4. Buddies!Alloc(Order(n)) BY <3>1, <3>2, <3>3 DEF Buddies!Alloc
    <3> QED BY <3>4 DEF Buddies!Next
  <2>3. CASE ~ (n > free_count \/ {k \in Order(n)..max_order : free_area[k] # <<>>} = {})
    <3>1. PICK b \in Managed :
             /\ buddy_result' = <<Order(n), b>> /\ HeldBuddies' = HeldBuddies \cup {<<b, Order(n)>>}
             /\ <<b, Order(n)>> \in AllBlocks /\ Span(<<b, Order(n)>>) \subseteq Extent(FreeIn(free_area))
      BY <1>1, <2>3, AnsweredStep
    <3>y. PICK y, k : y = <<b, k>> /\ k = Order(n) OBVIOUS
    <3>2. y \in AllBlocks /\ y[1] = b /\ y[2] = k BY <3>1, <3>y
    <3>3. k \in Nat /\ k <= max_order /\ b \in Nat /\ Aligned(b, k) /\ Span(y) \subseteq Managed
      BY <3>2, BlockIs
    <3>5. b % power_of_two[k] = 0 BY <3>3, AlignedMod
    <3>6. Span(y) \cap Extent(HeldBuddies) = {}
      <4>1. BlocksOK(FreeIn(free_area), HeldBuddies)
        BY DEF BuddyIInv, BuddySound, HeldBuddies, HeldIn
      <4>2. Extent(FreeIn(free_area)) \cap Extent(HeldBuddies) = {}
        BY <4>1 DEF BlocksOK, Disjointed, Extent
      <4> QED BY <3>1, <3>y, <4>2
    <3>7. Buddies!Fits(b, k) BY <3>3, <3>5, <3>6, <3>y, PoolTerms DEF Buddies!Fits
    <3>8. Buddies!Alloc(k) BY <3>1, <3>7, <3>y, PoolTerms DEF Buddies!Alloc
    <3> QED BY <3>8, <3>y DEF Buddies!Next
  <2> QED BY <2>2, <2>3
<1>2. ASSUME NEW n \in Requests, NEW block \in Managed, buddy_free_pages(block, n) PROVE Buddies!Next
  <2>1. PICK h : h = <<block, Order(n)>> OBVIOUS
  <2>2. h \in HeldBuddies /\ HeldBuddies' = HeldBuddies \ {h} /\ buddy_result' = <<>>
    BY <1>2, <2>1, ReturnedStep
  <2>3. Buddies!Free(h) BY <2>2 DEF Buddies!Free
  <2> QED BY <2>2, <2>3 DEF Buddies!Next
<1>3. CASE UNCHANGED buddyVars BY <1>3, <1>v DEF buddyVars, HeldBuddies
<1> QED BY <1>1, <1>2, <1>3 DEF BuddyNext

(* The buddy system does what BuddyPool promises: a request gets an aligned *)
(* run of free pages of its size, and fails only if there is none.          *)
THEOREM BuddyRefinement == BuddySpec => ImplementsBuddyPool
<1>1. BuddyInit => Buddies!Init
  <2> SUFFICES ASSUME BuddyInit PROVE Buddies!Init
    OBVIOUS
  <2>1. allocated = {} /\ buddy_result = <<>> BY DEF BuddyInit
  <2>2. HeldBuddies = {} BY <2>1 DEF HeldBuddies
  <2> QED BY <2>1, <2>2 DEF Buddies!Init
<1>2. BuddyIInv /\ [BuddyNext]_buddyVars => [Buddies!Next]_(Buddies!vars) BY BuddyStep
<1> QED BY <1>1, <1>2, BuddyInvariance, PTL DEF BuddySpec, ImplementsBuddyPool, Buddies!Spec
=============================================================================
