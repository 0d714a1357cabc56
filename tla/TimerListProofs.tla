-------------------------- MODULE TimerListProofs --------------------------
(***************************************************************************)
(* Facts about the operations of the timer list that hold in every module  *)
(* that uses it: what they do to the list, to the set of linked timers and *)
(* to the deltas.                                                          *)
(***************************************************************************)
EXTENDS TimerList, TLAPS, SequenceTheorems

NoRepeats == \A i, j \in DOMAIN timer_list : i # j => timer_list[i] # timer_list[j]

(* What the operations need and keep: no timer is linked twice, and the     *)
(* first timer is not due yet.                                              *)
ListOK == /\ timer_list \in Seq(Proc)
          /\ expires \in [Proc -> Nat]
          /\ NoRepeats
          /\ 1 \in DOMAIN timer_list => expires[timer_list[1]] > 0

(* The list is a finite sequence of processes. *)
LEMMA SeqFacts ==
    ASSUME timer_list \in Seq(Proc)
    PROVE  /\ Len(timer_list) \in Nat
           /\ DOMAIN timer_list = 1..Len(timer_list)
           /\ \A i \in 1..Len(timer_list) : timer_list[i] \in Proc
  BY LenProperties, ElementOfSeq

-----------------------------------------------------------------------------
(* The three list operations return sequences with the expected elements.  *)
LEMMA InsertAfterProperties ==
    ASSUME NEW S, NEW s \in Seq(S), NEW k \in 0..Len(s), NEW e \in S
    PROVE  /\ InsertAfter(s, k, e) \in Seq(S)
           /\ Len(InsertAfter(s, k, e)) = Len(s) + 1
           /\ \A i \in 1..(Len(s) + 1) :
                 InsertAfter(s, k, e)[i] = IF i <= k THEN s[i]
                                           ELSE IF i = k + 1 THEN e ELSE s[i - 1]
<1>1. Len(s) \in Nat /\ s \in [1..Len(s) -> S]
  BY LenProperties
<1>2. InsertAfter(s, k, e) \in [1..(Len(s) + 1) -> S]
  BY <1>1 DEF InsertAfter
<1>3. InsertAfter(s, k, e) \in Seq(S)
  BY <1>1, <1>2, SeqDef
<1>4. QED
  BY <1>1, <1>2, <1>3, LenProperties DEF InsertAfter

(* Removing one position. *)
LEMMA RemoveIndexProperties ==
    ASSUME NEW S, NEW s \in Seq(S), NEW k \in 1..Len(s)
    PROVE  /\ RemoveIndex(s, k) \in Seq(S)
           /\ Len(RemoveIndex(s, k)) = Len(s) - 1
           /\ \A i \in 1..(Len(s) - 1) :
                 RemoveIndex(s, k)[i] = IF i < k THEN s[i] ELSE s[i + 1]
<1>1. Len(s) \in Nat /\ s \in [1..Len(s) -> S]
  BY LenProperties
<1>2. RemoveIndex(s, k) \in [1..(Len(s) - 1) -> S] /\ Len(s) - 1 \in Nat
  BY <1>1 DEF RemoveIndex
<1>3. RemoveIndex(s, k) \in Seq(S)
  BY <1>2, SeqDef
<1>4. QED
  BY <1>1, <1>2, <1>3, LenProperties DEF RemoveIndex

(* Removing the first k positions. *)
LEMMA DropFirstProperties ==
    ASSUME NEW S, NEW s \in Seq(S), NEW k \in 0..Len(s)
    PROVE  /\ DropFirst(s, k) \in Seq(S)
           /\ Len(DropFirst(s, k)) = Len(s) - k
           /\ \A i \in 1..(Len(s) - k) : DropFirst(s, k)[i] = s[i + k]
<1>1. Len(s) \in Nat /\ s \in [1..Len(s) -> S]
  BY LenProperties
<1>2. DropFirst(s, k) \in [1..(Len(s) - k) -> S] /\ Len(s) - k \in Nat
  BY <1>1 DEF DropFirst
<1>3. DropFirst(s, k) \in Seq(S)
  BY <1>2, SeqDef
<1>4. QED
  BY <1>1, <1>2, <1>3, LenProperties DEF DropFirst

-----------------------------------------------------------------------------
(* The list after each operation. *)
LEMMA InsertIntoList ==
    ASSUME timer_list \in Seq(Proc), NEW p \in Proc, NEW k \in 0..Len(timer_list),
           timer_list' = InsertAfter(timer_list, k, p)
    PROVE  /\ timer_list' \in Seq(Proc)
           /\ Len(timer_list') = Len(timer_list) + 1
           /\ DOMAIN timer_list' = 1..(Len(timer_list) + 1)
           /\ \A i \in 1..(Len(timer_list) + 1) :
                 timer_list'[i] = IF i <= k THEN timer_list[i]
                                  ELSE IF i = k + 1 THEN p ELSE timer_list[i - 1]
<1>1. InsertAfter(timer_list, k, p) \in Seq(Proc)
  BY InsertAfterProperties
<1>2. Len(InsertAfter(timer_list, k, p)) = Len(timer_list) + 1
  BY InsertAfterProperties
<1>3. \A i \in 1..(Len(timer_list) + 1) :
         InsertAfter(timer_list, k, p)[i] = IF i <= k THEN timer_list[i]
                                  ELSE IF i = k + 1 THEN p ELSE timer_list[i - 1]
  BY DEF InsertAfter
<1>4. DOMAIN InsertAfter(timer_list, k, p) = 1..(Len(timer_list) + 1)
  BY <1>1, <1>2, LenProperties
<1> QED
  BY <1>1, <1>2, <1>3, <1>4

(* The list after the removal of its k-th timer. *)
LEMMA RemoveFromList ==
    ASSUME timer_list \in Seq(Proc), NEW k \in 1..Len(timer_list),
           timer_list' = RemoveIndex(timer_list, k)
    PROVE  /\ timer_list' \in Seq(Proc)
           /\ Len(timer_list') = Len(timer_list) - 1
           /\ DOMAIN timer_list' = 1..(Len(timer_list) - 1)
           /\ \A i \in 1..(Len(timer_list) - 1) :
                 timer_list'[i] = IF i < k THEN timer_list[i] ELSE timer_list[i + 1]
<1>1. RemoveIndex(timer_list, k) \in Seq(Proc)
  BY RemoveIndexProperties
<1>2. Len(RemoveIndex(timer_list, k)) = Len(timer_list) - 1
  BY RemoveIndexProperties
<1>3. \A i \in 1..(Len(timer_list) - 1) :
         RemoveIndex(timer_list, k)[i] = IF i < k THEN timer_list[i] ELSE timer_list[i + 1]
  BY DEF RemoveIndex
<1>4. DOMAIN RemoveIndex(timer_list, k) = 1..(Len(timer_list) - 1)
  BY <1>1, <1>2, LenProperties
<1> QED
  BY <1>1, <1>2, <1>3, <1>4

(* The list after k timers fired. *)
LEMMA DropFromList ==
    ASSUME timer_list \in Seq(Proc), NEW k \in 0..Len(timer_list),
           timer_list' = DropFirst(timer_list, k)
    PROVE  /\ timer_list' \in Seq(Proc)
           /\ DOMAIN timer_list' = 1..(Len(timer_list) - k)
           /\ \A i \in 1..(Len(timer_list) - k) : timer_list'[i] = timer_list[i + k]
<1>1. DropFirst(timer_list, k) \in Seq(Proc)
  BY DropFirstProperties
<1>2. Len(DropFirst(timer_list, k)) = Len(timer_list) - k
  BY DropFirstProperties
<1>3. \A i \in 1..(Len(timer_list) - k) : DropFirst(timer_list, k)[i] = timer_list[i + k]
  BY DEF DropFirst
<1>4. DOMAIN DropFirst(timer_list, k) = 1..(Len(timer_list) - k)
  BY <1>1, <1>2, LenProperties
<1> QED
  BY <1>1, <1>3, <1>4

-----------------------------------------------------------------------------
(* What an insertion and a removal do to the set of linked timers. *)
LEMMA LinkedAfterInsert ==
    ASSUME timer_list \in Seq(Proc), NEW p \in Proc, NEW k \in 0..Len(timer_list),
           timer_list' = InsertAfter(timer_list, k, p), NEW q
    PROVE  Linked(q)' <=> Linked(q) \/ q = p
<1> DEFINE n == Len(timer_list)
<1>1. /\ n \in Nat /\ k \in Nat /\ k <= n /\ DOMAIN timer_list = 1..n
      /\ DOMAIN timer_list' = 1..(n + 1)
      /\ \A i \in 1..(n + 1) : timer_list'[i] = IF i <= k THEN timer_list[i]
                                  ELSE IF i = k + 1 THEN p ELSE timer_list[i - 1]
  BY SeqFacts, InsertIntoList
<1>2. ASSUME q = p PROVE Linked(q)'
  <2>1. k + 1 \in 1..(n + 1) /\ timer_list'[k + 1] = p
    BY <1>1
  <2> QED
    BY <1>1, <1>2, <2>1 DEF Linked
<1>3. ASSUME Linked(q) PROVE Linked(q)'
  <2>1. PICK i \in 1..n : timer_list[i] = q
    BY <1>1, <1>3 DEF Linked
  <2>2. CASE i <= k
    <3>1. i \in 1..(n + 1) /\ timer_list'[i] = q
      BY <1>1, <2>1, <2>2
    <3> QED
      BY <1>1, <3>1 DEF Linked
  <2>3. CASE i > k
    <3>1. i + 1 \in 1..(n + 1) /\ timer_list'[i + 1] = q
      BY <1>1, <2>1, <2>3
    <3> QED
      BY <1>1, <3>1 DEF Linked
  <2> QED
    BY <1>1, <2>2, <2>3
<1>4. ASSUME Linked(q)', q # p PROVE Linked(q)
  <2>1. PICK i \in 1..(n + 1) : timer_list'[i] = q
    BY <1>1, <1>4 DEF Linked
  <2>2. CASE i <= k
    <3>1. i \in 1..n /\ timer_list[i] = q
      BY <1>1, <2>1, <2>2
    <3> QED
      BY <1>1, <3>1 DEF Linked
  <2>3. CASE i > k
    <3>1. i - 1 \in 1..n /\ timer_list[i - 1] = q
      BY <1>1, <1>4, <2>1, <2>3
    <3> QED
      BY <1>1, <3>1 DEF Linked
  <2> QED
    BY <1>1, <2>2, <2>3
<1> QED
  BY <1>2, <1>3, <1>4

(* Only the deleted timer is unlinked. *)
LEMMA LinkedAfterDelete ==
    ASSUME timer_list \in Seq(Proc), NoRepeats, NEW p \in Proc, del_timer(p), NEW q
    PROVE  Linked(q)' <=> Linked(q) /\ q # p
<1> DEFINE n == Len(timer_list)
<1>1. n \in Nat /\ DOMAIN timer_list = 1..n
  BY SeqFacts
<1>2. CASE ~Linked(p) /\ UNCHANGED timerVars
  BY <1>2 DEF Linked, timerVars
<1>3. ASSUME NEW k \in 1..n, timer_list[k] = p, timer_list' = RemoveIndex(timer_list, k)
      PROVE  Linked(q)' <=> Linked(q) /\ q # p
  <2>1. /\ DOMAIN timer_list' = 1..(n - 1)
        /\ \A i \in 1..(n - 1) :
              timer_list'[i] = IF i < k THEN timer_list[i] ELSE timer_list[i + 1]
    BY <1>3, RemoveFromList
  <2>2. ASSUME Linked(q)' PROVE Linked(q) /\ q # p
    <3>1. PICK i \in 1..(n - 1) : timer_list'[i] = q
      BY <2>1, <2>2 DEF Linked
    <3>2. PICK j \in 1..n : j # k /\ timer_list[j] = q
      <4>1. CASE i < k
        BY <1>1, <2>1, <3>1, <4>1
      <4>2. CASE i >= k
        <5>1. i + 1 \in 1..n /\ i + 1 # k /\ timer_list[i + 1] = q
          BY <1>1, <2>1, <3>1, <4>2
        <5> QED
          BY <5>1
      <4> QED
        BY <1>1, <4>1, <4>2
    <3> QED
      BY <1>1, <1>3, <3>2 DEF Linked, NoRepeats
  <2>3. ASSUME Linked(q), q # p PROVE Linked(q)'
    <3>1. PICK i \in 1..n : timer_list[i] = q
      BY <1>1, <2>3 DEF Linked
    <3>2. CASE i < k
      <4>1. i \in 1..(n - 1) /\ timer_list'[i] = q
        BY <1>1, <2>1, <3>1, <3>2
      <4> QED
        BY <2>1, <4>1 DEF Linked
    <3>3. CASE i > k
      <4>1. i - 1 \in 1..(n - 1) /\ timer_list'[i - 1] = q
        BY <1>1, <2>1, <3>1, <3>3
      <4> QED
        BY <2>1, <4>1 DEF Linked
    <3> QED
      BY <1>1, <1>3, <2>3, <3>1, <3>2, <3>3
  <2> QED
    BY <2>2, <2>3
<1> QED
  BY <1>2, <1>3 DEF del_timer

-----------------------------------------------------------------------------
(* The fields after an insertion at position k: only the new timer and its  *)
(* successor change, and neither becomes due early.                         *)
LEMMA AddKeepsExpires ==
    ASSUME ListOK, NEW p \in Proc, ~Linked(p), NEW t \in Nat \ {0},
           NEW k \in 0..Len(timer_list), NEW w \in [0..k -> 0..t], w[0] = t,
           k < Len(timer_list) => w[k] < expires[timer_list[k + 1]],
           expires' = [q \in Proc |->
             IF q = p THEN w[k]
             ELSE IF k < Len(timer_list) /\ q = timer_list[k + 1]
                  THEN expires[q] - w[k]
                  ELSE expires[q]]
    PROVE  /\ expires' \in [Proc -> Nat]
           /\ k = 0 => expires'[p] > 0
           /\ k # 0 => expires'[timer_list[1]] = expires[timer_list[1]]
<1>1. /\ Len(timer_list) \in Nat /\ DOMAIN timer_list = 1..Len(timer_list) /\ k \in Nat
      /\ \A i \in 1..Len(timer_list) : timer_list[i] \in Proc
  BY SeqFacts DEF ListOK
<1>2. w[k] \in Nat
  BY <1>1
<1>3. ASSUME NEW q \in Proc PROVE expires'[q] \in Nat
  <2>1. expires[q] \in Nat
    BY DEF ListOK
  <2>2. CASE q = p
    BY <1>2, <2>2
  <2>3. CASE q # p /\ k < Len(timer_list) /\ q = timer_list[k + 1]
    <3>1. w[k] < expires[q] /\ expires'[q] = expires[q] - w[k]
      BY <2>3
    <3> QED
      BY <1>2, <2>1, <3>1
  <2>4. CASE q # p /\ ~ (k < Len(timer_list) /\ q = timer_list[k + 1])
    BY <2>1, <2>4
  <2> QED
    BY <2>2, <2>3, <2>4
<1>4. expires' \in [Proc -> Nat]
  BY <1>3
<1>5. k = 0 => expires'[p] > 0
  BY <1>2
<1>6. ASSUME k # 0 PROVE expires'[timer_list[1]] = expires[timer_list[1]]
  <2>1. 1 \in 1..Len(timer_list) /\ timer_list[1] \in Proc /\ timer_list[1] # p
    BY <1>1, <1>6 DEF Linked
  <2>2. ASSUME k < Len(timer_list) PROVE timer_list[1] # timer_list[k + 1]
    <3>1. k + 1 \in 1..Len(timer_list) /\ k + 1 # 1
      BY <1>1, <1>6, <2>2
    <3> QED
      BY <1>1, <2>1, <3>1 DEF ListOK, NoRepeats
  <2> QED
    BY <2>1, <2>2
<1> QED
  BY <1>4, <1>5, <1>6

(* add_timer keeps the list in order and links the new timer only. *)
LEMMA AddKeepsList ==
    ASSUME ListOK, NEW p \in Proc, ~Linked(p), NEW t \in Nat \ {0}, add_timer(p, t)
    PROVE  ListOK' /\ \A q : Linked(q)' <=> Linked(q) \/ q = p
<1> DEFINE n == Len(timer_list)
<1>1. PICK k \in 0..n : \E w \in [0..k -> 0..t] :
         /\ w[0] = t
         /\ k < n => w[k] < expires[timer_list[k + 1]]
         /\ timer_list' = InsertAfter(timer_list, k, p)
         /\ expires' = [q \in Proc |->
               IF q = p THEN w[k]
               ELSE IF k < n /\ q = timer_list[k + 1]
                    THEN expires[q] - w[k]
                    ELSE expires[q]]
  BY DEF add_timer
<1>2. PICK w \in [0..k -> 0..t] :
         /\ w[0] = t
         /\ k < n => w[k] < expires[timer_list[k + 1]]
         /\ timer_list' = InsertAfter(timer_list, k, p)
         /\ expires' = [q \in Proc |->
               IF q = p THEN w[k]
               ELSE IF k < n /\ q = timer_list[k + 1]
                    THEN expires[q] - w[k]
                    ELSE expires[q]]
  BY <1>1
<1>3. /\ n \in Nat /\ k \in Nat /\ k <= n /\ DOMAIN timer_list = 1..n
      /\ \A i \in 1..n : timer_list[i] \in Proc
      /\ timer_list \in Seq(Proc)
  BY SeqFacts DEF ListOK
<1>4. timer_list' = InsertAfter(timer_list, k, p)
  BY <1>2
<1>5. /\ timer_list' \in Seq(Proc)
      /\ DOMAIN timer_list' = 1..(n + 1)
      /\ \A i \in 1..(n + 1) :
            timer_list'[i] = IF i <= k THEN timer_list[i]
                             ELSE IF i = k + 1 THEN p ELSE timer_list[i - 1]
  BY <1>3, <1>4, InsertIntoList
<1>6. /\ expires' \in [Proc -> Nat]
      /\ k = 0 => expires'[p] > 0
      /\ k # 0 => expires'[timer_list[1]] = expires[timer_list[1]]
  <2> HIDE DEF n
  <2> QED
    BY <1>2, AddKeepsExpires DEF n
<1>7. NoRepeats'
  <2> DEFINE old(i) == IF i <= k THEN i ELSE i - 1
  <2>1. ASSUME NEW i \in 1..(n + 1), i # k + 1
        PROVE  old(i) \in 1..n /\ timer_list'[i] = timer_list[old(i)] /\ timer_list'[i] # p
    <3>1. old(i) \in 1..n
      BY <1>3, <2>1
    <3>2. timer_list'[i] = timer_list[old(i)]
      BY <1>3, <1>5, <2>1
    <3>3. timer_list[old(i)] # p
      BY <1>3, <3>1 DEF Linked
    <3> QED
      BY <3>1, <3>2, <3>3
  <2>2. ASSUME NEW i \in 1..(n + 1), NEW j \in 1..(n + 1), i # j
        PROVE  timer_list'[i] # timer_list'[j]
    <3>1. CASE i = k + 1 \/ j = k + 1
      <4>1. k + 1 \in 1..(n + 1) /\ timer_list'[k + 1] = p
        BY <1>3, <1>5
      <4> QED
        BY <2>1, <2>2, <3>1, <4>1
    <3>2. CASE i # k + 1 /\ j # k + 1
      <4>1. old(i) # old(j)
        BY <1>3, <2>2, <3>2
      <4>2. timer_list[old(i)] # timer_list[old(j)]
        BY <1>3, <2>1, <3>2, <4>1 DEF ListOK, NoRepeats
      <4> QED
        BY <2>1, <3>2, <4>2
    <3> QED
      BY <3>1, <3>2
  <2> QED
    BY <1>5, <2>2 DEF NoRepeats
<1>8. expires'[timer_list'[1]] > 0
  <2>1. CASE k = 0
    <3>1. timer_list'[1] = p
      BY <1>3, <1>5, <2>1
    <3> QED
      BY <1>6, <2>1, <3>1
  <2>2. CASE k # 0
    <3>1. timer_list'[1] = timer_list[1] /\ 1 \in 1..n
      BY <1>3, <1>5, <2>2
    <3> QED
      BY <1>3, <1>6, <2>2, <3>1 DEF ListOK
  <2> QED
    BY <2>1, <2>2
<1>9. \A q : Linked(q)' <=> Linked(q) \/ q = p
  BY <1>3, <1>4, LinkedAfterInsert
<1> QED
  BY <1>5, <1>6, <1>7, <1>8, <1>9 DEF ListOK

(* A removal gives the ticks of the removed timer to its successor. *)
LEMMA DelKeepsList ==
    ASSUME ListOK, NEW p \in Proc, del_timer(p)
    PROVE  ListOK' /\ \A q : Linked(q)' <=> Linked(q) /\ q # p
<1> DEFINE n == Len(timer_list)
<1>1. /\ n \in Nat /\ DOMAIN timer_list = 1..n
      /\ \A i \in 1..n : timer_list[i] \in Proc
      /\ timer_list \in Seq(Proc) /\ expires \in [Proc -> Nat] /\ NoRepeats
  BY SeqFacts DEF ListOK
<1>2. \A q : Linked(q)' <=> Linked(q) /\ q # p
  BY <1>1, LinkedAfterDelete
<1>3. ASSUME UNCHANGED timerVars PROVE ListOK'
  BY <1>3 DEF ListOK, NoRepeats, timerVars
<1>4. ASSUME NEW k \in 1..n, timer_list[k] = p,
             timer_list' = RemoveIndex(timer_list, k),
             expires' = [q \in Proc |->
                IF q = p THEN 0
                ELSE IF k < n /\ q = timer_list[k + 1]
                     THEN expires[q] + expires[p]
                     ELSE expires[q]]
      PROVE  ListOK'
  <2>1. /\ timer_list' \in Seq(Proc)
        /\ DOMAIN timer_list' = 1..(n - 1)
        /\ \A i \in 1..(n - 1) :
              timer_list'[i] = IF i < k THEN timer_list[i] ELSE timer_list[i + 1]
    BY <1>1, <1>4, RemoveFromList
  <2>2. expires' \in [Proc -> Nat]
    <3>1. ASSUME NEW q \in Proc PROVE expires'[q] \in Nat
      <4>1. expires[q] \in Nat /\ expires[p] \in Nat
        BY <1>1
      <4> QED
        BY <1>4, <4>1
    <3> QED
      BY <1>4, <3>1
  <2>3. NoRepeats'
    <3> DEFINE old(i) == IF i < k THEN i ELSE i + 1
    <3>1. ASSUME NEW i \in 1..(n - 1)
          PROVE  old(i) \in 1..n /\ timer_list'[i] = timer_list[old(i)]
      BY <1>1, <2>1
    <3>2. ASSUME NEW i \in 1..(n - 1), NEW j \in 1..(n - 1), i # j
          PROVE  timer_list'[i] # timer_list'[j]
      <4>1. old(i) # old(j)
        BY <1>1, <3>2
      <4> HIDE DEF old
      <4> QED
        BY <1>1, <3>1, <3>2, <4>1 DEF NoRepeats
    <3> QED
      BY <2>1, <3>2 DEF NoRepeats
  <2>4. ASSUME 1 \in 1..(n - 1) PROVE expires'[timer_list'[1]] > 0
    <3>1. 1 \in 1..n /\ 2 \in 1..n /\ expires[timer_list[1]] > 0
      BY <1>1, <2>4 DEF ListOK
    <3>2. CASE k = 1
      <4> DEFINE q == timer_list[2]
      <4>5. timer_list'[1] = q
        BY <1>1, <2>1, <2>4, <3>2
      <4>6. q # timer_list[1]
        BY <1>1, <3>1 DEF NoRepeats
      <4>1. timer_list'[1] = q /\ q # p /\ q \in Proc
        BY <1>1, <1>4, <3>1, <3>2, <4>5, <4>6
      <4>2. k < n /\ q = timer_list[k + 1]
        BY <1>1, <2>4, <3>2
      <4>3. expires'[q] = expires[q] + expires[p]
        <5> HIDE DEF q
        <5> QED
          BY <1>4, <4>1, <4>2
      <4>4. expires[q] \in Nat /\ expires[p] \in Nat /\ expires[p] > 0
        BY <1>1, <1>4, <3>1, <3>2, <4>1
      <4> QED
        BY <4>1, <4>3, <4>4
    <3>3. CASE k # 1
      <4> DEFINE q == timer_list[1]
      <4>5. timer_list'[1] = q
        <5>1. k \in Int /\ 1 < k
          BY <1>1, <3>3
        <5>2. timer_list'[1] = IF 1 < k THEN timer_list[1] ELSE timer_list[1 + 1]
          BY <2>1, <2>4
        <5> QED
          BY <5>1, <5>2
      <4>6. q # timer_list[k]
        BY <1>1, <3>1, <3>3 DEF NoRepeats
      <4>1. timer_list'[1] = q /\ q # p /\ q \in Proc
        BY <1>1, <1>4, <3>1, <4>5, <4>6
      <4>2. ~ (k < n /\ q = timer_list[k + 1])
        <5>1. k < n => k + 1 \in 1..n /\ k + 1 # 1
          BY <1>1
        <5> QED
          BY <1>1, <3>1, <5>1 DEF NoRepeats
      <4>3. expires'[q] = expires[q]
        <5> HIDE DEF q
        <5> QED
          BY <1>4, <4>1, <4>2
      <4> QED
        BY <3>1, <4>1, <4>3
    <3> QED
      BY <3>2, <3>3
  <2> QED
    BY <2>1, <2>2, <2>3, <2>4 DEF ListOK
<1>5. QED
  BY <1>2, <1>3, <1>4 DEF del_timer

(* A tick: the timers that are due leave the list, which is the first k.    *)
LEMMA TickKeepsList ==
    ASSUME ListOK, NEW k \in 0..Len(timer_list), Fires(k), ExpireFirst(k)
    PROVE  /\ ListOK'
           /\ \A q : Linked(q)' <=> Linked(q) /\ q \notin {timer_list[i] : i \in 1..k}
<1> DEFINE n == Len(timer_list)
<1>1. /\ n \in Nat /\ k \in Nat /\ k <= n /\ DOMAIN timer_list = 1..n
      /\ \A i \in 1..n : timer_list[i] \in Proc
      /\ timer_list \in Seq(Proc) /\ expires \in [Proc -> Nat] /\ NoRepeats
      /\ timer_list # <<>> => 1 \in 1..n
      /\ n > 0 => timer_list # <<>>
  BY SeqFacts, EmptySeq DEF ListOK
<1>2. /\ timer_list' \in Seq(Proc)
      /\ DOMAIN timer_list' = 1..(n - k)
      /\ \A i \in 1..(n - k) : timer_list'[i] = timer_list[i + k]
  BY <1>1, DropFromList DEF ExpireFirst
<1>3. expires' = [q \in Proc |-> IF timer_list # <<>> /\ q = timer_list[1]
                                 THEN expires[q] - 1 ELSE expires[q]]
  BY DEF ExpireFirst
<1>4. expires' \in [Proc -> Nat]
  <2>1. ASSUME NEW q \in Proc PROVE expires'[q] \in Nat
    <3>1. expires[q] \in Nat
      BY <1>1
    <3>2. timer_list # <<>> => expires[timer_list[1]] > 0
      BY <1>1 DEF ListOK
    <3> QED
      BY <1>3, <3>1, <3>2
  <2> QED
    BY <1>3, <2>1
<1>5. NoRepeats'
  <2>1. ASSUME NEW i \in 1..(n - k), NEW j \in 1..(n - k), i # j
        PROVE  timer_list'[i] # timer_list'[j]
    <3>1. i + k \in 1..n /\ j + k \in 1..n /\ i + k # j + k
      BY <1>1, <2>1
    <3> QED
      BY <1>1, <1>2, <3>1 DEF NoRepeats
  <2> QED
    BY <1>2, <2>1 DEF NoRepeats
<1>6. ASSUME 1 \in 1..(n - k) PROVE expires'[timer_list'[1]] > 0
  <2> DEFINE q == timer_list[k + 1]
  <2>1. k < n /\ k + 1 \in 1..n /\ timer_list'[1] = q /\ q \in Proc /\ timer_list # <<>>
    BY <1>1, <1>2, <1>6
  <2>2. Aged(k + 1) # 0
    BY <2>1 DEF Fires
  <2>3. expires'[q] = Aged(k + 1)
    <3>1. CASE k = 0
      BY <1>3, <2>1, <3>1 DEF Aged
    <3>2. CASE k # 0
      <4>1. q # timer_list[1] /\ k + 1 # 1
        BY <1>1, <2>1, <3>2 DEF NoRepeats
      <4>2. Aged(k + 1) = expires[q]
        <5>1. expires[q] \in Nat
          BY <1>1, <2>1
        <5> QED
          BY <4>1, <5>1 DEF Aged
      <4> QED
        BY <1>3, <2>1, <4>1, <4>2
    <3> QED
      BY <3>1, <3>2
  <2>4. expires'[q] \in Nat
    BY <1>4, <2>1
  <2> HIDE DEF q
  <2> QED
    BY <2>1, <2>2, <2>3, <2>4
<1>7. ASSUME NEW q PROVE Linked(q)' <=> Linked(q) /\ q \notin {timer_list[i] : i \in 1..k}
  <2>1. ASSUME Linked(q)' PROVE Linked(q) /\ q \notin {timer_list[i] : i \in 1..k}
    <3>1. PICK i \in 1..(n - k) : timer_list'[i] = q
      BY <1>2, <2>1 DEF Linked
    <3>2. i + k \in 1..n /\ timer_list[i + k] = q
      BY <1>1, <1>2, <3>1
    <3>3. ASSUME NEW j \in 1..k PROVE timer_list[j] # q
      <4>1. j \in 1..n /\ j # i + k
        BY <1>1, <3>1
      <4> QED
        BY <1>1, <3>2, <4>1 DEF NoRepeats
    <3> QED
      BY <1>1, <3>2, <3>3 DEF Linked
  <2>2. ASSUME Linked(q), q \notin {timer_list[i] : i \in 1..k} PROVE Linked(q)'
    <3>1. PICK i \in 1..n : timer_list[i] = q
      BY <1>1, <2>2 DEF Linked
    <3>2. i \notin 1..k
      BY <2>2, <3>1
    <3>3. i - k \in 1..(n - k) /\ (i - k) + k = i
      BY <1>1, <3>1, <3>2
    <3>4. timer_list'[i - k] = q
      BY <1>2, <3>1, <3>3
    <3> QED
      BY <1>2, <3>3, <3>4 DEF Linked
  <2> QED
    BY <2>1, <2>2
<1> QED
  BY <1>2, <1>4, <1>5, <1>6, <1>7 DEF ListOK
=============================================================================
