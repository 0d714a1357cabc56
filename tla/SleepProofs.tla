----------------------------- MODULE SleepProofs -----------------------------
(***************************************************************************)
(* Proofs about the two ways to sleep in the kernel and be woken by an     *)
(* interrupt.                                                              *)
(*                                                                         *)
(* The timer list is correct for any set of processes and any sleeping     *)
(* times: its deltas encode the deadlines (DeltasCorrect), and it          *)
(* implements AlarmClock (Refinement).                                     *)
(*                                                                         *)
(* The keyboard buffer is correct for every number of readers, buffer      *)
(* size, length of a read and number of keys: KeyIInv is inductive and     *)
(* gives KeysInv (KeysCorrect); a read falls short only by a kill          *)
(* (ShortReads); the ring with its wait queue implements Keyboard          *)
(* (KeyRefinement).                                                        *)
(***************************************************************************)
EXTENDS Timer, Stdin, TimerListProofs, FiniteSetTheorems, WellFoundedInduction

-----------------------------------------------------------------------------
(***************************************************************************)
(* The list under do_sleep, ticks and early wake-ups.                      *)
(***************************************************************************)

(* A function on 0..n that never changes from one index to the next is     *)
(* constant.  It is the only induction the proofs need: the walk of        *)
(* add_timer and the loop of run_timer_list are runs of such steps.        *)
LEMMA ConstantRun ==
    ASSUME NEW n \in Nat, NEW c \in [0..n -> Int],
           \A i \in 1..n : c[i] = c[i - 1]
    PROVE  \A i \in 0..n : c[i] = c[0]
<1> DEFINE Diff == {i \in 0..n : c[i] # c[0]}
           R == {ss \in Nat \X Nat : ss[1] < ss[2]}
<1>1. SUFFICES ASSUME Diff # {} PROVE FALSE
  OBVIOUS
<1>2. Diff \subseteq Nat
  OBVIOUS
<1>3. IsWellFoundedOn(R, Nat)
  BY NatLessThanWellFounded, Zenon DEF OpToRel
<1>4. PICK m \in Diff : \A y \in Diff : ~ (<<y, m>> \in R)
  BY <1>1, <1>2, <1>3, WFMin
<1>5. m \in 1..n /\ m - 1 \in 0..n /\ c[m] = c[m - 1]
  OBVIOUS
<1>6. m - 1 \in Diff
  BY <1>5
<1>7. <<m - 1, m>> \in R
  BY <1>5
<1> QED
  BY <1>4, <1>6, <1>7

-----------------------------------------------------------------------------
(* The inductive invariant: the deltas alone do not say that the list is   *)
(* ordered (that would take an induction over the list in every step), so  *)
(* the order is carried along with them.                                   *)
IInv == TypeOK /\ LinksAlive /\ DeltasEncodeDeadlines /\ FiresInOrder /\ NoEarlyFire

(* What was passed plus what is left is the deadline asked for: the walk of *)
(* add_timer never loses a tick.                                            *)
LEMMA WalkKeepsDeadline ==
    ASSUME TypeOK, DeltasEncodeDeadlines,
           NEW t \in Nat, NEW k \in 0..Len(timer_list), NEW w \in [0..k -> 0..t],
           w[0] = t, Passed(w, k)
    PROVE  w[k] = t + now - (IF k = 0 THEN now ELSE deadline[timer_list[k]])
<1> DEFINE c == [i \in 0..k |-> w[i] + (IF i = 0 THEN now
                                        ELSE deadline[timer_list[i]])]
<1>1. Len(timer_list) \in Nat /\ DOMAIN timer_list = 1..Len(timer_list)
      /\ \A i \in 1..Len(timer_list) : timer_list[i] \in Proc
  BY LenProperties, ElementOfSeq DEF TypeOK
<1>2. k \in Nat /\ c \in [0..k -> Int]
  BY <1>1 DEF TypeOK
<1>3. ASSUME NEW i \in 1..k PROVE c[i] = c[i - 1]
  <2>1. /\ i \in DOMAIN timer_list /\ i \in 0..k /\ i - 1 \in 0..k
        /\ w[i] \in Int /\ w[i - 1] \in Int
        /\ w[i] = w[i - 1] - expires[timer_list[i]]
    BY <1>1, <1>2 DEF Passed
  <2>2. expires[timer_list[i]] =
          deadline[timer_list[i]] - (IF i = 1 THEN now ELSE deadline[timer_list[i - 1]])
    BY <2>1 DEF DeltasEncodeDeadlines
  <2>3. i # 1 => i - 1 \in 1..Len(timer_list)
    BY <1>1, <1>2
  <2>4. /\ now \in Int /\ deadline[timer_list[i]] \in Int
        /\ i # 1 => deadline[timer_list[i - 1]] \in Int
    BY <1>1, <2>1, <2>3 DEF TypeOK
  <2>5. CASE i = 1
    BY <2>1, <2>2, <2>4, <2>5
  <2>6. CASE i # 1
    <3>1. /\ c[i] = w[i] + deadline[timer_list[i]]
          /\ c[i - 1] = w[i - 1] + deadline[timer_list[i - 1]]
      BY <2>1, <2>6
    <3>2. expires[timer_list[i]] = deadline[timer_list[i]] - deadline[timer_list[i - 1]]
      BY <2>2, <2>6
    <3> HIDE DEF c
    <3> QED
      BY <2>1, <2>4, <2>6, <3>1, <3>2
  <2> QED
    BY <2>5, <2>6
<1>4. c[k] = c[0]
  <2> HIDE DEF c
  <2>1. \A i \in 0..k : c[i] = c[0]
    BY <1>2, <1>3, ConstantRun
  <2> QED
    BY <2>1, <1>2
<1>5. k # 0 => deadline[timer_list[k]] \in Nat
  BY <1>1, <1>2 DEF TypeOK
<1>6. 0 \in 0..k /\ k \in 0..k /\ w[k] \in Int /\ now \in Int
  BY <1>2 DEF TypeOK
<1>7. c[0] = t + now
  BY <1>6
<1>8. c[k] = w[k] + (IF k = 0 THEN now ELSE deadline[timer_list[k]])
  BY <1>6
<1>9. w[k] + (IF k = 0 THEN now ELSE deadline[timer_list[k]]) = t + now
  BY <1>4, <1>7, <1>8
<1>10. CASE k = 0
  BY <1>6, <1>9, <1>10
<1>11. CASE k # 0
  <2>1. w[k] + deadline[timer_list[k]] = t + now
    BY <1>9, <1>11
  <2>2. w[k] \in Int /\ deadline[timer_list[k]] \in Int /\ t \in Int /\ now \in Int
    BY <1>5, <1>6, <1>11
  <2> DEFINE left == w[k]
             passed == deadline[timer_list[k]]
  <2> HIDE DEF left, passed
  <2>3. left = t + now - passed
    <3>1. left + passed = t + now /\ left \in Int /\ passed \in Int
      BY <2>1, <2>2 DEF left, passed
    <3> QED
      BY <2>2, <3>1
  <2> QED
    BY <1>11, <2>3 DEF left, passed
<1> QED
  BY <1>10, <1>11

-----------------------------------------------------------------------------
(* Facts every step proof starts from. *)
LEMMA ListFacts ==
    ASSUME TypeOK
    PROVE  /\ Len(timer_list) \in Nat
           /\ DOMAIN timer_list = 1..Len(timer_list)
           /\ \A i \in 1..Len(timer_list) : timer_list[i] \in Proc
  BY LenProperties, ElementOfSeq DEF TypeOK

(* The empty list. *)
LEMMA InitIInv == Init => IInv
<1> SUFFICES ASSUME Init PROVE IInv
  OBVIOUS
<1>1. timer_list = <<>> /\ DOMAIN timer_list = {} /\ timer_list \in Seq(Proc)
  <2>1. timer_list = <<>>
    BY DEF Init, TimerInit
  <2>2. timer_list \in Seq(Proc) /\ Len(timer_list) = 0
    BY <2>1, EmptySeq
  <2> QED
    BY <2>1, <2>2, LenProperties
<1>2. TypeOK
  BY <1>1 DEF Init, TimerInit, TypeOK
<1> QED
  BY <1>1, <1>2 DEF IInv, LinksAlive, DeltasEncodeDeadlines, FiresInOrder, NoEarlyFire, Init

(* Moving both ends of an interval by the same amount. *)
LEMMA Rebase == \A e, x, d, y, z \in Int : e = d - z /\ x = y - z => e - x = d - y
  OBVIOUS

(* The delta behind position k, whether or not it is the first one. *)
LEMMA NextDelta ==
    ASSUME TypeOK, DeltasEncodeDeadlines, NEW k \in Nat, k < Len(timer_list)
    PROVE  expires[timer_list[k + 1]] = deadline[timer_list[k + 1]]
                - (IF k = 0 THEN now ELSE deadline[timer_list[k]])
<1>1. k + 1 \in DOMAIN timer_list /\ (k + 1) - 1 = k /\ (k + 1 = 1 <=> k = 0)
  BY ListFacts
<1> QED
  BY <1>1 DEF DeltasEncodeDeadlines

(* Going to sleep. *)
LEMMA SleepIInv ==
    ASSUME IInv, NEW p \in Proc, do_sleep(p)
    PROVE  IInv'
<1> USE DEF IInv
<1>1. PICK t \in 1..MaxSleep : add_timer(p, t) /\ deadline' = [deadline EXCEPT ![p] = now + t]
  BY DEF do_sleep
<1>2. t \in Nat /\ t > 0
  BY TimerAssumption
<1> DEFINE Inserted(k, w) ==
         /\ w[0] = t
         /\ Passed(w, k)
         /\ k < Len(timer_list) => w[k] < expires[timer_list[k + 1]]
         /\ timer_list' = InsertAfter(timer_list, k, p)
         /\ expires' = [q \in Proc |->
               IF q = p THEN w[k]
               ELSE IF k < Len(timer_list) /\ q = timer_list[k + 1]
                    THEN expires[q] - w[k]
                    ELSE expires[q]]
<1>33. PICK k \in 0..Len(timer_list) : \E w \in [0..k -> 0..t] : Inserted(k, w)
  BY <1>1 DEF add_timer
<1>3. PICK w \in [0..k -> 0..t] : Inserted(k, w)
  BY <1>33
<1> DEFINE n == Len(timer_list)
           D == now + t
<1>4. /\ n \in Nat /\ k \in Nat /\ k <= n
      /\ DOMAIN timer_list = 1..n
      /\ \A i \in 1..n : timer_list[i] \in Proc
  BY ListFacts
<1>5. /\ timer_list' \in Seq(Proc)
      /\ Len(timer_list') = n + 1
      /\ DOMAIN timer_list' = 1..(n + 1)
      /\ \A i \in 1..(n + 1) : timer_list'[i] = IF i <= k THEN timer_list[i]
                                  ELSE IF i = k + 1 THEN p ELSE timer_list[i - 1]
  BY <1>3, InsertIntoList DEF TypeOK
<1>6. /\ p \notin in_sleep /\ in_sleep' = in_sleep \cup {p} /\ now' = now
      /\ \A i \in 1..n : timer_list[i] # p
  BY <1>4 DEF do_sleep, LinksAlive
<1> DEFINE Old(i) == IF i <= k THEN i ELSE i - 1
<1>60. /\ k + 1 \in 1..(n + 1) /\ timer_list'[k + 1] = p
       /\ \A i \in 1..(n + 1) : i # k + 1 =>
             Old(i) \in 1..n /\ timer_list'[i] = timer_list[Old(i)]
       /\ \A i, j \in 1..(n + 1) : i # k + 1 /\ j # k + 1 /\ i < j => Old(i) < Old(j)
       /\ \A i, j \in 1..(n + 1) : i # k + 1 /\ j # k + 1 /\ i # j => Old(i) # Old(j)
  <2>1. k + 1 \in 1..(n + 1) /\ timer_list'[k + 1] = p
    BY <1>4, <1>5
  <2>2. \A i \in 1..(n + 1) : i # k + 1 => Old(i) \in 1..n
    BY <1>4
  <2>3. \A i \in 1..(n + 1) : i # k + 1 => timer_list'[i] = timer_list[Old(i)]
    BY <1>5
  <2>4. \A i, j \in 1..(n + 1) : i # k + 1 /\ j # k + 1 /\ i < j => Old(i) < Old(j)
    BY <1>4
  <2>5. \A i, j \in 1..(n + 1) : i # k + 1 /\ j # k + 1 /\ i # j => Old(i) # Old(j)
    BY <1>4
  <2> QED BY <2>1, <2>2, <2>3, <2>4, <2>5
<1>7. /\ deadline'[p] = D
      /\ \A q \in Proc : q # p => deadline'[q] = deadline[q]
      /\ deadline' \in [Proc -> Nat]
  BY <1>1, <1>2 DEF TypeOK
<1>8. w[k] \in Nat /\ w[k] = D - (IF k = 0 THEN now ELSE deadline[timer_list[k]])
  <2>1. w[k] = t + now - (IF k = 0 THEN now ELSE deadline[timer_list[k]])
    BY <1>2, <1>3, WalkKeepsDeadline
  <2>2. w[k] \in Nat /\ now \in Nat
    BY <1>2, <1>3, <1>4 DEF TypeOK
  <2>3. k # 0 => deadline[timer_list[k]] \in Nat
    BY <1>4 DEF TypeOK
  <2>4. t \in Nat /\ D = now + t
    BY <1>2, <2>2
  <2>5. PICK z : z = IF k = 0 THEN now ELSE deadline[timer_list[k]]
    OBVIOUS
  <2>6. z \in Nat /\ w[k] = t + now - z
    BY <2>1, <2>2, <2>3, <2>5
  <2>7. t + now - z = now + t - z
    BY <2>2, <2>4, <2>6
  <2> QED
    BY <2>2, <2>4, <2>5, <2>6, <2>7
<1>9. TypeOK'
  <2>1. expires' \in [Proc -> Nat]
    <3>1. ASSUME NEW q \in Proc, k < n, q = timer_list[k + 1]
          PROVE  expires[q] - w[k] \in Nat
      <4>1. w[k] < expires[q] /\ expires[q] \in Nat
        BY <1>3, <3>1 DEF TypeOK
      <4>2. w[k] \in Nat
        BY <1>8
      <4> QED
        BY <4>1, <4>2
    <3> QED
      BY <1>3, <1>8, <3>1 DEF TypeOK
  <2> QED
    BY <1>5, <1>6, <1>7, <2>1 DEF TypeOK
<1>10. LinksAlive'
  <2> HIDE DEF Old
  <2>1. ASSUME NEW i \in 1..(n + 1), NEW j \in 1..(n + 1), i # j
        PROVE  timer_list'[i] # timer_list'[j]
    <3>1. CASE i = k + 1 \/ j = k + 1
      BY <1>6, <1>60, <2>1, <3>1
    <3>2. CASE i # k + 1 /\ j # k + 1
      <4>1. Old(i) \in 1..n /\ Old(j) \in 1..n /\ Old(i) # Old(j)
        BY <1>60, <2>1, <3>2
      <4>2. timer_list[Old(i)] # timer_list[Old(j)]
        BY <1>4, <4>1 DEF LinksAlive
      <4> QED
        BY <1>60, <3>2, <4>2
    <3> QED
      BY <3>1, <3>2
  <2>2. ASSUME NEW i \in 1..(n + 1) PROVE timer_list'[i] \in in_sleep'
    <3>1. CASE i = k + 1
      BY <1>6, <1>60, <3>1
    <3>2. CASE i # k + 1
      <4>1. timer_list'[i] = timer_list[Old(i)] /\ Old(i) \in 1..n
        BY <1>60, <3>2
      <4> QED
        BY <1>4, <1>6, <4>1 DEF LinksAlive
    <3> QED
      BY <3>1, <3>2
  <2> QED
    BY <1>5, <2>1, <2>2 DEF LinksAlive
<1>11. DeltasEncodeDeadlines'
  <2> SUFFICES ASSUME NEW i \in 1..(n + 1)
               PROVE  IF i = 1
                      THEN /\ expires'[timer_list'[i]] = deadline'[timer_list'[i]] - now'
                           /\ expires'[timer_list'[i]] > 0
                      ELSE expires'[timer_list'[i]]
                             = deadline'[timer_list'[i]] - deadline'[timer_list'[i - 1]]
    BY <1>5 DEF DeltasEncodeDeadlines
  <2>1. CASE i <= k
    <3>1. i \in 1..n /\ timer_list'[i] = timer_list[i] /\ timer_list[i] # p
      BY <1>4, <1>5, <1>6, <2>1
    <3>2. ASSUME k < n PROVE timer_list[i] # timer_list[k + 1]
      <4>1. i \in 1..n /\ k + 1 \in 1..n /\ i # k + 1
        BY <1>4, <2>1, <3>2
      <4> QED
        BY <1>4, <4>1 DEF LinksAlive
    <3>3. expires'[timer_list[i]] = expires[timer_list[i]]
      BY <1>3, <1>4, <3>1, <3>2
    <3>4. deadline'[timer_list[i]] = deadline[timer_list[i]]
      BY <1>4, <1>7, <3>1
    <3>5. ASSUME i # 1
          PROVE  /\ timer_list'[i - 1] = timer_list[i - 1]
                 /\ deadline'[timer_list[i - 1]] = deadline[timer_list[i - 1]]
      <4>1. i - 1 \in 1..n /\ i - 1 \in 1..(n + 1) /\ i - 1 <= k
        BY <1>4, <2>1, <3>5
      <4>2. timer_list'[i - 1] = timer_list[i - 1]
        BY <1>5, <4>1
      <4>3. timer_list[i - 1] \in Proc /\ timer_list[i - 1] # p
        BY <1>4, <1>6, <4>1
      <4> QED
        BY <1>7, <4>2, <4>3
    <3>6. /\ i = 1 => /\ expires[timer_list[i]] = deadline[timer_list[i]] - now
                       /\ expires[timer_list[i]] > 0
          /\ i # 1 => expires[timer_list[i]]
                         = deadline[timer_list[i]] - deadline[timer_list[i - 1]]
      BY <1>4, <3>1 DEF DeltasEncodeDeadlines
    <3>7. CASE i = 1
      BY <1>6, <3>1, <3>3, <3>4, <3>6, <3>7
    <3>8. CASE i # 1
      BY <3>1, <3>3, <3>4, <3>5, <3>6, <3>8
    <3> QED
      BY <3>7, <3>8
  <2>2. CASE i = k + 1
    <3>1. timer_list'[i] = p /\ expires'[p] = w[k] /\ deadline'[p] = D
      BY <1>3, <1>4, <1>5, <1>7, <2>2
    <3>2. CASE k = 0
      BY <1>2, <1>6, <1>8, <2>2, <3>1, <3>2 DEF TypeOK
    <3>3. CASE k # 0
      <4>1. /\ i # 1 /\ timer_list'[i - 1] = timer_list[k]
            /\ deadline'[timer_list[k]] = deadline[timer_list[k]]
        BY <1>4, <1>5, <1>6, <1>7, <2>2, <3>3
      <4> QED
        BY <1>8, <3>1, <3>3, <4>1
    <3> QED
      BY <3>2, <3>3
  <2>3. CASE i = k + 2
    <3>1. /\ k + 1 \in 1..n /\ i # 1
          /\ timer_list'[i] = timer_list[k + 1] /\ timer_list'[i - 1] = p
          /\ timer_list[k + 1] # p
      BY <1>4, <1>5, <1>6, <2>3
    <3>2. expires'[timer_list[k + 1]] = expires[timer_list[k + 1]] - w[k]
      BY <1>3, <1>4, <3>1
    <3>3. deadline'[timer_list[k + 1]] = deadline[timer_list[k + 1]]
      BY <1>4, <1>7, <3>1
    <3>4. expires[timer_list[k + 1]] = deadline[timer_list[k + 1]]
                - (IF k = 0 THEN now ELSE deadline[timer_list[k]])
      <4>1. k \in Nat /\ k < Len(timer_list)
        BY <1>4, <3>1
      <4> QED
        BY <4>1, NextDelta
    <3>5. /\ deadline[timer_list[k + 1]] \in Int /\ now \in Int
          /\ k # 0 => deadline[timer_list[k]] \in Int
      BY <1>4, <3>1 DEF TypeOK
    <3>6. D \in Int /\ w[k] \in Int
      BY <1>2, <1>8, <3>5
    <3>7. expires'[timer_list[k + 1]] = deadline[timer_list[k + 1]] - D
      <4> DEFINE z == IF k = 0 THEN now ELSE deadline[timer_list[k]]
                 e == expires[timer_list[k + 1]]
      <4>1. /\ z \in Int /\ w[k] = D - z
            /\ e = deadline[timer_list[k + 1]] - z /\ e \in Int
        BY <1>8, <3>4, <3>5
      <4> HIDE DEF z, D
      <4> QED
        BY <3>2, <3>5, <3>6, <4>1, Rebase
    <3> QED
      BY <1>7, <3>1, <3>3, <3>7
  <2>4. CASE i > k + 2
    <3>1. /\ i - 1 \in 1..n /\ i - 2 \in 1..n /\ i - 1 # k + 1 /\ i # 1 /\ i - 1 # 1
          /\ timer_list'[i] = timer_list[i - 1] /\ timer_list'[i - 1] = timer_list[i - 2]
          /\ timer_list[i - 1] # p /\ timer_list[i - 2] # p
          /\ (i - 1) - 1 = i - 2
      <4>1. /\ i - 1 \in 1..n /\ i - 2 \in 1..n /\ i - 1 # k + 1 /\ i # 1 /\ i - 1 # 1
            /\ i \in 1..(n + 1) /\ i - 1 \in 1..(n + 1) /\ (i - 1) - 1 = i - 2
            /\ ~(i <= k + 1) /\ ~(i - 1 <= k + 1)
        BY <1>4, <2>4
      <4>2. timer_list'[i] = timer_list[i - 1] /\ timer_list'[i - 1] = timer_list[i - 2]
        BY <1>4, <1>5, <4>1
      <4> QED
        BY <1>6, <4>1, <4>2
    <3>2. expires'[timer_list[i - 1]] = expires[timer_list[i - 1]]
      <4>1. ASSUME k < n PROVE timer_list[i - 1] # timer_list[k + 1]
        <5>1. k + 1 \in 1..n /\ i - 1 # k + 1
          BY <1>4, <3>1, <4>1
        <5> QED
          BY <1>4, <3>1, <5>1 DEF LinksAlive
      <4> QED
        BY <1>3, <1>4, <3>1, <4>1
    <3>3. /\ deadline'[timer_list[i - 1]] = deadline[timer_list[i - 1]]
          /\ deadline'[timer_list[i - 2]] = deadline[timer_list[i - 2]]
      BY <1>4, <1>7, <3>1
    <3>4. expires[timer_list[i - 1]] = deadline[timer_list[i - 1]] - deadline[timer_list[i - 2]]
      BY <1>4, <3>1 DEF DeltasEncodeDeadlines
    <3> QED
      BY <3>1, <3>2, <3>3, <3>4
  <2> QED
    BY <1>4, <2>1, <2>2, <2>3, <2>4
<1>12. FiresInOrder'
  <2>1. \A i \in 1..n : deadline'[timer_list[i]] = deadline[timer_list[i]]
    BY <1>4, <1>6, <1>7
  <2>2. ASSUME NEW i \in 1..n, i <= k PROVE deadline[timer_list[i]] <= D
    <3>1. i = k \/ (k \in 1..n /\ i < k)
      BY <1>4, <2>2
    <3>2. k \in 1..n /\ k # 0
      BY <1>4, <2>2
    <3>3. /\ deadline[timer_list[k]] \in Nat /\ deadline[timer_list[i]] \in Nat
          /\ now \in Nat
      BY <1>4, <3>2 DEF TypeOK
    <3>4. deadline[timer_list[i]] <= deadline[timer_list[k]]
      <4>1. CASE i = k
        BY <3>3, <4>1
      <4>2. CASE i < k
        BY <1>4, <3>2, <4>2 DEF FiresInOrder
      <4> QED
        BY <3>1, <4>1, <4>2
    <3>5. deadline[timer_list[k]] <= D
      <4>1. w[k] = D - deadline[timer_list[k]]
        BY <1>8, <3>2
      <4>2. D \in Nat /\ w[k] \in Nat
        BY <1>2, <1>8, <3>3
      <4> HIDE DEF D
      <4> QED
        BY <3>3, <4>1, <4>2
    <3>6. D \in Nat
      BY <1>2
    <3> HIDE DEF D
    <3> QED
      BY <3>3, <3>4, <3>5, <3>6
  <2>3. ASSUME NEW i \in 1..n, i > k PROVE D <= deadline[timer_list[i]]
    <3>1. k + 1 \in 1..n /\ w[k] < expires[timer_list[k + 1]]
      BY <1>3, <1>4, <2>3
    <3>2. expires[timer_list[k + 1]] = deadline[timer_list[k + 1]]
                - (IF k = 0 THEN now ELSE deadline[timer_list[k]])
      <4>1. k \in Nat /\ k < Len(timer_list)
        BY <1>4, <3>1
      <4> QED
        BY <4>1, NextDelta
    <3>3. /\ deadline[timer_list[k + 1]] \in Nat /\ deadline[timer_list[i]] \in Nat
          /\ now \in Nat /\ (k # 0 => deadline[timer_list[k]] \in Nat)
      BY <1>4, <2>3, <3>1 DEF TypeOK
    <3>4. deadline[timer_list[k + 1]] <= deadline[timer_list[i]]
      <4>1. CASE i = k + 1
        BY <3>3, <4>1
      <4>2. CASE i # k + 1
        BY <1>4, <2>3, <3>1, <4>2 DEF FiresInOrder
      <4> QED
        BY <4>1, <4>2
    <3> QED
      BY <1>2, <1>8, <3>1, <3>2, <3>3, <3>4
  <2>4. D > now /\ D \in Nat /\ now \in Nat
    BY <1>2 DEF TypeOK
  <2> HIDE DEF Old
  <2>5. ASSUME NEW i \in 1..(n + 1) PROVE deadline'[timer_list'[i]] > now'
    <3>1. CASE i = k + 1
      BY <1>6, <1>7, <1>60, <2>4, <3>1
    <3>2. CASE i # k + 1
      <4>1. timer_list'[i] = timer_list[Old(i)] /\ Old(i) \in 1..n
        BY <1>60, <3>2
      <4>2. deadline[timer_list[Old(i)]] > now
        BY <1>4, <4>1 DEF FiresInOrder
      <4> QED
        BY <1>6, <2>1, <4>1, <4>2
    <3> QED
      BY <3>1, <3>2
  <2>6. ASSUME NEW i \in 1..(n + 1), NEW j \in 1..(n + 1), i < j
        PROVE  deadline'[timer_list'[i]] <= deadline'[timer_list'[j]]
    <3>1. CASE i = k + 1
      <4>1. j \in 1..(n + 1) /\ j # k + 1 /\ j > k + 1
        BY <1>4, <2>6, <3>1
      <4>2. timer_list'[i] = p /\ Old(j) \in 1..n /\ timer_list'[j] = timer_list[Old(j)]
        BY <1>60, <3>1, <4>1
      <4>3. Old(j) > k
        BY <1>4, <4>1 DEF Old
      <4> QED
        BY <1>7, <2>1, <2>3, <4>2, <4>3
    <3>2. CASE j = k + 1
      <4>1. i # k + 1 /\ i <= k
        BY <1>4, <2>6, <3>2
      <4>2. timer_list'[j] = p /\ Old(i) \in 1..n /\ timer_list'[i] = timer_list[Old(i)]
        BY <1>60, <3>2, <4>1
      <4>3. Old(i) <= k
        BY <1>4, <4>1 DEF Old
      <4> QED
        BY <1>7, <2>1, <2>2, <4>2, <4>3
    <3>3. CASE i # k + 1 /\ j # k + 1
      <4>1. /\ Old(i) \in 1..n /\ Old(j) \in 1..n /\ Old(i) < Old(j)
            /\ timer_list'[i] = timer_list[Old(i)] /\ timer_list'[j] = timer_list[Old(j)]
        BY <1>60, <2>6, <3>3
      <4>2. deadline[timer_list[Old(i)]] <= deadline[timer_list[Old(j)]]
        BY <1>4, <4>1 DEF FiresInOrder
      <4> QED
        BY <2>1, <4>1, <4>2
    <3> QED
      BY <3>1, <3>2, <3>3
  <2> QED
    BY <1>5, <2>5, <2>6 DEF FiresInOrder
<1>13. NoEarlyFire'
  <2> SUFFICES ASSUME NEW q \in in_sleep', ~Linked(q)'
               PROVE  deadline'[q] <= now'
    BY DEF NoEarlyFire
  <2>1. q # p
    <3>1. k + 1 \in 1..(n + 1) /\ timer_list'[k + 1] = p
      BY <1>4, <1>5
    <3> QED
      BY <1>5, <3>1 DEF Linked
  <2>2. ~Linked(q)
    <3> SUFFICES ASSUME NEW i \in 1..n, timer_list[i] = q PROVE FALSE
      BY <1>4 DEF Linked
    <3>1. PICK j \in 1..(n + 1) : timer_list'[j] = timer_list[i]
      <4>1. CASE i <= k
        BY <1>4, <1>5, <4>1
      <4>2. CASE i > k
        <5>1. i + 1 \in 1..(n + 1) /\ timer_list'[i + 1] = timer_list[i]
          BY <1>4, <1>5, <4>2
        <5> QED
          BY <5>1
      <4> QED
        BY <1>4, <4>1, <4>2
    <3> QED
      BY <1>5, <3>1 DEF Linked
  <2> QED
    BY <1>6, <1>7, <2>1, <2>2 DEF NoEarlyFire, TypeOK
<1> QED
  BY <1>9, <1>10, <1>11, <1>12, <1>13

-----------------------------------------------------------------------------
(* Leaving do_sleep. *)
LEMMA ResumeIInv ==
    ASSUME IInv, NEW p \in Proc, do_sleep_return(p)
    PROVE  IInv'
<1> USE DEF IInv
<1> DEFINE n == Len(timer_list)
<1>1. /\ n \in Nat /\ DOMAIN timer_list = 1..n
      /\ \A i \in 1..n : timer_list[i] \in Proc
  BY ListFacts
<1>2. /\ del_timer(p) /\ p \in in_sleep /\ in_sleep' = in_sleep \ {p} /\ now' = now
      /\ deadline' = [deadline EXCEPT ![p] = 0]
  BY DEF do_sleep_return
<1>3. /\ deadline' \in [Proc -> Nat]
      /\ \A q \in Proc : q # p => deadline'[q] = deadline[q]
  BY <1>2 DEF TypeOK
<1>4. CASE ~Linked(p) /\ UNCHANGED timerVars
  <2>1. timer_list' = timer_list /\ expires' = expires
    BY <1>4 DEF timerVars
  <2>2. \A i \in 1..n : /\ timer_list[i] # p
                        /\ deadline'[timer_list[i]] = deadline[timer_list[i]]
    BY <1>1, <1>3, <1>4 DEF Linked
  <2>3. TypeOK' /\ LinksAlive'
    BY <1>1, <1>2, <1>3, <2>1, <2>2 DEF TypeOK, LinksAlive
  <2>4. DeltasEncodeDeadlines'
    <3> SUFFICES ASSUME NEW i \in 1..n
                 PROVE  IF i = 1
                        THEN /\ expires[timer_list[i]] = deadline'[timer_list[i]] - now
                             /\ expires[timer_list[i]] > 0
                        ELSE expires[timer_list[i]]
                               = deadline'[timer_list[i]] - deadline'[timer_list[i - 1]]
      BY <1>1, <1>2, <2>1 DEF DeltasEncodeDeadlines
    <3>1. i # 1 => i - 1 \in 1..n
      BY <1>1
    <3> QED
      BY <1>1, <2>2, <3>1 DEF DeltasEncodeDeadlines
  <2>5. FiresInOrder'
    BY <1>1, <1>2, <2>1, <2>2 DEF FiresInOrder
  <2>6. NoEarlyFire'
    <3> SUFFICES ASSUME NEW q \in in_sleep \ {p}, ~Linked(q)
                 PROVE  deadline'[q] <= now
      BY <1>2, <2>1 DEF NoEarlyFire, Linked
    <3> QED
      BY <1>3 DEF NoEarlyFire, TypeOK
  <2> QED
    BY <2>3, <2>4, <2>5, <2>6
<1>5. ASSUME NEW k \in 1..n, timer_list[k] = p, timer_list' = RemoveIndex(timer_list, k),
             expires' = [q \in Proc |->
                IF q = p THEN 0
                ELSE IF k < Len(timer_list) /\ q = timer_list[k + 1]
                     THEN expires[q] + expires[p]
                     ELSE expires[q]]
      PROVE  IInv'
  <2>1. /\ timer_list' \in Seq(Proc)
        /\ DOMAIN timer_list' = 1..(n - 1)
        /\ \A i \in 1..(n - 1) :
              timer_list'[i] = IF i < k THEN timer_list[i] ELSE timer_list[i + 1]
    BY <1>5, RemoveFromList DEF TypeOK
  <2> DEFINE Old(i) == IF i < k THEN i ELSE i + 1
  <2>2. /\ \A i \in 1..(n - 1) : /\ Old(i) \in 1..n /\ Old(i) # k
                                 /\ timer_list'[i] = timer_list[Old(i)]
        /\ \A i, j \in 1..(n - 1) : i < j => Old(i) < Old(j)
        /\ \A i, j \in 1..(n - 1) : i # j => Old(i) # Old(j)
        /\ \A i \in 1..n : i # k => \E j \in 1..(n - 1) : Old(j) = i
    <3>1. ASSUME NEW i \in 1..n, i # k PROVE \E j \in 1..(n - 1) : Old(j) = i
      <4>1. CASE i < k
        <5>1. i \in 1..(n - 1) /\ Old(i) = i
          BY <1>1, <4>1
        <5> QED
          BY <5>1
      <4>2. CASE i > k
        <5>1. i - 1 \in 1..(n - 1) /\ Old(i - 1) = i
          BY <1>1, <4>2
        <5> QED
          BY <5>1
      <4> QED
        BY <1>1, <3>1, <4>1, <4>2
    <3>2. \A i \in 1..(n - 1) : /\ Old(i) \in 1..n /\ Old(i) # k
                                /\ timer_list'[i] = timer_list[Old(i)]
      BY <1>1, <2>1
    <3>3. /\ \A i, j \in 1..(n - 1) : i < j => Old(i) < Old(j)
          /\ \A i, j \in 1..(n - 1) : i # j => Old(i) # Old(j)
      BY <1>1
    <3> HIDE DEF Old
    <3> QED
      BY <3>1, <3>2, <3>3
  <2>3. \A i \in 1..n : i # k => /\ timer_list[i] # p
                                 /\ deadline'[timer_list[i]] = deadline[timer_list[i]]
    BY <1>1, <1>3, <1>5 DEF LinksAlive
  <2>4. \A i \in 1..n : i # k /\ i # k + 1 => expires'[timer_list[i]] = expires[timer_list[i]]
    <3> SUFFICES ASSUME NEW i \in 1..n, i # k, i # k + 1
                 PROVE  expires'[timer_list[i]] = expires[timer_list[i]]
      OBVIOUS
    <3>1. ASSUME k < n PROVE timer_list[i] # timer_list[k + 1]
      <4>1. k + 1 \in 1..n
        BY <1>1, <3>1
      <4> QED
        BY <1>1, <4>1 DEF LinksAlive
    <3> QED
      BY <1>1, <1>5, <2>3, <3>1
  <2>5. TypeOK'
    <3>1. expires' \in [Proc -> Nat]
      BY <1>5 DEF TypeOK
    <3> QED
      BY <1>2, <1>3, <2>1, <3>1 DEF TypeOK
  <2>6. LinksAlive'
    <3> HIDE DEF Old
    <3>1. ASSUME NEW i \in 1..(n - 1), NEW j \in 1..(n - 1), i # j
          PROVE  timer_list'[i] # timer_list'[j]
      <4>1. Old(i) \in 1..n /\ Old(j) \in 1..n /\ Old(i) # Old(j)
        BY <2>2, <3>1
      <4> QED
        BY <1>1, <2>2, <4>1 DEF LinksAlive
    <3>2. ASSUME NEW i \in 1..(n - 1) PROVE timer_list'[i] \in in_sleep \ {p}
      <4>1. Old(i) \in 1..n /\ Old(i) # k /\ timer_list'[i] = timer_list[Old(i)]
        BY <2>2
      <4> QED
        BY <1>1, <2>3, <4>1 DEF LinksAlive
    <3> QED
      BY <1>2, <2>1, <3>1, <3>2 DEF LinksAlive
  <2>7. DeltasEncodeDeadlines'
    <3> SUFFICES ASSUME NEW i \in 1..(n - 1)
                 PROVE  IF i = 1
                        THEN /\ expires'[timer_list'[i]] = deadline'[timer_list'[i]] - now
                             /\ expires'[timer_list'[i]] > 0
                        ELSE expires'[timer_list'[i]]
                               = deadline'[timer_list'[i]] - deadline'[timer_list'[i - 1]]
      BY <1>2, <2>1 DEF DeltasEncodeDeadlines
    <3>1. CASE i < k
      <4>1. /\ i \in 1..n /\ i # k /\ i # k + 1 /\ timer_list'[i] = timer_list[i]
            /\ i # 1 => /\ i - 1 \in 1..n /\ i - 1 # k
                        /\ timer_list'[i - 1] = timer_list[i - 1]
        BY <1>1, <2>1, <3>1
      <4>2. /\ expires'[timer_list[i]] = expires[timer_list[i]]
            /\ deadline'[timer_list[i]] = deadline[timer_list[i]]
            /\ i # 1 => deadline'[timer_list[i - 1]] = deadline[timer_list[i - 1]]
        BY <2>3, <2>4, <4>1
      <4>3. CASE i = 1
        BY <1>1, <4>1, <4>2, <4>3 DEF DeltasEncodeDeadlines
      <4>4. CASE i # 1
        <5>1. expires[timer_list[i]] = deadline[timer_list[i]] - deadline[timer_list[i - 1]]
          BY <1>1, <4>1, <4>4 DEF DeltasEncodeDeadlines
        <5> QED
          BY <4>1, <4>2, <4>4, <5>1
      <4> QED
        BY <4>3, <4>4
    <3>2. CASE i = k
      <4>1. /\ k + 1 \in 1..n /\ k < n /\ k + 1 # k /\ k + 1 # 1 /\ (k + 1) - 1 = k
            /\ timer_list'[i] = timer_list[k + 1] /\ timer_list[k + 1] # p
        BY <1>1, <2>1, <2>3, <3>2
      <4> DEFINE z == IF k = 1 THEN now ELSE deadline[timer_list[k - 1]]
                 next == timer_list[k + 1]
      <4>2. /\ expires'[next] = expires[next] + expires[p]
            /\ deadline'[next] = deadline[next]
        BY <1>1, <1>5, <2>3, <4>1
      <4>3. expires[next] = deadline[next] - deadline[p]
        BY <1>1, <1>5, <4>1 DEF DeltasEncodeDeadlines
      <4>4. expires[p] = deadline[p] - z
        BY <1>1, <1>5 DEF DeltasEncodeDeadlines
      <4>5. k # 1 => /\ k - 1 \in 1..n /\ k - 1 # k
                     /\ timer_list'[i - 1] = timer_list[k - 1]
        BY <1>1, <2>1, <3>2
      <4>6. /\ next \in Proc /\ deadline[next] \in Int /\ deadline[p] \in Int /\ z \in Int
            /\ deadline[next] > now
        <5>1. k # 1 => timer_list[k - 1] \in Proc
          BY <1>1, <4>5
        <5>2. next \in Proc /\ deadline[next] > now
          BY <1>1, <4>1 DEF FiresInOrder
        <5> QED
          BY <5>1, <5>2 DEF TypeOK
      <4>7. expires'[next] = deadline[next] - z
        <5> HIDE DEF z, next
        <5> QED
          BY <4>2, <4>3, <4>4, <4>6
      <4>8. CASE k = 1
        <5>1. now \in Int
          BY DEF TypeOK
        <5> QED
          BY <3>2, <4>1, <4>2, <4>6, <4>7, <4>8, <5>1
      <4>9. CASE k # 1
        BY <2>3, <3>2, <4>1, <4>2, <4>5, <4>7, <4>9
      <4> QED
        BY <4>8, <4>9
    <3>3. CASE i > k
      <4>1. /\ i + 1 \in 1..n /\ i + 1 # k /\ i + 1 # k + 1 /\ i \in 1..n /\ i # k
            /\ i # 1 /\ i + 1 # 1 /\ (i + 1) - 1 = i
            /\ timer_list'[i] = timer_list[i + 1] /\ timer_list'[i - 1] = timer_list[i]
        BY <1>1, <2>1, <3>3
      <4>2. /\ expires'[timer_list[i + 1]] = expires[timer_list[i + 1]]
            /\ deadline'[timer_list[i + 1]] = deadline[timer_list[i + 1]]
            /\ deadline'[timer_list[i]] = deadline[timer_list[i]]
        BY <2>3, <2>4, <4>1
      <4>3. expires[timer_list[i + 1]] = deadline[timer_list[i + 1]] - deadline[timer_list[i]]
        BY <1>1, <4>1 DEF DeltasEncodeDeadlines
      <4> QED
        BY <4>1, <4>2, <4>3
    <3> QED
      BY <1>1, <3>1, <3>2, <3>3
  <2>8. FiresInOrder'
    <3> HIDE DEF Old
    <3>1. ASSUME NEW i \in 1..(n - 1) PROVE deadline'[timer_list'[i]] > now
      <4>1. Old(i) \in 1..n /\ Old(i) # k /\ timer_list'[i] = timer_list[Old(i)]
        BY <2>2
      <4> QED
        BY <1>1, <2>3, <4>1 DEF FiresInOrder
    <3>2. ASSUME NEW i \in 1..(n - 1), NEW j \in 1..(n - 1), i < j
          PROVE  deadline'[timer_list'[i]] <= deadline'[timer_list'[j]]
      <4>1. /\ Old(i) \in 1..n /\ Old(i) # k /\ timer_list'[i] = timer_list[Old(i)]
            /\ Old(j) \in 1..n /\ Old(j) # k /\ timer_list'[j] = timer_list[Old(j)]
            /\ Old(i) < Old(j)
        BY <2>2, <3>2
      <4>2. deadline[timer_list[Old(i)]] <= deadline[timer_list[Old(j)]]
        BY <1>1, <4>1 DEF FiresInOrder
      <4> QED
        BY <2>3, <4>1, <4>2
    <3> QED
      BY <1>2, <2>1, <3>1, <3>2 DEF FiresInOrder
  <2>9. NoEarlyFire'
    <3> HIDE DEF Old
    <3> SUFFICES ASSUME NEW q \in in_sleep \ {p}, ~Linked(q)'
                 PROVE  deadline'[q] <= now
      BY <1>2 DEF NoEarlyFire
    <3>1. ~Linked(q)
      <4> SUFFICES ASSUME NEW i \in 1..n, timer_list[i] = q PROVE FALSE
        BY <1>1 DEF Linked
      <4>1. i # k
        BY <1>5
      <4>2. PICK j \in 1..(n - 1) : timer_list'[j] = timer_list[i]
        BY <2>2, <4>1
      <4> QED
        BY <2>1, <4>2 DEF Linked
    <3> QED
      BY <1>3, <3>1 DEF NoEarlyFire, TypeOK
  <2> QED
    BY <2>5, <2>6, <2>7, <2>8, <2>9
<1> QED
  BY <1>2, <1>4, <1>5 DEF del_timer

-----------------------------------------------------------------------------
(* The tick. *)
(* The loop of run_timer_list removes the timers that are due, and no other. *)
LEMMA FiresExactlyDue ==
    ASSUME IInv, NEW k \in Nat, Fires(k)
    PROVE  /\ k <= Len(timer_list)
           /\ \A i \in 1..Len(timer_list) :
                 deadline[timer_list[i]] = now + 1 <=> i <= k
<1> USE DEF IInv
<1> DEFINE n == Len(timer_list)
<1>1. /\ n \in Nat /\ DOMAIN timer_list = 1..n
      /\ \A i \in 1..n : timer_list[i] \in Proc
  BY ListFacts
<1>2. k \in 0..n /\ now \in Nat /\ \A i \in 1..n : deadline[timer_list[i]] \in Nat
  BY <1>1 DEF Fires, TypeOK
<1>3. ASSUME NEW i \in 1..n, i <= k PROVE deadline[timer_list[i]] = now + 1
  <2> DEFINE c == [j \in 0..(k - 1) |-> deadline[timer_list[j + 1]]]
  <2>1. /\ k - 1 \in Nat /\ i - 1 \in 0..(k - 1) /\ (i - 1) + 1 = i
        /\ \A j \in 0..(k - 1) : j + 1 \in 1..n /\ j + 1 \in 1..k
    BY <1>1, <1>2, <1>3
  <2>2. c \in [0..(k - 1) -> Int]
    BY <1>2, <2>1
  <2>3. ASSUME NEW j \in 1..(k - 1) PROVE c[j] = c[j - 1]
    <3>1. /\ j \in 0..(k - 1) /\ j - 1 \in 0..(k - 1) /\ (j - 1) + 1 = j
          /\ j + 1 \in 1..n /\ j + 1 \in 1..k /\ j \in 1..n /\ j + 1 # 1 /\ (j + 1) - 1 = j
      BY <1>1, <1>2, <2>1
    <3>2. Aged(j + 1) = 0
      BY <3>1 DEF Fires
    <3>3. expires[timer_list[j + 1]] = deadline[timer_list[j + 1]] - deadline[timer_list[j]]
      BY <1>1, <3>1 DEF DeltasEncodeDeadlines
    <3>4. /\ deadline[timer_list[j + 1]] \in Int /\ deadline[timer_list[j]] \in Int
          /\ expires[timer_list[j + 1]] \in Int
      BY <1>1, <3>1 DEF TypeOK
    <3>5. deadline[timer_list[j + 1]] = deadline[timer_list[j]]
      BY <3>1, <3>2, <3>3, <3>4 DEF Aged
    <3> QED
      BY <3>1, <3>5
  <2>4. c[0] = now + 1
    <3>1. 0 \in 0..(k - 1) /\ 1 \in 1..n /\ 1 \in 1..k
      BY <1>1, <1>2, <1>3
    <3>2. Aged(1) = 0 /\ timer_list[1] \in Proc
      BY <1>1, <3>1 DEF Fires
    <3>3. expires[timer_list[1]] = deadline[timer_list[1]] - now
      BY <1>1, <3>1 DEF DeltasEncodeDeadlines
    <3>4. expires[timer_list[1]] \in Int /\ deadline[timer_list[1]] \in Int
      BY <3>2 DEF TypeOK
    <3>5. deadline[timer_list[1]] = now + 1
      BY <1>2, <3>2, <3>3, <3>4 DEF Aged
    <3> QED
      BY <3>1, <3>5
  <2>5. c[i - 1] = deadline[timer_list[i]]
    BY <2>1
  <2> HIDE DEF c
  <2>6. c[i - 1] = c[0]
    BY <2>1, <2>2, <2>3, ConstantRun
  <2> QED
    BY <2>4, <2>5, <2>6
<1>4. ASSUME NEW i \in 1..n, i > k PROVE deadline[timer_list[i]] > now + 1
  <2>1. k + 1 \in 1..n /\ k < n
    BY <1>1, <1>2, <1>4
  <2>2. Aged(k + 1) # 0 /\ timer_list[k + 1] \in Proc
    BY <1>1, <2>1 DEF Fires
  <2>3. deadline[timer_list[k + 1]] > now /\ deadline[timer_list[k + 1]] \in Nat
    BY <1>1, <1>2, <2>1 DEF FiresInOrder
  <2>4. deadline[timer_list[k + 1]] # now + 1
    <3>1. expires[timer_list[k + 1]] = deadline[timer_list[k + 1]]
                - (IF k = 0 THEN now ELSE deadline[timer_list[k]])
      BY <2>1, NextDelta
    <3>2. CASE k = 0
      <4>1. /\ expires[timer_list[1]] = deadline[timer_list[1]] - now
            /\ expires[timer_list[1]] - 1 # 0 /\ expires[timer_list[1]] \in Int
        BY <2>2, <3>1, <3>2 DEF Aged, TypeOK
      <4> QED
        BY <1>2, <2>3, <3>2, <4>1
    <3>3. CASE k # 0
      <4>1. k \in 1..n /\ k + 1 # 1
        BY <1>2, <3>3
      <4>2. deadline[timer_list[k]] = now + 1
        BY <1>3, <4>1
      <4>3. expires[timer_list[k + 1]] - 0 # 0 /\ expires[timer_list[k + 1]] \in Int
        BY <2>2, <4>1 DEF Aged, TypeOK
      <4>4. expires[timer_list[k + 1]] = deadline[timer_list[k + 1]] - (now + 1)
        BY <3>1, <3>3, <4>2
      <4> QED
        BY <1>2, <2>3, <4>3, <4>4
    <3> QED
      BY <3>2, <3>3
  <2>5. deadline[timer_list[k + 1]] <= deadline[timer_list[i]]
    <3>1. CASE i = k + 1
      BY <2>3, <3>1
    <3>2. CASE i # k + 1
      <4>1. k + 1 < i
        BY <1>4, <2>1, <3>2
      <4> QED
        BY <1>1, <2>1, <4>1 DEF FiresInOrder
    <3> QED
      BY <3>1, <3>2
  <2> QED
    BY <1>2, <2>3, <2>4, <2>5
<1>5. ASSUME NEW i \in 1..n PROVE deadline[timer_list[i]] = now + 1 <=> i <= k
  BY <1>2, <1>3, <1>4
<1> QED
  BY <1>2, <1>5

(* A tick keeps the invariant. *)
LEMMA TickIInv ==
    ASSUME IInv, run_timer_list
    PROVE  IInv'
<1> USE DEF IInv
<1> DEFINE n == Len(timer_list)
<1>1. /\ n \in Nat /\ DOMAIN timer_list = 1..n
      /\ \A i \in 1..n : timer_list[i] \in Proc
  BY ListFacts
<1>2. PICK k \in 0..n : Fires(k) /\ ExpireFirst(k)
  BY DEF run_timer_list
<1>3. /\ now' = now + 1 /\ in_sleep' = in_sleep /\ deadline' = deadline
      /\ now \in Nat
  BY DEF run_timer_list, TypeOK
<1>4. /\ timer_list' \in Seq(Proc)
      /\ DOMAIN timer_list' = 1..(n - k)
      /\ \A i \in 1..(n - k) : timer_list'[i] = timer_list[i + k]
  BY <1>2, DropFromList DEF ExpireFirst, TypeOK
<1>5. \A i \in 1..n : deadline[timer_list[i]] = now + 1 <=> i <= k
  BY <1>2, FiresExactlyDue
<1>6. n # 0 <=> timer_list # <<>>
  BY EmptySeq DEF TypeOK
<1>7. \A i \in 1..n : i # 1 => expires'[timer_list[i]] = expires[timer_list[i]]
  <2> SUFFICES ASSUME NEW i \in 1..n, i # 1
               PROVE  expires'[timer_list[i]] = expires[timer_list[i]]
    OBVIOUS
  <2>1. timer_list[i] # timer_list[1] /\ timer_list[i] \in Proc
    BY <1>1 DEF LinksAlive
  <2> QED
    BY <1>2, <2>1 DEF ExpireFirst
<1>8. n # 0 => expires'[timer_list[1]] = expires[timer_list[1]] - 1
  BY <1>1, <1>2, <1>6 DEF ExpireFirst
<1>9. TypeOK'
  <2>1. expires' \in [Proc -> Nat]
    <3>1. CASE timer_list = <<>>
      BY <1>2, <3>1 DEF ExpireFirst, TypeOK
    <3>2. CASE timer_list # <<>>
      <4>1. timer_list[1] \in Proc /\ expires[timer_list[1]] \in Nat /\ expires[timer_list[1]] > 0
        BY <1>1, <1>6, <3>2 DEF DeltasEncodeDeadlines, TypeOK
      <4>2. expires[timer_list[1]] - 1 \in Nat
        BY <4>1
      <4> QED
        BY <1>2, <4>2 DEF ExpireFirst, TypeOK
    <3> QED
      BY <3>1, <3>2
  <2> QED
    BY <1>3, <1>4, <2>1 DEF TypeOK
<1>10. LinksAlive'
  <2>1. ASSUME NEW i \in 1..(n - k), NEW j \in 1..(n - k), i # j
        PROVE  timer_list'[i] # timer_list'[j]
    <3>1. i + k \in 1..n /\ j + k \in 1..n /\ i + k # j + k
      BY <1>1, <2>1
    <3> QED
      BY <1>1, <1>4, <3>1 DEF LinksAlive
  <2>2. ASSUME NEW i \in 1..(n - k) PROVE timer_list'[i] \in in_sleep
    <3>1. i + k \in 1..n
      BY <1>1
    <3> QED
      BY <1>1, <1>4, <3>1 DEF LinksAlive
  <2> QED
    BY <1>3, <1>4, <2>1, <2>2 DEF LinksAlive
<1>11. ASSUME NEW i \in 1..(n - k) PROVE deadline[timer_list'[i]] > now + 1
  <2>1. i + k \in 1..n /\ ~ (i + k <= k)
    BY <1>1
  <2>2. deadline[timer_list[i + k]] > now /\ deadline[timer_list[i + k]] # now + 1
    BY <1>1, <1>5, <2>1 DEF FiresInOrder
  <2>3. deadline[timer_list[i + k]] \in Nat
    BY <1>1, <2>1 DEF TypeOK
  <2> QED
    BY <1>3, <1>4, <2>2, <2>3
<1>12. DeltasEncodeDeadlines'
  <2> SUFFICES ASSUME NEW i \in 1..(n - k)
               PROVE  IF i = 1
                      THEN /\ expires'[timer_list'[i]] = deadline[timer_list'[i]] - (now + 1)
                           /\ expires'[timer_list'[i]] > 0
                      ELSE expires'[timer_list'[i]]
                             = deadline[timer_list'[i]] - deadline[timer_list'[i - 1]]
    BY <1>3, <1>4 DEF DeltasEncodeDeadlines
  <2>1. CASE i = 1
    <3>1. /\ k + 1 \in 1..n /\ k < n /\ k \in Nat /\ n # 0 /\ i + k = k + 1
          /\ timer_list'[i] = timer_list[k + 1]
      BY <1>1, <1>4, <2>1
    <3>2. deadline[timer_list[k + 1]] > now + 1
      BY <1>11, <3>1
    <3>3. deadline[timer_list[k + 1]] \in Nat
      BY <1>1, <3>1 DEF TypeOK
    <3>4. expires[timer_list[k + 1]] = deadline[timer_list[k + 1]]
                - (IF k = 0 THEN now ELSE deadline[timer_list[k]])
      BY <3>1, NextDelta
    <3>5. expires'[timer_list[k + 1]] = deadline[timer_list[k + 1]] - (now + 1)
      <4>1. CASE k = 0
        <5>1. /\ expires[timer_list[k + 1]] = deadline[timer_list[k + 1]] - now
              /\ expires'[timer_list[k + 1]] = expires[timer_list[k + 1]] - 1
          BY <1>8, <3>1, <3>4, <4>1
        <5> QED
          BY <1>3, <3>3, <5>1
      <4>2. CASE k # 0
        <5>1. k \in 1..n /\ k + 1 # 1
          BY <3>1, <4>2
        <5>2. deadline[timer_list[k]] = now + 1
          BY <1>5, <5>1
        <5> QED
          BY <1>7, <3>1, <3>4, <4>2, <5>1, <5>2
      <4> QED
        BY <4>1, <4>2
    <3> QED
      BY <1>3, <2>1, <3>1, <3>2, <3>3, <3>5
  <2>2. CASE i # 1
    <3>1. /\ i + k \in 1..n /\ i + k # 1 /\ i - 1 \in 1..(n - k) /\ (i - 1) + k = (i + k) - 1
          /\ timer_list'[i] = timer_list[i + k]
          /\ timer_list'[i - 1] = timer_list[(i + k) - 1]
      <4>1. i + k \in 1..n /\ i + k # 1 /\ i - 1 \in 1..(n - k) /\ (i - 1) + k = (i + k) - 1
        BY <1>1, <2>2
      <4> QED
        BY <1>4, <4>1
    <3>2. expires[timer_list[i + k]] = deadline[timer_list[i + k]] - deadline[timer_list[(i + k) - 1]]
      BY <1>1, <3>1 DEF DeltasEncodeDeadlines
    <3> QED
      BY <1>7, <2>2, <3>1, <3>2
  <2> QED
    BY <2>1, <2>2
<1>13. FiresInOrder'
  <2>1. ASSUME NEW i \in 1..(n - k), NEW j \in 1..(n - k), i < j
        PROVE  deadline[timer_list'[i]] <= deadline[timer_list'[j]]
    <3>1. i + k \in 1..n /\ j + k \in 1..n /\ i + k < j + k
      BY <1>1, <2>1
    <3> QED
      BY <1>1, <1>4, <3>1 DEF FiresInOrder
  <2> QED
    BY <1>3, <1>4, <1>11, <2>1 DEF FiresInOrder
<1>14. NoEarlyFire'
  <2> SUFFICES ASSUME NEW q \in in_sleep, ~Linked(q)' PROVE deadline[q] <= now + 1
    BY <1>3 DEF NoEarlyFire
  <2>1. CASE ~Linked(q)
    BY <1>3, <2>1 DEF NoEarlyFire, TypeOK
  <2>2. CASE Linked(q)
    <3>1. PICK i \in 1..n : timer_list[i] = q
      BY <1>1, <2>2 DEF Linked
    <3>2. ASSUME i > k PROVE FALSE
      <4>1. i - k \in 1..(n - k) /\ (i - k) + k = i
        BY <1>1, <3>2
      <4> QED
        BY <1>4, <3>1, <4>1 DEF Linked
    <3> QED
      BY <1>3, <1>5, <3>1, <3>2
  <2> QED
    BY <2>1, <2>2
<1> QED
  BY <1>9, <1>10, <1>12, <1>13, <1>14

-----------------------------------------------------------------------------
(* So does a step of somebody else. *)
LEMMA StutterIInv == ASSUME IInv, UNCHANGED vars PROVE IInv'
  BY DEF vars, IInv, TypeOK, LinksAlive, DeltasEncodeDeadlines, FiresInOrder, NoEarlyFire, Linked

(* The inductive invariant holds in every reachable state, for any set of  *)
(* processes and any sleeping times.                                       *)
THEOREM Invariance == Spec => []IInv
<1>1. IInv /\ [Next]_vars => IInv'
  BY SleepIInv, ResumeIInv, TickIInv, StutterIInv DEF Next
<1> QED
  BY InitIInv, <1>1, PTL DEF Spec

(* The timer list holds processes, and the fields of its timers are natural *)
(* numbers: no decrement or subtraction of add_timer, del_timer or          *)
(* run_timer_list underflows the unsigned field.                            *)
THEOREM TypeCorrect == Spec => []TypeOK
  BY Invariance, PTL DEF IInv

(* A timer is linked at most once and only while its process is in do_sleep. *)
THEOREM NoDanglingTimer == Spec => []LinksAlive
  BY Invariance, PTL DEF IInv

(* The deltas encode the deadlines the processes asked for. *)
THEOREM DeltasCorrect == Spec => []DeltasEncodeDeadlines
  BY Invariance, PTL DEF IInv

(* The list is sorted by deadline and holds nothing overdue. *)
THEOREM OrderCorrect == Spec => []FiresInOrder
  BY Invariance, PTL DEF IInv

(* No timer fires before the tick its process asked for. *)
THEOREM NeverEarly == Spec => []NoEarlyFire
  BY Invariance, PTL DEF IInv

-----------------------------------------------------------------------------
(* What a tick does to the set of linked timers. *)
LEMMA LinkedAfterTick ==
    ASSUME IInv, run_timer_list, NEW q
    PROVE  Linked(q)' <=> Linked(q) /\ deadline[q] # now + 1
<1> USE DEF IInv
<1> DEFINE n == Len(timer_list)
<1>1. n \in Nat /\ DOMAIN timer_list = 1..n
  BY ListFacts
<1>2. PICK k \in 0..n : Fires(k) /\ ExpireFirst(k)
  BY DEF run_timer_list
<1>3. /\ DOMAIN timer_list' = 1..(n - k)
      /\ \A i \in 1..(n - k) : timer_list'[i] = timer_list[i + k]
  BY <1>2, DropFromList DEF ExpireFirst, TypeOK
<1>4. \A i \in 1..n : deadline[timer_list[i]] = now + 1 <=> i <= k
  BY <1>2, FiresExactlyDue
<1>5. ASSUME Linked(q)' PROVE Linked(q) /\ deadline[q] # now + 1
  <2>1. PICK i \in 1..(n - k) : timer_list'[i] = q
    BY <1>3, <1>5 DEF Linked
  <2>2. i + k \in 1..n /\ ~ (i + k <= k) /\ timer_list[i + k] = q
    BY <1>1, <1>3, <2>1
  <2> QED
    BY <1>1, <1>4, <2>2 DEF Linked
<1>6. ASSUME Linked(q), deadline[q] # now + 1 PROVE Linked(q)'
  <2>1. PICK i \in 1..n : timer_list[i] = q
    BY <1>1, <1>6 DEF Linked
  <2>2. i - k \in 1..(n - k) /\ (i - k) + k = i
    BY <1>1, <1>4, <1>6, <2>1
  <2>3. timer_list'[i - k] = q
    BY <1>3, <2>1, <2>2
  <2> QED
    BY <1>3, <2>2, <2>3 DEF Linked
<1> QED
  BY <1>5, <1>6

(* The owner of a linked timer is asleep until a later tick. *)
LEMMA LinkedFacts ==
    ASSUME IInv, NEW q, Linked(q)
    PROVE  q \in Proc /\ q \in in_sleep /\ deadline[q] > now /\ deadline[q] \in Nat
<1>1. PICK i \in 1..Len(timer_list) : timer_list[i] = q
  BY ListFacts DEF Linked, IInv
<1>2. i \in DOMAIN timer_list /\ q \in Proc
  BY <1>1, ListFacts DEF IInv
<1> QED
  BY <1>1, <1>2 DEF IInv, LinksAlive, FiresInOrder, TypeOK

-----------------------------------------------------------------------------
(* The refinement: each operation of the timer list is the alarm clock's.  *)
Alarm == [p \in Proc |-> IF Linked(p) THEN deadline[p] ELSE 0]
Rung == {p \in in_sleep : ~Linked(p)}

(* do_sleep sets an alarm. *)
LEMMA SleepRefines ==
    ASSUME IInv, NEW p \in Proc, do_sleep(p)
    PROVE  AC!Set(p)
<1> USE DEF IInv
<1>1. PICK t \in 1..MaxSleep : add_timer(p, t) /\ deadline' = [deadline EXCEPT ![p] = now + t]
  BY DEF do_sleep
<1>2. PICK k \in 0..Len(timer_list) : timer_list' = InsertAfter(timer_list, k, p)
  BY <1>1 DEF add_timer
<1>3. \A q : Linked(q)' <=> Linked(q) \/ q = p
  BY <1>2, LinkedAfterInsert DEF TypeOK
<1>4. p \notin in_sleep /\ ~Linked(p) /\ in_sleep' = in_sleep \cup {p} /\ now' = now
  BY LinkedFacts DEF do_sleep
<1>5. Alarm[p] = 0 /\ p \notin Rung
  BY <1>4 DEF Alarm, Rung
<1>6. Alarm' = [Alarm EXCEPT ![p] = now + t]
  <2>1. Alarm' = [q \in Proc |-> IF Linked(q)' THEN deadline'[q] ELSE 0]
    BY DEF Alarm
  <2>2. ASSUME NEW q \in Proc
        PROVE  Alarm'[q] = IF q = p THEN now + t ELSE Alarm[q]
    BY <1>1, <1>3, <2>1 DEF Alarm, TypeOK
  <2> QED
    BY <2>1, <2>2 DEF Alarm
<1>7. Rung' = Rung
  <2>1. \A q : q \in Rung' <=> q \in in_sleep' /\ ~Linked(q)'
    BY DEF Rung
  <2> QED
    BY <1>3, <1>4, <2>1 DEF Rung
<1> QED
  BY <1>4, <1>5, <1>6, <1>7 DEF AC!Set, Alarm, Rung

(* The return from do_sleep clears the alarm. *)
LEMMA ResumeRefines ==
    ASSUME IInv, NEW p \in Proc, do_sleep_return(p)
    PROVE  AC!Clear(p)
<1> USE DEF IInv
<1>1. /\ del_timer(p) /\ p \in in_sleep /\ in_sleep' = in_sleep \ {p} /\ now' = now
      /\ deadline' = [deadline EXCEPT ![p] = 0]
  BY DEF do_sleep_return
<1>2. \A q : Linked(q)' <=> Linked(q) /\ q # p
  BY <1>1, LinkedAfterDelete DEF TypeOK, LinksAlive, NoRepeats
<1>3. Alarm[p] # 0 \/ p \in Rung
  BY <1>1, LinkedFacts DEF Alarm, Rung, TypeOK
<1>4. Alarm' = [Alarm EXCEPT ![p] = 0]
  <2>1. Alarm' = [q \in Proc |-> IF Linked(q)' THEN deadline'[q] ELSE 0]
    BY DEF Alarm
  <2>2. ASSUME NEW q \in Proc
        PROVE  Alarm'[q] = IF q = p THEN 0 ELSE Alarm[q]
    BY <1>1, <1>2, <2>1 DEF Alarm, TypeOK
  <2> QED
    BY <2>1, <2>2 DEF Alarm
<1>5. Rung' = Rung \ {p}
  <2>1. \A q : q \in Rung' <=> q \in in_sleep' /\ ~Linked(q)'
    BY DEF Rung
  <2> QED
    BY <1>1, <1>2, <2>1 DEF Rung
<1> QED
  BY <1>1, <1>3, <1>4, <1>5 DEF AC!Clear, Alarm, Rung

(* A tick rings the alarms that are due. *)
LEMMA TickRefines ==
    ASSUME IInv, run_timer_list
    PROVE  AC!Tick
<1> USE DEF IInv
<1>1. /\ now < MaxNow /\ now' = now + 1 /\ in_sleep' = in_sleep /\ deadline' = deadline
      /\ now \in Nat
  BY DEF run_timer_list, TypeOK
<1>2. \A q : Linked(q)' <=> Linked(q) /\ deadline[q] # now + 1
  BY LinkedAfterTick
<1>3. \A q \in Proc : Alarm[q] = now + 1 <=> Linked(q) /\ deadline[q] = now + 1
  BY <1>1 DEF Alarm
<1>4. Alarm' = [q \in Proc |-> IF Alarm[q] = now + 1 THEN 0 ELSE Alarm[q]]
  <2>1. Alarm' = [q \in Proc |-> IF Linked(q)' THEN deadline'[q] ELSE 0]
    BY DEF Alarm
  <2>2. ASSUME NEW q \in Proc
        PROVE  (IF Linked(q)' THEN deadline'[q] ELSE 0)
                 = (IF Alarm[q] = now + 1 THEN 0 ELSE Alarm[q])
    BY <1>1, <1>2, <1>3 DEF Alarm
  <2> QED
    BY <2>1, <2>2
<1>5. Rung' = Rung \cup {q \in Proc : Alarm[q] = now + 1}
  <2>1. \A q : q \in Rung' <=> q \in in_sleep' /\ ~Linked(q)'
    BY DEF Rung
  <2>2. \A q : Linked(q) => q \in Proc /\ q \in in_sleep
    BY LinkedFacts
  <2> QED
    BY <1>1, <1>2, <1>3, <2>1, <2>2 DEF Rung
<1> QED
  BY <1>1, <1>4, <1>5 DEF AC!Tick, Alarm, Rung

(* The timer list implements the alarm clock: every sleeper is woken on     *)
(* exactly the tick it asked for, whatever timers are added and removed     *)
(* around its own.                                                          *)
THEOREM Refinement == Spec => ImplementsAlarmClock
<1>1. Init => AC!Init
  <2> SUFFICES ASSUME Init PROVE AC!Init
    OBVIOUS
  <2>1. DOMAIN timer_list = {}
    <3>1. timer_list = <<>>
      BY DEF Init, TimerInit
    <3>2. timer_list \in Seq(Proc) /\ Len(timer_list) = 0
      BY <3>1, EmptySeq
    <3> QED
      BY <3>2, LenProperties
  <2>2. \A q : ~Linked(q)
    BY <2>1 DEF Linked
  <2> QED
    BY <2>2 DEF Init, AC!Init
<1>2. IInv /\ [Next]_vars => [AC!Next]_(AC!avars)
  <2> SUFFICES ASSUME IInv, [Next]_vars PROVE AC!Next \/ UNCHANGED AC!avars
    OBVIOUS
  <2>1. CASE run_timer_list
    BY <2>1, TickRefines DEF AC!Next
  <2>2. ASSUME NEW p \in Proc, do_sleep(p) PROVE AC!Next
    BY <2>2, SleepRefines DEF AC!Next
  <2>3. ASSUME NEW p \in Proc, do_sleep_return(p) PROVE AC!Next
    BY <2>3, ResumeRefines DEF AC!Next
  <2>4. CASE UNCHANGED vars
    BY <2>4 DEF vars, AC!avars, Linked
  <2> QED
    BY <2>1, <2>2, <2>3, <2>4 DEF Next
<1> QED
  BY <1>1, <1>2, Invariance, PTL DEF Spec, ImplementsAlarmClock, AC!Spec

-----------------------------------------------------------------------------
(***************************************************************************)
(* The keyboard buffer.                                                    *)
(***************************************************************************)

-----------------------------------------------------------------------------
(* Positions and slots. *)

\* Division with remainder.
LEMMA Division ==
  ASSUME NEW B \in Nat \ {0}, NEW a \in Nat
  PROVE  a % B \in 0..(B - 1) /\ a \div B \in Nat /\ a = B * (a \div B) + (a % B)
OBVIOUS

\* A larger quotient is worth at least one more divisor.
LEMMA Multiple ==
  ASSUME NEW B \in Nat \ {0}, NEW p \in Nat, NEW q \in Nat, p < q
  PROVE  B * q >= B * p + B
<1>1. PICK d \in Nat : q = p + 1 + d
  <2>1. q - p - 1 \in Nat /\ q = p + 1 + (q - p - 1)
    OBVIOUS
  <2>2. QED
    BY <2>1
<1>2. B * q = B * p + B + B * d /\ B * d >= 0
  BY <1>1
<1>3. QED
  BY <1>2

\* Quotient and remainder are unique.
LEMMA OneDivision ==
  ASSUME NEW B \in Nat \ {0}, NEW p \in Nat, NEW q \in Nat,
         NEW r \in 0..(B - 1), NEW s \in 0..(B - 1), B * p + r = B * q + s
  PROVE  p = q /\ r = s
<1>0. B * p \in Int /\ B * q \in Int
  OBVIOUS
<1>1. ~(p < q)
  <2>1. p < q => B * q >= B * p + B
    BY Multiple
  <2>2. QED
    BY <1>0, <2>1
<1>2. ~(q < p)
  <2>1. q < p => B * p >= B * q + B
    BY Multiple
  <2>2. QED
    BY <1>0, <2>1
<1>3. p = q
  BY <1>1, <1>2
<1>4. QED
  BY <1>0, <1>3

\* Two positions less than the buffer apart are in different slots.
LEMMA OwnSlots ==
  ASSUME NEW B \in Nat \ {0}, NEW a \in Nat, NEW b \in Nat, a <= b, b < a + B, a % B = b % B
  PROVE  a = b
<1>1. a % B \in 0..(B - 1) /\ a \div B \in Nat /\ a = B * (a \div B) + (a % B)
  BY Division
<1>2. b % B \in 0..(B - 1) /\ b \div B \in Nat /\ b = B * (b \div B) + (b % B)
  BY Division
<1> DEFINE u == a \div B
           v == b \div B
<1>3. ~(u < v)
  <2>1. u < v => B * v >= B * u + B
    BY <1>1, <1>2, Multiple
  <2>2. B * u \in Int /\ B * v \in Int
    BY <1>1, <1>2
  <2>3. QED
    BY <1>1, <1>2, <2>1, <2>2
<1>4. ~(v < u)
  <2>1. v < u => B * u >= B * v + B
    BY <1>1, <1>2, Multiple
  <2>2. B * u \in Int /\ B * v \in Int
    BY <1>1, <1>2
  <2>3. QED
    BY <1>1, <1>2, <2>1, <2>2
<1>5. u = v
  BY <1>1, <1>2, <1>3, <1>4
<1>6. QED
  BY <1>1, <1>2, <1>5

\* A position one buffer further is in the same slot.
LEMMA SameSlot ==
  ASSUME NEW B \in Nat \ {0}, NEW a \in Nat, NEW b \in Nat, b = a + B
  PROVE  b % B = a % B
<1>1. a % B \in 0..(B - 1) /\ a \div B \in Nat /\ a = B * (a \div B) + (a % B)
  BY Division
<1>2. b % B \in 0..(B - 1) /\ b \div B \in Nat /\ b = B * (b \div B) + (b % B)
  BY Division
<1> DEFINE u == a \div B
           v == b \div B
<1>3. B * (u + 1) = B * u + B /\ B * u \in Int /\ u + 1 \in Nat
  BY <1>1
<1>4. B * (u + 1) + (a % B) = B * v + (b % B)
  BY <1>1, <1>2, <1>3
<1> DEFINE w == u + 1
           r == a % B
           t == b % B
<1>5. w \in Nat /\ v \in Nat /\ r \in 0..(B - 1) /\ t \in 0..(B - 1) /\ B * w + r = B * v + t
  BY <1>1, <1>2, <1>3, <1>4
<1> HIDE DEF w, v, r, t
<1>6. r = t
  BY <1>5, OneDivision
<1>7. QED
  BY <1>6 DEF r, t

-----------------------------------------------------------------------------
(* The wait queue. *)

\* Queue q has the entry of p.
Has(q, p) == \E i \in DOMAIN q : q[i] = p
\* Nobody is in it twice.
Single(q) == \A i, j \in DOMAIN q : q[i] = q[j] => i = j

\* The queue without one entry.
LEMMA WithoutOne ==
  ASSUME NEW q \in Seq(Reader), Single(q), NEW k \in DOMAIN q
  PROVE  /\ Without(q, k) \in Seq(Reader) /\ Single(Without(q, k))
         /\ \A p \in Reader : Has(Without(q, k), p) <=> Has(q, p) /\ p # q[k]
<1>1. DOMAIN q = 1..Len(q) /\ Len(q) \in Nat /\ Len(q) - 1 \in Nat /\ k \in 1..Len(q)
  OBVIOUS
<1> DEFINE w == Without(q, k)
           Old(i) == IF i < k THEN i ELSE i + 1
<1>2. w = [i \in 1..(Len(q) - 1) |-> q[Old(i)]]
  BY DEF Without
<1>3. \A i \in 1..(Len(q) - 1) : Old(i) \in 1..Len(q) /\ Old(i) # k
  BY <1>1
<1>4. \A i, j \in 1..(Len(q) - 1) : Old(i) = Old(j) => i = j
  BY <1>1
<1>5. \A m \in 1..Len(q) : m # k => \E i \in 1..(Len(q) - 1) : Old(i) = m
  <2>1. TAKE m \in 1..Len(q)
  <2>2. HAVE m # k
  <2>3. CASE m < k
    <3>1. m \in 1..(Len(q) - 1) /\ Old(m) = m
      BY <1>1, <2>3
    <3>2. QED
      BY <3>1
  <2>4. CASE m > k
    <3>1. m - 1 \in 1..(Len(q) - 1) /\ Old(m - 1) = m
      BY <1>1, <2>4
    <3>2. QED
      BY <3>1
  <2>5. QED
    BY <1>1, <2>2, <2>3, <2>4
<1>6. \A i \in 1..(Len(q) - 1) : w[i] = q[Old(i)] /\ q[Old(i)] \in Reader
  BY <1>1, <1>2, <1>3
<1>7. DOMAIN w = 1..(Len(q) - 1)
  BY <1>2
<1>8. w \in Seq(Reader)
  <2>1. w \in [1..(Len(q) - 1) -> Reader]
    BY <1>2, <1>6, <1>7
  <2>2. QED
    BY <1>1, <2>1
<1> HIDE DEF w, Old
<1>9. Single(w)
  BY <1>1, <1>3, <1>4, <1>6, <1>7 DEF Single
<1>10. ASSUME NEW p \in Reader
       PROVE  Has(w, p) <=> Has(q, p) /\ p # q[k]
  <2>1. Has(w, p) => Has(q, p) /\ p # q[k]
    BY <1>1, <1>3, <1>6, <1>7 DEF Has, Single
  <2>2. ASSUME Has(q, p), p # q[k] PROVE Has(w, p)
    BY <1>1, <1>5, <1>6, <1>7, <2>2 DEF Has
  <2>3. QED
    BY <2>1, <2>2
<1>11. QED
  BY <1>8, <1>9, <1>10 DEF w

\* The queue after wait_current_del.
LEMMA UnlinkedIs ==
  ASSUME wait_queue \in Seq(Reader), Single(wait_queue), NEW p \in Reader
  PROVE  /\ Unlinked(p) \in Seq(Reader) /\ Single(Unlinked(p))
         /\ \A r \in Reader : Has(Unlinked(p), r) <=> Has(wait_queue, r) /\ r # p
<1>1. CASE wait_in_queue(p)
  <2> DEFINE k == CHOOSE i \in DOMAIN wait_queue : wait_queue[i] = p
  <2>1. k \in DOMAIN wait_queue /\ wait_queue[k] = p
    BY <1>1 DEF wait_in_queue
  <2>2. Unlinked(p) = Without(wait_queue, k)
    BY <1>1 DEF Unlinked
  <2> HIDE DEF k
  <2>3. QED
    BY <2>1, <2>2, WithoutOne
<1>2. CASE ~wait_in_queue(p)
  <2>1. Unlinked(p) = wait_queue
    BY <1>2 DEF Unlinked
  <2>2. ~Has(wait_queue, p)
    BY <1>2 DEF wait_in_queue, Has
  <2>3. QED
    BY <2>1, <2>2
<1>3. QED
  BY <1>1, <1>2

\* The queue behind which p is put.
LEMMA Queued ==
  ASSUME NEW q \in Seq(Reader), Single(q), NEW p \in Reader, ~Has(q, p)
  PROVE  /\ Append(q, p) \in Seq(Reader) /\ Single(Append(q, p))
         /\ \A r \in Reader : Has(Append(q, p), r) <=> Has(q, r) \/ r = p
<1>1. Append(q, p) \in Seq(Reader) /\ Len(Append(q, p)) = Len(q) + 1 /\ Len(q) \in Nat
  OBVIOUS
<1>2. \A k \in 1..Len(q) : Append(q, p)[k] = q[k]
  OBVIOUS
<1>3. Append(q, p)[Len(q) + 1] = p
  OBVIOUS
<1>4. DOMAIN q = 1..Len(q) /\ DOMAIN Append(q, p) = 1..(Len(q) + 1)
  BY <1>1
<1>5. \A k \in 1..(Len(q) + 1) : k \in 1..Len(q) \/ k = Len(q) + 1
  BY <1>1
<1>6. \A k \in 1..Len(q) : k \in 1..(Len(q) + 1) /\ k # Len(q) + 1
  BY <1>1
<1>7. Len(q) + 1 \in 1..(Len(q) + 1)
  BY <1>1
<1>8. QED
  BY <1>1, <1>2, <1>3, <1>4, <1>5, <1>6, <1>7 DEF Has, Single

-----------------------------------------------------------------------------
(* What is in the buffer. *)

\* The buffer's size, under a name the provers can hide.
Size == STDIN_BUFSIZE

\* A function on 1..n is a sequence of length n.
LEMMA IsSeq ==
  ASSUME NEW S, NEW n \in Nat, NEW f \in [1..n -> S]
  PROVE  f \in Seq(S) /\ Len(f) = n
OBVIOUS

\* A part of a sequence.
LEMMA SubSeqIs ==
  ASSUME NEW S, NEW s \in Seq(S), NEW a \in Nat \ {0}, NEW b \in Nat, a <= b + 1, b <= Len(s)
  PROVE  /\ SubSeq(s, a, b) \in Seq(S) /\ Len(SubSeq(s, a, b)) = b - a + 1
         /\ \A i \in 1..(b - a + 1) : SubSeq(s, a, b)[i] = s[a + i - 1]
<1>0. Len(s) \in Nat
  OBVIOUS
<1>1. CASE a <= b
  <2>1. SubSeq(s, a, b) \in Seq(S)
    OBVIOUS
  <2>2. Len(SubSeq(s, a, b)) = b - a + 1
    BY <1>1
  <2>3. \A i \in 1..(b - a + 1) : SubSeq(s, a, b)[i] = s[a + i - 1]
    BY <1>1
  <2>4. QED
    BY <2>1, <2>2, <2>3
<1>2. CASE a = b + 1
  <2>1. SubSeq(s, a, b) = <<>>
    BY <1>0, <1>2
  <2>2. QED
    BY <1>2, <2>1
<1>3. QED
  BY <1>0, <1>1, <1>2

\* Where the elements of a sequence are.
LEMMA Elements ==
  ASSUME NEW S, NEW s \in Seq(S)
  PROVE  Len(s) \in Nat /\ DOMAIN s = 1..Len(s) /\ \A i \in 1..Len(s) : s[i] \in S
OBVIOUS

\* One sequence after the other.
LEMMA Joined ==
  ASSUME NEW S, NEW s \in Seq(S), NEW t \in Seq(S)
  PROVE  /\ s \o t \in Seq(S) /\ DOMAIN (s \o t) = 1..(Len(s) + Len(t))
         /\ \A i \in 1..Len(s) : (s \o t)[i] = s[i]
         /\ \A i \in 1..Len(t) : (s \o t)[Len(s) + i] = t[i]
<1>1. Len(s) \in Nat /\ Len(t) \in Nat
  OBVIOUS
<1>2. s \o t \in Seq(S) /\ Len(s \o t) = Len(s) + Len(t)
  OBVIOUS
<1>3. DOMAIN (s \o t) = 1..(Len(s) + Len(t))
  BY <1>2
<1>4. \A i \in 1..Len(s) : (s \o t)[i] = s[i]
  BY <1>1
<1>5. \A i \in 1..Len(t) : (s \o t)[Len(s) + i] = t[i]
  BY <1>1
<1>6. QED
  BY <1>2, <1>3, <1>4, <1>5

\* The unread characters are those of the positions from p_rpos on.
LEMMA UnreadIs ==
  ASSUME StdinAssumption, KeysTypeOK
  PROVE  /\ Available \in 0..Size /\ Size \in Nat \ {0} /\ p_wpos = p_rpos + Available
         /\ Unread \in Seq(0..MaxKeys) /\ Len(Unread) = Available
         /\ \A i \in 1..Available : Unread[i] = Slot(p_rpos + i - 1)
<1>1. p_rpos \in Nat /\ p_wpos \in p_rpos..(p_rpos + Size) /\ Size \in Nat \ {0}
  BY DEF KeysTypeOK, StdinAssumption, Size
<1>2. Available \in 0..Size /\ p_wpos = p_rpos + Available
  BY <1>1 DEF Available
<1>3. \A pos \in Nat : Slot(pos) \in 0..MaxKeys
  <2>1. TAKE pos \in Nat
  <2>2. pos % STDIN_BUFSIZE \in 0..(STDIN_BUFSIZE - 1)
    BY <1>1, Division DEF Size
  <2>3. QED
    BY <2>2 DEF Slot, KeysTypeOK
<1>4. \A i \in 1..Available : p_rpos + i - 1 \in Nat
  BY <1>1, <1>2
<1>5. /\ Unread \in [1..Available -> 0..MaxKeys]
      /\ \A i \in 1..Available : Unread[i] = Slot(p_rpos + i - 1)
  BY <1>3, <1>4 DEF Unread
<1>6. Unread \in Seq(0..MaxKeys) /\ Len(Unread) = Available
  <2>1. Available \in Nat /\ Unread \in [1..Available -> 0..MaxKeys]
    BY <1>1, <1>2, <1>5
  <2>2. QED
    BY <2>1, IsSeq
<1>7. QED
  BY <1>1, <1>2, <1>5, <1>6

\* Sequences of numbers that agree everywhere are equal.
LEMMA SameSeq ==
  ASSUME NEW S, NEW s \in Seq(S), NEW t \in Seq(S), Len(s) = Len(t),
         \A i \in 1..Len(s) : s[i] = t[i]
  PROVE  s = t
OBVIOUS

\* Whatever leaves the buffer and the positions alone leaves the unread characters alone.
LEMMA UnreadStays ==
  ASSUME UNCHANGED <<stdin_buffer, p_rpos, p_wpos>>
  PROVE  Unread' = Unread /\ Available' = Available
BY DEF Unread, Available, Slot

\* What a key does to the buffer.
LEMMA Written ==
  ASSUME StdinAssumption, KeysTypeOK, dev_stdin_write
  PROVE  /\ Available < Size => /\ p_wpos' = p_wpos + 1 /\ Available' = Available + 1
                                /\ Unread' = Append(Unread, typed + 1)
         /\ Available = Size => /\ p_wpos' = p_wpos /\ Available' = Available
                                /\ Unread' = [Unread EXCEPT ![1] = typed + 1]
                                /\ Slot(p_wpos) = Unread[1]
         /\ stdin_buffer' \in [0..(STDIN_BUFSIZE - 1) -> 0..MaxKeys]
         /\ typed + 1 \in 1..MaxKeys /\ Unread' \in Seq(0..MaxKeys)
<1>1. /\ p_rpos \in Nat /\ p_wpos \in Nat /\ Available \in 0..Size /\ p_wpos = p_rpos + Available
      /\ Size \in Nat \ {0} /\ Unread \in Seq(0..MaxKeys) /\ Len(Unread) = Available
      /\ \A i \in 1..Available : Unread[i] = Slot(p_rpos + i - 1)
  BY UnreadIs DEF KeysTypeOK
<1>2. /\ stdin_buffer \in [0..(Size - 1) -> 0..MaxKeys]
      /\ stdin_buffer' = [stdin_buffer EXCEPT ![p_wpos % Size] = typed + 1]
      /\ p_wpos' = AfterWrite(p_wpos) /\ p_rpos' = p_rpos
  BY DEF dev_stdin_write, KeysTypeOK, Size
<1>3. typed + 1 \in 1..MaxKeys
  <2>1. typed \in 0..MaxKeys /\ typed < MaxKeys /\ MaxKeys \in Nat
    BY DEF KeysTypeOK, dev_stdin_write, StdinAssumption
  <2>2. QED
    BY <2>1
<1>4. p_wpos % Size \in 0..(Size - 1)
  BY <1>1, Division
<1>5. stdin_buffer' \in [0..(Size - 1) -> 0..MaxKeys]
  BY <1>2, <1>3, <1>4
<1> DEFINE NewSlot(pos) == stdin_buffer'[pos % Size]
<1>6. ASSUME NEW pos \in Nat
      PROVE  /\ NewSlot(pos) = IF pos % Size = p_wpos % Size THEN typed + 1 ELSE Slot(pos)
             /\ NewSlot(pos) \in 0..MaxKeys
  <2>1. pos % Size \in 0..(Size - 1)
    BY <1>1, Division
  <2>2. QED
    BY <1>2, <1>4, <1>5, <2>1 DEF Slot, Size
<1>7. /\ p_wpos - p_rpos = Available
      /\ p_wpos' = IF Available < Size THEN p_wpos + 1 ELSE p_wpos
  BY <1>2 DEF AfterWrite, Available, Size
<1>8. Available' = p_wpos' - p_rpos
  BY <1>2 DEF Available
<1>9. Available' \in Nat /\ \A i \in 1..Available' : Unread'[i] = NewSlot(p_rpos + i - 1)
  <2>1. Available' \in Nat
    <3>1. p_wpos' = p_wpos + 1 \/ p_wpos' = p_wpos
      BY <1>7
    <3>2. QED
      BY <1>1, <1>8, <3>1
  <2>2. Unread' = [i \in 1..Available' |-> NewSlot(p_rpos + i - 1)]
    BY <1>2 DEF Unread, Slot, Size
  <2>3. QED
    BY <2>1, <2>2
<1>10. Unread' \in Seq(0..MaxKeys) /\ Len(Unread') = Available'
  <2>1. \A i \in 1..Available' : p_rpos + i - 1 \in Nat
    BY <1>1, <1>9
  <2>2. Unread' = [i \in 1..Available' |-> NewSlot(p_rpos + i - 1)]
    BY <1>2 DEF Unread, Slot, Size
  <2>3. Unread' \in [1..Available' -> 0..MaxKeys]
    BY <1>6, <2>1, <2>2
  <2>4. QED
    BY <1>9, <2>3, IsSeq
<1> HIDE DEF NewSlot
<1>11. stdin_buffer' \in [0..(STDIN_BUFSIZE - 1) -> 0..MaxKeys]
  BY <1>5 DEF Size
<1>12. CASE Available < Size
  <2>1. p_wpos' = p_wpos + 1 /\ Available' = Available + 1
    BY <1>1, <1>7, <1>8, <1>12
  <2>2. \A i \in 1..Available : Unread'[i] = Unread[i]
    <3>1. TAKE i \in 1..Available
    <3>2. /\ p_rpos + i - 1 \in Nat /\ p_rpos + i - 1 <= p_wpos /\ p_wpos < p_rpos + i - 1 + Size
          /\ p_rpos + i - 1 # p_wpos /\ i \in 1..Available'
      BY <1>1, <1>12, <2>1
    <3>3. (p_rpos + i - 1) % Size # p_wpos % Size
      BY <1>1, <3>2, OwnSlots
    <3>4. QED
      BY <1>1, <1>6, <1>9, <3>2, <3>3
  <2>3. Unread'[Available + 1] = typed + 1
    <3>1. p_rpos + (Available + 1) - 1 = p_wpos /\ Available + 1 \in 1..Available'
      BY <1>1, <2>1
    <3>2. Unread'[Available + 1] = NewSlot(p_wpos)
      BY <1>9, <3>1
    <3>3. QED
      BY <1>1, <1>6, <3>2
  <2>4. Append(Unread, typed + 1) \in Seq(0..MaxKeys) /\ Len(Append(Unread, typed + 1)) = Available + 1
    BY <1>1, <1>3
  <2>5. /\ \A i \in 1..Available : Append(Unread, typed + 1)[i] = Unread[i]
        /\ Append(Unread, typed + 1)[Available + 1] = typed + 1
    BY <1>1
  <2>6. \A i \in 1..(Available + 1) : i \in 1..Available \/ i = Available + 1
    BY <1>1
  <2>7. Unread' = Append(Unread, typed + 1)
    <3>1. \A i \in 1..(Available + 1) : Unread'[i] = Append(Unread, typed + 1)[i]
      BY <2>2, <2>3, <2>5, <2>6
    <3>2. QED
      BY <1>10, <2>1, <2>4, <3>1, SameSeq
  <2>8. ~(Available = Size)
    BY <1>1, <1>12
  <2>9. QED
    BY <1>3, <1>10, <1>12, <1>11, <2>1, <2>7, <2>8
<1>13. CASE Available = Size
  <2>1. p_wpos' = p_wpos /\ Available' = Available
    BY <1>1, <1>7, <1>8, <1>13
  <2>2. p_wpos % Size = p_rpos % Size
    BY <1>1, <1>13, SameSlot
  <2>3. 1 \in 1..Available /\ p_rpos + 1 - 1 = p_rpos
    BY <1>1, <1>13
  <2>4. Unread[1] = Slot(p_rpos) /\ Slot(p_wpos) = Slot(p_rpos)
    BY <1>1, <2>2, <2>3 DEF Slot, Size
  <2>5. Unread'[1] = typed + 1
    <3>1. (p_rpos + 1 - 1) % Size = p_wpos % Size /\ p_rpos + 1 - 1 \in Nat
      BY <1>1, <2>2, <2>3
    <3>2. QED
      BY <1>6, <1>9, <2>1, <2>3, <3>1
  <2>6. \A i \in 1..Available : i # 1 => Unread'[i] = Unread[i]
    <3>1. TAKE i \in 1..Available
    <3>2. HAVE i # 1
    <3>3. /\ p_rpos + i - 1 \in Nat /\ p_rpos <= p_rpos + i - 1 /\ p_rpos + i - 1 < p_rpos + Size
          /\ p_rpos + i - 1 # p_rpos /\ i \in 1..Available'
      BY <1>1, <1>13, <2>1, <3>2
    <3>4. (p_rpos + i - 1) % Size # p_wpos % Size
      BY <1>1, <2>2, <3>3, OwnSlots
    <3>5. QED
      BY <1>1, <1>6, <1>9, <3>3, <3>4
  <2>7. Unread' = [Unread EXCEPT ![1] = typed + 1]
    <3>1. /\ [Unread EXCEPT ![1] = typed + 1] \in Seq(0..MaxKeys)
          /\ Len([Unread EXCEPT ![1] = typed + 1]) = Available
          /\ \A i \in 1..Available :
                [Unread EXCEPT ![1] = typed + 1][i] = IF i = 1 THEN typed + 1 ELSE Unread[i]
      BY <1>1, <1>3, <2>3
    <3>2. QED
      BY <1>10, <2>1, <2>5, <2>6, <3>1, SameSeq
  <2>8. ~(Available < Size)
    BY <1>1, <1>13
  <2>9. QED
    BY <1>3, <1>10, <1>13, <1>11, <2>1, <2>4, <2>7, <2>8
<1>14. QED
  BY <1>1, <1>12, <1>13

\* What is left of a sequence without its first k elements.
LEMMA Rear ==
  ASSUME NEW S, NEW s \in Seq(S), NEW k \in 0..Len(s)
  PROVE  /\ SubSeq(s, k + 1, Len(s)) \in Seq(S)
         /\ Len(SubSeq(s, k + 1, Len(s))) = Len(s) - k
         /\ \A i \in 1..(Len(s) - k) : SubSeq(s, k + 1, Len(s))[i] = s[k + i]
<1> DEFINE n == Len(s)
           a == k + 1
<1>1. n \in Nat /\ a \in Nat \ {0} /\ a <= n + 1 /\ n <= Len(s)
  BY Elements
<1>2. n - a + 1 = n - k /\ \A i \in 1..(n - k) : a + i - 1 = k + i
  BY <1>1
<1>3. /\ SubSeq(s, a, n) \in Seq(S) /\ Len(SubSeq(s, a, n)) = n - a + 1
      /\ \A i \in 1..(n - a + 1) : SubSeq(s, a, n)[i] = s[a + i - 1]
  <2> HIDE DEF n, a
  <2>1. QED
    BY <1>1, SubSeqIs
<1>4. QED
  BY <1>2, <1>3

\* The first k elements of a sequence.
LEMMA Front ==
  ASSUME NEW S, NEW s \in Seq(S), NEW k \in 0..Len(s)
  PROVE  /\ SubSeq(s, 1, k) \in Seq(S) /\ Len(SubSeq(s, 1, k)) = k
         /\ \A i \in 1..k : SubSeq(s, 1, k)[i] = s[i]
<1>1. 1 \in Nat \ {0} /\ k \in Nat /\ 1 <= k + 1 /\ k <= Len(s)
  BY Elements
<1>2. /\ SubSeq(s, 1, k) \in Seq(S) /\ Len(SubSeq(s, 1, k)) = k - 1 + 1
      /\ \A i \in 1..(k - 1 + 1) : SubSeq(s, 1, k)[i] = s[1 + i - 1]
  BY <1>1, SubSeqIs
<1>3. k - 1 + 1 = k /\ \A i \in 1..k : 1 + i - 1 = i
  BY <1>1
<1>4. QED
  BY <1>2, <1>3

\* Reader p, who wants n characters, is given the first k unread ones, in order; it returns when
\* these are all it wanted, and sleeps otherwise.
Takes(p, n, k) ==
    /\ k = n \/ k = Available
    /\ n - k \in 0..MaxLen /\ need' = [need EXCEPT ![p] = n - k]
    /\ p_rpos' = p_rpos + k /\ Available' = Available - k
    /\ Unread' = SubSeq(Unread, k + 1, Available)
    /\ got' = [got EXCEPT ![p] = @ \o SubSeq(Unread, 1, k)]
    /\ k = n => /\ Return(p) /\ wait_queue' = Unlinked(p) /\ UNCHANGED wakeup_flags
    /\ k # n => /\ place' = [place EXCEPT ![p] = "asleep"]
                /\ wait_queue' = Append(Unlinked(p), p)
                /\ wakeup_flags' = [wakeup_flags EXCEPT ![p] = "WT_INTERRUPTED"]

\* What a read does to the buffer.
LEMMA ReadTakes ==
  ASSUME StdinAssumption, KeysTypeOK, NEW p \in Reader, NEW n \in 0..MaxLen, ReadOn(p, n)
  PROVE  \E k \in 0..Available : Takes(p, n, k)
<1>1. /\ p_rpos \in Nat /\ Available \in 0..Size /\ Available \in Nat /\ p_wpos = p_rpos + Available
      /\ Unread \in Seq(0..MaxKeys) /\ Len(Unread) = Available
      /\ \A i \in 1..Available : Unread[i] = Slot(p_rpos + i - 1)
      /\ n \in Nat /\ MaxLen \in Nat
  <2>1. StdinAssumption => Size \in Nat /\ MaxLen \in Nat
    BY DEF StdinAssumption, Size
  <2>2. QED
    BY <2>1, UnreadIs DEF KeysTypeOK
<1>2. SUFFICES ASSUME NEW k, k = Least(n, Available)
               PROVE  k \in 0..Available /\ Takes(p, n, k)
  OBVIOUS
<1>3. k \in 0..Available /\ (k = n \/ k = Available) /\ n - k \in 0..MaxLen
  BY <1>1, <1>2 DEF Least
<1>4. /\ need' = [need EXCEPT ![p] = n - k] /\ p_rpos' = p_rpos + k
      /\ stdin_buffer' = stdin_buffer /\ p_wpos' = p_wpos
      /\ got' = [got EXCEPT ![p] = @ \o [i \in 1..k |-> Slot(p_rpos + i - 1)]]
      /\ k = n => /\ Return(p) /\ wait_queue' = Unlinked(p) /\ UNCHANGED wakeup_flags
      /\ k # n => /\ place' = [place EXCEPT ![p] = "asleep"]
                  /\ wait_queue' = Append(Unlinked(p), p)
                  /\ wakeup_flags' = [wakeup_flags EXCEPT ![p] = "WT_INTERRUPTED"]
  BY <1>2 DEF ReadOn
<1>5. Available' = Available - k
  BY <1>1, <1>3, <1>4 DEF Available
<1>6. \A i \in 1..k : i \in 1..Available
  BY <1>1, <1>3
<1>7. [i \in 1..k |-> Slot(p_rpos + i - 1)] = SubSeq(Unread, 1, k)
  <2> DEFINE f == [i \in 1..k |-> Slot(p_rpos + i - 1)]
  <2>0. \A i \in 1..Available : Unread[i] \in 0..MaxKeys
    BY <1>1, Elements
  <2>1. \A i \in 1..k : f[i] = Unread[i] /\ Unread[i] \in 0..MaxKeys
    BY <1>1, <1>6, <2>0
  <2>2. f \in Seq(0..MaxKeys) /\ Len(f) = k
    <3>1. f \in [1..k -> 0..MaxKeys] /\ k \in Nat
      BY <1>1, <1>3, <2>1
    <3>2. QED
      BY <3>1, IsSeq
  <2>3. /\ SubSeq(Unread, 1, k) \in Seq(0..MaxKeys) /\ Len(SubSeq(Unread, 1, k)) = k
        /\ \A i \in 1..k : SubSeq(Unread, 1, k)[i] = Unread[i]
    BY <1>1, <1>3, Front
  <2> HIDE DEF f
  <2>5. f = SubSeq(Unread, 1, k)
    BY <2>1, <2>2, <2>3, SameSeq
  <2>6. QED
    BY <2>5 DEF f
<1>8. Unread' = SubSeq(Unread, k + 1, Available)
  <2> DEFINE f == [i \in 1..(Available - k) |-> Slot(p_rpos + k + i - 1)]
  <2>1. Unread' = f
    BY <1>4, <1>5 DEF Unread, Slot
  <2>2. ASSUME NEW i \in 1..(Available - k)
        PROVE  f[i] = Unread[k + i] /\ Unread[k + i] \in 0..MaxKeys
    <3>1. k + i \in 1..Available /\ p_rpos + (k + i) - 1 = p_rpos + k + i - 1
      BY <1>1, <1>3
    <3>2. Unread[k + i] = Slot(p_rpos + (k + i) - 1)
      BY <1>1, <3>1
    <3>3. Unread[k + i] \in 0..MaxKeys
      BY <1>1, <3>1, Elements
    <3>4. QED
      BY <3>1, <3>2, <3>3
  <2>3. f \in Seq(0..MaxKeys) /\ Len(f) = Available - k
    <3>0. \A i \in 1..(Available - k) : f[i] \in 0..MaxKeys
      BY <2>2
    <3>1. f \in [1..(Available - k) -> 0..MaxKeys]
      BY <3>0
    <3>3. Available - k \in Nat
      BY <1>1, <1>3
    <3> DEFINE a == Available - k
    <3>4. a \in Nat /\ f \in [1..a -> 0..MaxKeys]
      BY <3>1, <3>3
    <3> HIDE DEF a, f
    <3>5. f \in Seq(0..MaxKeys) /\ Len(f) = a
      BY <3>4, IsSeq
    <3>2. QED
      BY <3>5 DEF a
  <2>4. /\ SubSeq(Unread, k + 1, Available) \in Seq(0..MaxKeys)
        /\ Len(SubSeq(Unread, k + 1, Available)) = Available - k
        /\ \A i \in 1..(Available - k) : SubSeq(Unread, k + 1, Available)[i] = Unread[k + i]
    BY <1>1, <1>3, Rear
  <2> HIDE DEF f
  <2>6. f = SubSeq(Unread, k + 1, Available)
    BY <2>2, <2>3, <2>4, SameSeq
  <2>7. QED
    BY <2>1, <2>6
<1>9. QED
  BY <1>3, <1>4, <1>5, <1>7, <1>8 DEF Takes

-----------------------------------------------------------------------------
(* The inductive invariant. *)

\* Key c has been given to a process; it is in the buffer.
Given(c) == \E p \in Reader : \E i \in DOMAIN got[p] : got[p][i] = c
Held(c) == \E i \in 1..Available : Unread[i] = c

\* Every key that was typed is in one place, once.
UnreadOnce == \A i, j \in 1..Available : Unread[i] = Unread[j] => i = j
HeldOK == \A c : Held(c) => c \in 1..typed /\ c \notin dropped /\ ~Given(c)
GivenOK == \A c : Given(c) => c \in 1..typed /\ c \notin dropped
DroppedOK == dropped \subseteq 1..typed
NoneLost == \A c \in 1..typed : c \in dropped \/ Given(c) \/ Held(c)
GivenOnce == \A p, q \in Reader : \A i \in DOMAIN got[p], j \in DOMAIN got[q] :
                got[p][i] = got[q][j] => p = q /\ i = j
KeysOK == UnreadOnce /\ HeldOK /\ GivenOK /\ DroppedOK /\ NoneLost /\ GivenOnce

\* A reader that runs on has been woken by a key, or is to die.
ReasonsOK == \A p \in Reader : place[p] = "woken" => wakeup_flags[p] = "WT_KBD" \/ p \in exiting

\* The inductive invariant.
KeyIInv == KeysTypeOK /\ KeysOK /\ ReasonsOK /\ NoSleepBesideKeys /\ QueueMatchesReaders

\* Whoever touches neither the ring nor the history keeps what is known of the keys.
LEMMA KeysStay ==
  ASSUME KeysOK, UNCHANGED <<stdin_buffer, p_rpos, p_wpos, got, typed, dropped>>
  PROVE  KeysOK'
<1>1. Unread' = Unread /\ Available' = Available
  BY UnreadStays
<1>2. \A c : (Given(c)' <=> Given(c)) /\ (Held(c)' <=> Held(c))
  BY <1>1 DEF Given, Held
<1>3. UnreadOnce'
  BY <1>1 DEF KeysOK, UnreadOnce
<1>4. HeldOK'
  BY <1>2 DEF KeysOK, HeldOK
<1>5. GivenOK'
  BY <1>2 DEF KeysOK, GivenOK
<1>6. DroppedOK'
  BY DEF KeysOK, DroppedOK
<1>7. NoneLost'
  BY <1>2 DEF KeysOK, NoneLost
<1>8. GivenOnce'
  BY DEF KeysOK, GivenOnce
<1>9. QED
  BY <1>3, <1>4, <1>5, <1>6, <1>7, <1>8 DEF KeysOK

\* A key that is typed is a new one; the one it overwrites was the first of the unread ones.
LEMMA KeysWritten ==
  ASSUME StdinAssumption, KeysTypeOK, KeysOK, dev_stdin_write
  PROVE  KeysOK'
<1>1. /\ Available \in 0..Size /\ Size \in Nat \ {0} /\ Unread \in Seq(0..MaxKeys)
      /\ Len(Unread) = Available /\ Available \in Nat
  BY UnreadIs
<1>2. got' = got /\ typed' = typed + 1 /\ typed \in Nat
  BY DEF dev_stdin_write, KeysTypeOK
<1>3. \A c : Given(c)' <=> Given(c)
  BY <1>2 DEF Given
<1>4. typed + 1 \notin 1..typed /\ 1..(typed + 1) = (1..typed) \cup {typed + 1}
  BY <1>2
<1>5. ~Held(typed + 1) /\ ~Given(typed + 1) /\ typed + 1 \notin dropped
  BY <1>4 DEF KeysOK, HeldOK, GivenOK, DroppedOK
<1>6. GivenOnce'
  BY <1>2 DEF KeysOK, GivenOnce
<1>7. CASE Available < Size
  <2>1. Available' = Available + 1 /\ Unread' = Append(Unread, typed + 1) /\ dropped' = dropped
    BY <1>7, Written DEF dev_stdin_write, Size
  <2>2. /\ \A i \in 1..Available : Unread'[i] = Unread[i]
        /\ Unread'[Available + 1] = typed + 1
    BY <1>1, <2>1
  <2>3. /\ \A i \in 1..(Available + 1) : i \in 1..Available \/ i = Available + 1
        /\ \A i \in 1..Available : i \in 1..(Available + 1)
        /\ Available + 1 \in 1..(Available + 1)
    BY <1>1
  <2>4. \A c : Held(c)' <=> Held(c) \/ c = typed + 1
    BY <2>1, <2>2, <2>3 DEF Held
  <2>5. UnreadOnce'
    <3>1. \A i \in 1..Available : Unread[i] # typed + 1
      BY <1>5 DEF Held
    <3>2. \A i, j \in 1..(Available + 1) : Unread'[i] = Unread'[j] => i = j
      BY <2>2, <2>3, <3>1 DEF KeysOK, UnreadOnce
    <3>3. QED
      BY <2>1, <3>2 DEF UnreadOnce
  <2>6. HeldOK'
    BY <1>2, <1>3, <1>4, <1>5, <2>1, <2>4 DEF KeysOK, HeldOK
  <2>7. GivenOK'
    BY <1>2, <1>3, <1>4, <2>1 DEF KeysOK, GivenOK
  <2>8. DroppedOK'
    BY <1>2, <1>4, <2>1 DEF KeysOK, DroppedOK
  <2>9. NoneLost'
    BY <1>2, <1>3, <1>4, <2>1, <2>4 DEF KeysOK, NoneLost
  <2>10. QED
    BY <1>6, <2>5, <2>6, <2>7, <2>8, <2>9 DEF KeysOK
<1>8. CASE Available = Size
  <2>1. /\ Available' = Available /\ Unread' = [Unread EXCEPT ![1] = typed + 1]
        /\ dropped' = dropped \cup {Unread[1]}
    BY <1>1, <1>8, Written DEF dev_stdin_write, Size
  <2>2. 1 \in 1..Available
    BY <1>1, <1>8
  <2>3. Unread'[1] = typed + 1 /\ \A i \in 1..Available : i # 1 => Unread'[i] = Unread[i]
    BY <1>1, <2>1, <2>2
  <2>4. \A c : Held(c)' <=> (Held(c) /\ c # Unread[1]) \/ c = typed + 1
    BY <2>1, <2>2, <2>3 DEF Held, KeysOK, UnreadOnce
  <2>5. UnreadOnce'
    <3>1. \A i \in 1..Available : Unread[i] # typed + 1
      BY <1>5 DEF Held
    <3>2. \A i, j \in 1..Available : Unread'[i] = Unread'[j] => i = j
      BY <2>3, <3>1 DEF KeysOK, UnreadOnce
    <3>3. QED
      BY <2>1, <3>2 DEF UnreadOnce
  <2>6. Held(Unread[1])
    BY <2>2 DEF Held
  <2>7. HeldOK'
    BY <1>2, <1>3, <1>4, <1>5, <2>1, <2>4, <2>6 DEF KeysOK, HeldOK
  <2>8. GivenOK'
    BY <1>2, <1>3, <1>4, <2>1, <2>6 DEF KeysOK, GivenOK, HeldOK
  <2>9. DroppedOK'
    BY <1>2, <1>4, <2>1, <2>6 DEF KeysOK, DroppedOK, HeldOK
  <2>10. NoneLost'
    BY <1>2, <1>3, <1>4, <2>1, <2>4 DEF KeysOK, NoneLost
  <2>11. QED
    BY <1>6, <2>5, <2>7, <2>8, <2>9, <2>10 DEF KeysOK
<1>9. QED
  BY <1>1, <1>7, <1>8

\* Characters that are read move from the buffer to the reader.
LEMMA KeysRead ==
  ASSUME StdinAssumption, KeysTypeOK, KeysOK, NEW p \in Reader, NEW k \in 0..Available,
         Available' = Available - k, Unread' = SubSeq(Unread, k + 1, Available),
         got' = [got EXCEPT ![p] = @ \o SubSeq(Unread, 1, k)],
         UNCHANGED <<typed, dropped>>
  PROVE  KeysOK' /\ got' \in [Reader -> Seq(1..MaxKeys)]
<1>1. /\ Available \in Nat /\ Unread \in Seq(0..MaxKeys) /\ Len(Unread) = Available
      /\ got \in [Reader -> Seq(1..MaxKeys)] /\ typed \in 0..MaxKeys /\ MaxKeys \in Nat
  BY UnreadIs DEF KeysTypeOK, StdinAssumption
<1> DEFINE head == SubSeq(Unread, 1, k)
           m == Len(got[p])
<1>2. \A i \in 1..k : i \in 1..Available
  BY <1>1
<1>3. head \in Seq(1..MaxKeys) /\ Len(head) = k /\ \A i \in 1..k : head[i] = Unread[i]
  <2>0. head \in Seq(0..MaxKeys) /\ Len(head) = k /\ \A i \in 1..k : head[i] = Unread[i]
    BY <1>1, Front
  <2>1. Len(head) = k /\ DOMAIN head = 1..k /\ \A i \in 1..k : head[i] = Unread[i]
    BY <2>0, Elements
  <2>2. \A i \in 1..k : Unread[i] \in 1..typed
    BY <1>2 DEF KeysOK, HeldOK, Held
  <2>3. head \in [1..k -> 1..MaxKeys]
    <3>1. head = [i \in 1..k |-> head[i]]
      BY <2>0, <2>1
    <3>2. \A i \in 1..k : head[i] \in 1..MaxKeys
      BY <1>1, <2>1, <2>2
    <3>3. QED
      BY <3>1, <3>2
  <2>4. k \in Nat
    BY <1>1
  <2>5. QED
    BY <2>1, <2>3, <2>4, IsSeq
<1>4. got[p] \in Seq(1..MaxKeys) /\ m \in Nat /\ DOMAIN got[p] = 1..m
  BY <1>1
<1> HIDE DEF head
<1>5. /\ got'[p] = got[p] \o head /\ got' \in [Reader -> Seq(1..MaxKeys)]
      /\ \A q \in Reader : q # p => got'[q] = got[q]
  <2>1. got' = [got EXCEPT ![p] = got[p] \o head]
    BY DEF head
  <2>2. got[p] \o head \in Seq(1..MaxKeys)
    BY <1>3, <1>4
  <2>3. QED
    BY <1>1, <2>1, <2>2
<1>6. /\ DOMAIN got'[p] = 1..(m + k)
      /\ \A i \in 1..m : got'[p][i] = got[p][i]
      /\ \A i \in 1..k : got'[p][m + i] = Unread[i]
  <2> DEFINE g == got[p]
  <2>0. g \in Seq(1..MaxKeys) /\ m = Len(g) /\ g = got[p]
    BY <1>4
  <2> HIDE DEF g, m
  <2>3. /\ DOMAIN (g \o head) = 1..(Len(g) + Len(head))
        /\ \A i \in 1..Len(g) : (g \o head)[i] = g[i]
        /\ \A i \in 1..Len(head) : (g \o head)[Len(g) + i] = head[i]
    <3>1. head \in Seq(1..MaxKeys) /\ g \in Seq(1..MaxKeys)
      BY <1>3, <2>0
    <3> DEFINE S == 1..MaxKeys
    <3>2. head \in Seq(S) /\ g \in Seq(S)
      BY <3>1
    <3> HIDE DEF S
    <3>3. QED
      BY <3>2, Joined
  <2>1. /\ DOMAIN (got[p] \o head) = 1..(m + k)
        /\ \A i \in 1..m : (got[p] \o head)[i] = got[p][i]
        /\ \A i \in 1..k : (got[p] \o head)[m + i] = head[i]
    BY <1>3, <2>0, <2>3
  <2>2. QED
    BY <1>3, <1>5, <2>1
<1> HIDE DEF m
<1>7. \A i \in 1..(m + k) : i \in 1..m \/ \E j \in 1..k : i = m + j
  <2>1. TAKE i \in 1..(m + k)
  <2>2. CASE i <= m
    BY <1>4, <2>2
  <2>3. CASE i > m
    <3>1. i - m \in 1..k /\ i = m + (i - m)
      BY <1>1, <1>4, <2>3
    <3>2. QED
      BY <3>1
  <2>4. QED
    BY <1>1, <1>4, <2>2, <2>3
<1>8. /\ \A i \in 1..m : i \in 1..(m + k)
      /\ \A i \in 1..k : m + i \in 1..(m + k)
  BY <1>1, <1>4
<1>9. \A c : Given(c)' <=> Given(c) \/ \E i \in 1..k : Unread[i] = c
  <2>1. TAKE c
  <2>2. ASSUME Given(c)' PROVE Given(c) \/ \E i \in 1..k : Unread[i] = c
    <3>1. PICK q \in Reader : \E i \in DOMAIN got'[q] : got'[q][i] = c
      BY <2>2 DEF Given
    <3>2. CASE q # p
      BY <1>5, <3>1, <3>2 DEF Given
    <3>3. CASE q = p
      <4>1. PICK i \in 1..(m + k) : got'[p][i] = c
        BY <1>6, <3>1, <3>3
      <4>2. CASE i \in 1..m
        BY <1>4, <1>6, <4>1, <4>2 DEF Given
      <4>3. CASE \E j \in 1..k : i = m + j
        BY <1>6, <4>1, <4>3
      <4>4. QED
        BY <1>7, <4>2, <4>3
    <3>4. QED
      BY <3>2, <3>3
  <2>3. ASSUME Given(c) PROVE Given(c)'
    <3>0. PICK q \in Reader : \E i \in DOMAIN got[q] : got[q][i] = c
      BY <2>3 DEF Given
    <3>1. PICK i \in DOMAIN got[q] : got[q][i] = c
      BY <3>0
    <3>2. i \in DOMAIN got'[q] /\ got'[q][i] = c
      BY <1>4, <1>5, <1>6, <1>8, <3>1
    <3>3. QED
      BY <3>2 DEF Given
  <2>4. ASSUME NEW i \in 1..k, Unread[i] = c PROVE Given(c)'
    <3>1. m + i \in DOMAIN got'[p] /\ got'[p][m + i] = c
      BY <1>6, <1>8, <2>4
    <3>2. QED
      BY <3>1 DEF Given
  <2>5. QED
    BY <2>2, <2>3, <2>4
<1>10. \A i \in 1..(Available - k) : k + i \in 1..Available /\ Unread'[i] = Unread[k + i]
  <2>1. \A i \in 1..(Available - k) : k + i \in 1..Available
    BY <1>1
  <2>2. QED
    BY <1>1, <2>1, Rear
<1>11. \A j \in 1..Available : j \in 1..k \/ \E i \in 1..(Available - k) : j = k + i
  <2>1. TAKE j \in 1..Available
  <2>2. CASE j > k
    <3>1. j - k \in 1..(Available - k) /\ j = k + (j - k)
      BY <1>1, <2>2
    <3>2. QED
      BY <3>1
  <2>3. CASE j <= k
    BY <1>1, <2>3
  <2>4. QED
    BY <1>1, <2>2, <2>3
<1>12. \A i \in 1..(Available - k) : k + i \notin 1..k
  BY <1>1
<1>13. \A c : Held(c)' => Held(c) /\ \A i \in 1..k : Unread[i] # c
  <2>1. TAKE c
  <2>2. HAVE Held(c)'
  <2>3. PICK i \in 1..(Available - k) : Unread[k + i] = c
    BY <1>10, <2>2 DEF Held
  <2>4. Held(c)
    BY <1>10, <2>3 DEF Held
  <2>5. \A j \in 1..k : Unread[j] # c
    BY <1>2, <1>10, <1>12, <2>3 DEF KeysOK, UnreadOnce
  <2>6. QED
    BY <2>4, <2>5
<1>14. \A c : Held(c) => Held(c)' \/ \E i \in 1..k : Unread[i] = c
  BY <1>10, <1>11 DEF Held
<1>15. \A i, j \in 1..(Available - k) : Unread'[i] = Unread'[j] => i = j
  <2>1. TAKE i, j \in 1..(Available - k)
  <2>2. HAVE Unread'[i] = Unread'[j]
  <2>0. k + i \in 1..Available /\ k + j \in 1..Available /\ Unread[k + i] = Unread[k + j]
    BY <1>10, <2>2
  <2>3. k + i = k + j
    BY <2>0 DEF KeysOK, UnreadOnce
  <2>4. QED
    BY <1>1, <2>3
<1>16. ASSUME NEW q \in Reader, NEW r \in Reader, NEW i \in DOMAIN got'[q], NEW j \in DOMAIN got'[r],
              got'[q][i] = got'[r][j]
       PROVE  q = r /\ i = j
  <2> DEFINE Old(g, h) == h \in DOMAIN got[g] /\ got'[g][h] = got[g][h]
             New(g, h) == g = p /\ \E u \in 1..k : h = m + u /\ got'[g][h] = Unread[u]
  <2>1. \A g \in Reader : \A h \in DOMAIN got'[g] : Old(g, h) \/ New(g, h)
    <3>1. TAKE g \in Reader
    <3>2. TAKE h \in DOMAIN got'[g]
    <3>3. CASE g # p
      BY <1>5, <3>3
    <3>4. CASE g = p
      <4>1. h \in 1..(m + k)
        BY <1>6, <3>4
      <4>2. CASE h \in 1..m
        BY <1>4, <1>6, <3>4, <4>2
      <4>3. CASE \E u \in 1..k : h = m + u
        BY <1>6, <3>4, <4>3
      <4>4. QED
        BY <1>7, <4>1, <4>2, <4>3
    <3>5. QED
      BY <3>3, <3>4
  <2>2. ASSUME NEW g \in Reader, NEW h \in DOMAIN got[g], NEW u \in 1..k
        PROVE  got[g][h] # Unread[u]
    <3>1. Given(got[g][h]) /\ Held(Unread[u])
      BY <1>2 DEF Given, Held
    <3>2. QED
      BY <3>1 DEF KeysOK, HeldOK
  <2>3. CASE Old(q, i) /\ Old(r, j)
    <3>1. got[q][i] = got[r][j] /\ i \in DOMAIN got[q] /\ j \in DOMAIN got[r]
      BY <1>16, <2>3
    <3>2. GivenOnce
      BY DEF KeysOK
    <3>3. QED
      BY <3>1, <3>2 DEF GivenOnce
  <2>4. CASE New(q, i) /\ New(r, j)
    <3>1. PICK u \in 1..k : i = m + u /\ got'[q][i] = Unread[u]
      BY <2>4
    <3>2. PICK v \in 1..k : j = m + v /\ got'[r][j] = Unread[v]
      BY <2>4
    <3>3. u \in 1..Available /\ v \in 1..Available /\ Unread[u] = Unread[v]
      BY <1>2, <1>16, <3>1, <3>2
    <3>4. u = v
      BY <3>3 DEF KeysOK, UnreadOnce
    <3>5. QED
      BY <2>4, <3>1, <3>2, <3>4
  <2>5. CASE Old(q, i) /\ New(r, j)
    BY <1>16, <2>2, <2>5
  <2>6. CASE New(q, i) /\ Old(r, j)
    BY <1>16, <2>2, <2>6
  <2>7. Old(q, i) \/ New(q, i)
    BY <2>1
  <2>8. Old(r, j) \/ New(r, j)
    BY <2>1
  <2> HIDE DEF Old, New
  <2>9. QED
    BY <2>3, <2>4, <2>5, <2>6, <2>7, <2>8
<1>17. \A c : (\E i \in 1..k : Unread[i] = c) => Held(c)
  BY <1>2 DEF Held
<1>18. KeysOK'
  <2>1. HeldOK'
    BY <1>9, <1>13 DEF KeysOK, HeldOK
  <2>2. GivenOK'
    BY <1>9, <1>17 DEF KeysOK, HeldOK, GivenOK
  <2>3. NoneLost'
    BY <1>9, <1>14 DEF KeysOK, NoneLost
  <2>4. UnreadOnce'
    BY <1>15 DEF UnreadOnce
  <2>5. DroppedOK'
    BY DEF KeysOK, DroppedOK
  <2>6. GivenOnce'
    BY <1>16 DEF GivenOnce
  <2>7. QED
    BY <2>1, <2>2, <2>3, <2>4, <2>5, <2>6 DEF KeysOK
<1>19. QED
  BY <1>5, <1>18

-----------------------------------------------------------------------------
(* The steps. *)

\* What is linked in a queue, said of the queue as a value.
LEMMA LinkedHas ==
  ASSUME NEW p
  PROVE  /\ wait_in_queue(p) <=> Has(wait_queue, p)
         /\ wait_in_queue(p)' <=> Has(wait_queue', p)
BY DEF wait_in_queue, Has

\* The queue invariant, said of the queue as a value.
LEMMA QueueFacts ==
  ASSUME QueueMatchesReaders
  PROVE  /\ Single(wait_queue)
         /\ \A p \in Reader : place[p] = "asleep" => wait_in_queue(p)
         /\ \A p \in Reader : wait_in_queue(p) => place[p] = "asleep" \/ (place[p] = "woken" /\ p \in exiting)
BY DEF QueueMatchesReaders, Single

\* The same of the next state.
LEMMA QueueKept ==
  ASSUME Single(wait_queue'),
         \A p \in Reader : place'[p] = "asleep" => wait_in_queue(p)',
         \A p \in Reader : wait_in_queue(p)' => place'[p] = "asleep" \/ (place'[p] = "woken" /\ p \in exiting')
  PROVE  QueueMatchesReaders'
BY DEF QueueMatchesReaders, Single

\* Initially.
LEMMA Start == ASSUME StdinAssumption, stdin_device_init PROVE KeyIInv
<1>1. STDIN_BUFSIZE \in Nat \ {0} /\ MaxLen \in Nat /\ MaxKeys \in Nat
  BY DEF StdinAssumption
<1>2. KeysTypeOK
  <2>1. stdin_buffer \in [0..(STDIN_BUFSIZE - 1) -> 0..MaxKeys]
    BY <1>1 DEF stdin_device_init
  <2>2. p_rpos \in Nat /\ p_wpos \in p_rpos..(p_rpos + STDIN_BUFSIZE)
    BY <1>1 DEF stdin_device_init
  <2>3. wait_queue \in Seq(Reader) /\ exiting \subseteq Reader
    BY DEF stdin_device_init
  <2>4. /\ wakeup_flags \in [Reader -> {"WT_KBD", "WT_INTERRUPTED"}]
        /\ place \in [Reader -> {"user", "asleep", "woken", "gone"}]
    BY DEF stdin_device_init
  <2>5. need \in [Reader -> 0..MaxLen] /\ got \in [Reader -> Seq(1..MaxKeys)]
    BY <1>1 DEF stdin_device_init
  <2>6. typed \in 0..MaxKeys /\ dropped \subseteq 1..MaxKeys
    BY <1>1 DEF stdin_device_init
  <2>7. QED
    BY <2>1, <2>2, <2>3, <2>4, <2>5, <2>6 DEF KeysTypeOK
<1>3. Available = 0 /\ \A c : ~Held(c)
  BY DEF stdin_device_init, Available, Held
<1>4. \A p \in Reader : DOMAIN got[p] = {}
  BY DEF stdin_device_init
<1>5. KeysOK
  <2>1. \A c : ~Given(c)
    BY <1>4 DEF Given
  <2>2. UnreadOnce /\ HeldOK /\ GivenOK
    BY <1>3, <2>1 DEF UnreadOnce, HeldOK, GivenOK
  <2>3. DroppedOK /\ NoneLost
    BY DEF stdin_device_init, DroppedOK, NoneLost
  <2>4. GivenOnce
    BY <1>4 DEF GivenOnce
  <2>5. QED
    BY <2>2, <2>3, <2>4 DEF KeysOK
<1>6. ReasonsOK /\ NoSleepBesideKeys
  BY DEF stdin_device_init, ReasonsOK, NoSleepBesideKeys
<1>7. QueueMatchesReaders
  BY DEF stdin_device_init, QueueMatchesReaders, wait_in_queue
<1>8. QED
  BY <1>2, <1>5, <1>6, <1>7 DEF KeyIInv

\* A key: everybody linked is woken, and with a reason; nobody else slept.
LEMMA WriteStep == ASSUME StdinAssumption, KeyIInv, dev_stdin_write PROVE KeyIInv'
<1>0. KeysTypeOK /\ KeysOK /\ ReasonsOK /\ NoSleepBesideKeys /\ QueueMatchesReaders
  BY DEF KeyIInv
<1> DEFINE waiting == {wait_queue[i] : i \in DOMAIN wait_queue}
<1>1. /\ wait_queue' = <<>>
      /\ wakeup_flags' = [p \in Reader |-> IF p \in waiting THEN "WT_KBD" ELSE wakeup_flags[p]]
      /\ place' = [p \in Reader |-> IF p \in waiting THEN "woken" ELSE place[p]]
      /\ UNCHANGED <<p_rpos, exiting, need, got>> /\ typed' = typed + 1
  BY DEF dev_stdin_write, wakeup_queue
<1>2. \A p : p \in waiting <=> wait_in_queue(p)
  BY DEF wait_in_queue
<1>3. \A p \in Reader : place'[p] # "asleep"
  BY <1>0, <1>1, <1>2, QueueFacts
<1>4. KeysTypeOK'
  <2>1. stdin_buffer' \in [0..(STDIN_BUFSIZE - 1) -> 0..MaxKeys] /\ typed + 1 \in 1..MaxKeys
    BY <1>0, Written
  <2>2. p_rpos' \in Nat /\ p_wpos' \in p_rpos'..(p_rpos' + STDIN_BUFSIZE)
    <3>1. /\ p_rpos \in Nat /\ Available \in 0..Size /\ Size \in Nat \ {0}
          /\ p_wpos = p_rpos + Available
      BY <1>0, UnreadIs DEF KeysTypeOK
    <3>2. \/ Available < Size /\ p_wpos' = p_wpos + 1
          \/ Available = Size /\ p_wpos' = p_wpos
      BY <1>0, <3>1, Written
    <3>3. QED
      BY <1>1, <3>1, <3>2 DEF Size
  <2>3. wait_queue' \in Seq(Reader) /\ exiting' \subseteq Reader
    BY <1>0, <1>1 DEF KeysTypeOK
  <2>4. /\ wakeup_flags' \in [Reader -> {"WT_KBD", "WT_INTERRUPTED"}]
        /\ place' \in [Reader -> {"user", "asleep", "woken", "gone"}]
    <3> HIDE DEF waiting
    <3>1. QED
      BY <1>0, <1>1 DEF KeysTypeOK
  <2>5. need' \in [Reader -> 0..MaxLen] /\ got' \in [Reader -> Seq(1..MaxKeys)]
    BY <1>0, <1>1 DEF KeysTypeOK
  <2>6. typed' \in 0..MaxKeys
    BY <1>1, <2>1
  <2>7. dropped' \subseteq 1..MaxKeys
    <3>1. KeysOK'
      BY <1>0, KeysWritten
    <3>2. typed' \in Nat /\ MaxKeys \in Nat /\ typed' <= MaxKeys /\ dropped' \subseteq 1..typed'
      BY <2>6, <3>1 DEF KeysOK, DroppedOK, StdinAssumption
    <3>3. QED
      BY <3>2
  <2>8. QED
    BY <2>1, <2>2, <2>3, <2>4, <2>5, <2>6, <2>7 DEF KeysTypeOK
<1>5. KeysOK'
  BY <1>0, KeysWritten
<1>6. ReasonsOK'
  <2> HIDE DEF waiting
  <2>1. QED
    BY <1>0, <1>1 DEF ReasonsOK
<1>7. NoSleepBesideKeys'
  BY <1>3 DEF NoSleepBesideKeys
<1>8. QueueMatchesReaders'
  BY <1>1, <1>3 DEF QueueMatchesReaders, wait_in_queue
<1>9. QED
  BY <1>4, <1>5, <1>6, <1>7, <1>8 DEF KeyIInv

\* A reader goes round its loop: it returns, or it sleeps with nothing left to read.
LEMMA ReadStep ==
  ASSUME StdinAssumption, KeyIInv, NEW p \in Reader, NEW n \in 0..MaxLen, ReadOn(p, n)
  PROVE  KeyIInv'
<1>0. KeysTypeOK /\ KeysOK /\ ReasonsOK /\ NoSleepBesideKeys /\ QueueMatchesReaders
  BY DEF KeyIInv
<1>01. PICK k \in 0..Available : Takes(p, n, k)
  BY <1>0, ReadTakes
<1>1. /\ k = n \/ k = Available
      /\ n - k \in 0..MaxLen /\ need' = [need EXCEPT ![p] = n - k]
      /\ p_rpos' = p_rpos + k /\ Available' = Available - k
      /\ Unread' = SubSeq(Unread, k + 1, Available)
      /\ got' = [got EXCEPT ![p] = @ \o SubSeq(Unread, 1, k)]
      /\ k = n => /\ Return(p) /\ wait_queue' = Unlinked(p) /\ UNCHANGED wakeup_flags
      /\ k # n => /\ place' = [place EXCEPT ![p] = "asleep"]
                  /\ wait_queue' = Append(Unlinked(p), p)
                  /\ wakeup_flags' = [wakeup_flags EXCEPT ![p] = "WT_INTERRUPTED"]
  BY <1>01 DEF Takes
<1>2. UNCHANGED <<stdin_buffer, p_wpos, exiting, typed, dropped>>
  BY DEF ReadOn
<1>3. KeysOK' /\ got' \in [Reader -> Seq(1..MaxKeys)]
  BY <1>0, <1>1, <1>2, KeysRead
<1>4. /\ place \in [Reader -> {"user", "asleep", "woken", "gone"}]
      /\ wakeup_flags \in [Reader -> {"WT_KBD", "WT_INTERRUPTED"}]
      /\ Available \in Nat /\ wait_queue \in Seq(Reader)
  BY <1>0, UnreadIs DEF KeysTypeOK
<1>5. /\ \A r \in Reader \ {p} : place'[r] = place[r] /\ wakeup_flags'[r] = wakeup_flags[r]
      /\ k = n => place'[p] \in {"user", "gone"}
      /\ k # n => place'[p] = "asleep"
      /\ place' \in [Reader -> {"user", "asleep", "woken", "gone"}]
      /\ wakeup_flags' \in [Reader -> {"WT_KBD", "WT_INTERRUPTED"}]
  BY <1>1, <1>4 DEF Return
<1> DEFINE u == Unlinked(p)
<1>6. /\ u \in Seq(Reader) /\ Single(u)
      /\ \A r \in Reader : Has(u, r) <=> wait_in_queue(r) /\ r # p
  BY <1>0, <1>4, QueueFacts, UnlinkedIs, LinkedHas
<1> HIDE DEF u
<1>7. /\ wait_queue' \in Seq(Reader) /\ Single(wait_queue')
      /\ \A r \in Reader : Has(wait_queue', r) <=> (wait_in_queue(r) /\ r # p) \/ (k # n /\ r = p)
  <2>1. CASE k = n
    BY <1>1, <1>6, <2>1 DEF u
  <2>2. CASE k # n
    <3>1. wait_queue' = Append(u, p)
      BY <1>1, <2>2 DEF u
    <3>2. ~Has(u, p)
      BY <1>6
    <3>3. QED
      BY <1>6, <2>2, <3>1, <3>2, Queued
  <2>3. QED
    BY <2>1, <2>2
<1>8. KeysTypeOK'
  <2>1. p_rpos' \in Nat /\ p_wpos' \in p_rpos'..(p_rpos' + STDIN_BUFSIZE)
    <3>1. /\ p_rpos \in Nat /\ Available \in 0..Size /\ Size \in Nat \ {0}
          /\ p_wpos = p_rpos + Available
      BY <1>0, UnreadIs DEF KeysTypeOK
    <3>2. p_rpos' = p_rpos + k /\ p_wpos' = p_wpos /\ k \in 0..Available
      BY <1>1, <1>2
    <3>3. QED
      BY <3>1, <3>2 DEF Size
  <2>2. need' \in [Reader -> 0..MaxLen]
    BY <1>0, <1>1 DEF KeysTypeOK
  <2>3. /\ stdin_buffer' \in [0..(STDIN_BUFSIZE - 1) -> 0..MaxKeys]
        /\ exiting' \subseteq Reader /\ typed' \in 0..MaxKeys /\ dropped' \subseteq 1..MaxKeys
    BY <1>0, <1>2 DEF KeysTypeOK
  <2>4. QED
    BY <1>3, <1>5, <1>7, <2>1, <2>2, <2>3 DEF KeysTypeOK
<1>9. ReasonsOK'
  <2>1. \A r \in Reader : place'[r] = "woken" => r # p
    BY <1>5
  <2>2. QED
    BY <1>0, <1>2, <1>5, <2>1 DEF ReasonsOK
<1>10. NoSleepBesideKeys'
  <2>1. SUFFICES ASSUME Available' > 0, NEW r \in Reader, place'[r] = "asleep" PROVE FALSE
    BY DEF NoSleepBesideKeys
  <2>2. Available > 0 /\ k # Available
    BY <1>1, <1>4, <2>1
  <2>3. k = n
    BY <1>1, <2>2
  <2>4. r # p /\ place[r] = "asleep"
    BY <1>5, <2>1, <2>3
  <2>5. QED
    BY <1>0, <2>2, <2>4 DEF NoSleepBesideKeys
<1>11. QueueMatchesReaders'
  <2>1. \A r \in Reader : wait_in_queue(r)' <=> (wait_in_queue(r) /\ r # p) \/ (k # n /\ r = p)
    BY <1>7, LinkedHas
  <2>2. ASSUME NEW r \in Reader
        PROVE  /\ place'[r] = "asleep" => wait_in_queue(r)'
               /\ wait_in_queue(r)' => place'[r] = "asleep" \/ (place'[r] = "woken" /\ r \in exiting')
    <3>1. CASE r = p
      BY <1>5, <2>1, <3>1
    <3>2. CASE r # p
      BY <1>0, <1>2, <1>5, <2>1, <3>2, QueueFacts
    <3>3. QED
      BY <3>1, <3>2
  <2>3. QED
    BY <1>7, <2>2, QueueKept
<1>12. QED
  BY <1>3, <1>8, <1>9, <1>10, <1>11 DEF KeyIInv

\* A reader that was woken for another reason unlinks itself and returns.
LEMMA InterruptStep ==
  ASSUME StdinAssumption, KeyIInv, NEW p \in Reader, interrupted(p)
  PROVE  KeyIInv'
<1>0. KeysTypeOK /\ KeysOK /\ ReasonsOK /\ NoSleepBesideKeys /\ QueueMatchesReaders
  BY DEF KeyIInv
<1>1. /\ wait_queue' = Unlinked(p) /\ Return(p)
      /\ UNCHANGED <<stdin_buffer, p_rpos, p_wpos, wakeup_flags, exiting, need, got, typed, dropped>>
  BY DEF interrupted
<1>2. KeysOK' /\ Available' = Available
  BY <1>0, <1>1, KeysStay, UnreadStays
<1>3. /\ place \in [Reader -> {"user", "asleep", "woken", "gone"}] /\ wait_queue \in Seq(Reader)
  BY <1>0 DEF KeysTypeOK
<1>4. /\ \A r \in Reader \ {p} : place'[r] = place[r]
      /\ place'[p] \in {"user", "gone"}
      /\ place' \in [Reader -> {"user", "asleep", "woken", "gone"}]
  BY <1>1, <1>3 DEF Return
<1>5. /\ wait_queue' \in Seq(Reader) /\ Single(wait_queue')
      /\ \A r \in Reader : Has(wait_queue', r) <=> wait_in_queue(r) /\ r # p
  BY <1>0, <1>1, <1>3, QueueFacts, UnlinkedIs, LinkedHas
<1>6. KeysTypeOK'
  BY <1>0, <1>1, <1>4, <1>5 DEF KeysTypeOK
<1>7. ReasonsOK'
  BY <1>0, <1>1, <1>4 DEF ReasonsOK
<1>8. NoSleepBesideKeys'
  BY <1>0, <1>2, <1>4 DEF NoSleepBesideKeys
<1>9. QueueMatchesReaders'
  <2>1. \A r \in Reader : wait_in_queue(r)' <=> wait_in_queue(r) /\ r # p
    BY <1>5, LinkedHas
  <2>2. ASSUME NEW r \in Reader
        PROVE  /\ place'[r] = "asleep" => wait_in_queue(r)'
               /\ wait_in_queue(r)' => place'[r] = "asleep" \/ (place'[r] = "woken" /\ r \in exiting')
    BY <1>0, <1>1, <1>4, <2>1, QueueFacts
  <2>3. QED
    BY <1>5, <2>2, QueueKept
<1>10. QED
  BY <1>2, <1>6, <1>7, <1>8, <1>9 DEF KeyIInv

\* A process is killed: a sleeping reader runs on, linked still.
LEMMA KillStep ==
  ASSUME StdinAssumption, KeyIInv, NEW p \in Reader, do_kill(p)
  PROVE  KeyIInv'
<1>0. KeysTypeOK /\ KeysOK /\ ReasonsOK /\ NoSleepBesideKeys /\ QueueMatchesReaders
  BY DEF KeyIInv
<1>1. /\ exiting' = exiting \cup {p}
      /\ place' = IF place[p] = "asleep" THEN [place EXCEPT ![p] = "woken"] ELSE place
      /\ UNCHANGED <<stdin_buffer, p_rpos, p_wpos, wait_queue, wakeup_flags, need, got, typed, dropped>>
  BY DEF do_kill
<1>2. KeysOK' /\ Available' = Available
  BY <1>0, <1>1, KeysStay, UnreadStays
<1>3. place \in [Reader -> {"user", "asleep", "woken", "gone"}]
  BY <1>0 DEF KeysTypeOK
<1>4. /\ place' \in [Reader -> {"user", "asleep", "woken", "gone"}]
      /\ \A r \in Reader \ {p} : place'[r] = place[r]
      /\ place'[p] # "asleep" /\ (place'[p] = "woken" <=> place[p] \in {"woken", "asleep"})
  BY <1>1, <1>3
<1>5. KeysTypeOK'
  BY <1>0, <1>1, <1>4 DEF KeysTypeOK
<1>6. ReasonsOK'
  BY <1>0, <1>1, <1>4 DEF ReasonsOK
<1>7. NoSleepBesideKeys'
  BY <1>0, <1>2, <1>4 DEF NoSleepBesideKeys
<1>8. QueueMatchesReaders'
  <2>1. \A r \in Reader : wait_in_queue(r)' <=> wait_in_queue(r)
    BY <1>1 DEF wait_in_queue
  <2>2. ASSUME NEW r \in Reader
        PROVE  /\ place'[r] = "asleep" => wait_in_queue(r)'
               /\ wait_in_queue(r)' => place'[r] = "asleep" \/ (place'[r] = "woken" /\ r \in exiting')
    BY <1>0, <1>1, <1>4, <2>1, QueueFacts
  <2>3. Single(wait_queue')
    BY <1>0, <1>1, QueueFacts
  <2>4. QED
    BY <2>2, <2>3, QueueKept
<1>9. QED
  BY <1>2, <1>5, <1>6, <1>7, <1>8 DEF KeyIInv

\* Every step keeps the invariant.
LEMMA StepKeeps == ASSUME StdinAssumption, KeyIInv, [KeysNext]_keyVars PROVE KeyIInv'
<1>1. CASE UNCHANGED keyVars
  <2>1. /\ UNCHANGED <<stdin_buffer, p_rpos, p_wpos, got, typed, dropped>>
        /\ UNCHANGED <<wait_queue, wakeup_flags, place, exiting, need>>
    BY <1>1 DEF keyVars
  <2>2. KeysOK' /\ Available' = Available
    BY <2>1, KeysStay, UnreadStays DEF KeyIInv
  <2>3. KeysTypeOK'
    BY <2>1 DEF KeyIInv, KeysTypeOK
  <2>4. ReasonsOK' /\ NoSleepBesideKeys'
    BY <2>1, <2>2 DEF KeyIInv, ReasonsOK, NoSleepBesideKeys
  <2>5. QueueMatchesReaders'
    BY <2>1 DEF KeyIInv, QueueMatchesReaders, wait_in_queue
  <2>6. QED
    BY <2>2, <2>3, <2>4, <2>5 DEF KeyIInv
<1>2. CASE dev_stdin_write
  BY <1>2, WriteStep
<1>3. ASSUME NEW p \in Reader, dev_stdin_read(p) PROVE KeyIInv'
  <2>1. PICK len \in 0..MaxLen : ReadOn(p, len)
    BY <1>3 DEF dev_stdin_read
  <2>2. QED
    BY <2>1, ReadStep
<1>4. ASSUME NEW p \in Reader, interrupted(p) PROVE KeyIInv'
  BY <1>4, InterruptStep
<1>5. ASSUME NEW p \in Reader, try_again(p) PROVE KeyIInv'
  <2>1. need[p] \in 0..MaxLen /\ ReadOn(p, need[p])
    BY <1>5 DEF try_again, KeyIInv, KeysTypeOK
  <2>2. QED
    BY <2>1, ReadStep
<1>6. ASSUME NEW p \in Reader, do_kill(p) PROVE KeyIInv'
  BY <1>6, KillStep
<1>7. QED
  BY <1>1, <1>2, <1>3, <1>4, <1>5, <1>6 DEF KeysNext

\* The inductive invariant holds in every state.
THEOREM KeyInvariance == ASSUME StdinAssumption PROVE KeysSpec => []KeyIInv
<1>1. stdin_device_init => KeyIInv
  BY Start
<1>2. KeyIInv /\ [KeysNext]_keyVars => KeyIInv'
  BY StepKeeps
<1>3. QED
  BY <1>1, <1>2, PTL DEF KeysSpec

-----------------------------------------------------------------------------
(* What follows from the invariant. *)

\* Two sets of numbers that have nothing in common hold as many as both together.
LEMMA Apart ==
  ASSUME NEW S, NEW T, IsFiniteSet(S), IsFiniteSet(T), S \cap T = {}
  PROVE  IsFiniteSet(S \cup T) /\ Cardinality(S \cup T) = Cardinality(S) + Cardinality(T)
<1>1. Cardinality(S \cap T) = 0
  BY FS_EmptySet
<1>2. Cardinality(S) \in Nat /\ Cardinality(T) \in Nat
  BY FS_CardinalityType
<1>3. /\ IsFiniteSet(S \cup T)
      /\ Cardinality(S \cup T) = Cardinality(S) + Cardinality(T) - Cardinality(S \cap T)
  BY FS_Union
<1>4. QED
  BY <1>1, <1>2, <1>3

\* As many keys are in the buffer as the positions say.
LEMMA HeldCount ==
  ASSUME StdinAssumption, KeysTypeOK, UnreadOnce, NEW R, R = {Unread[i] : i \in 1..Available}
  PROVE  IsFiniteSet(R) /\ Cardinality(R) = Available
<1>1. Available \in Nat /\ Unread \in Seq(0..MaxKeys) /\ Len(Unread) = Available
  BY UnreadIs
<1> DEFINE f == [i \in 1..Available |-> Unread[i]]
           I == 1..Available
<1>2. f \in [I -> R] /\ (\A i, j \in I : f[i] = f[j] => i = j) /\ \A c \in R : \E i \in I : f[i] = c
  BY DEF UnreadOnce
<1>3. IsFiniteSet(I) /\ Cardinality(I) = Available
  <2>1. 1 \in Int /\ Available \in Int
    BY <1>1
  <2>2. IsFiniteSet(1..Available) /\ Cardinality(1..Available) = IF 1 > Available THEN 0 ELSE Available - 1 + 1
    BY <2>1, FS_Interval
  <2>3. QED
    BY <1>1, <2>2
<1> HIDE DEF f, I
<1>4. f \in Injection(I, R) /\ f \in Surjection(I, R)
  BY <1>2 DEF Injection, IsInjective, Surjection
<1>5. ExistsBijection(I, R)
  BY <1>4 DEF ExistsBijection, Bijection
<1>6. QED
  BY <1>3, <1>5, FS_Bijection

\* Every key that was typed is unread, delivered to one process, or was overwritten.
LEMMA KeyOnce == ASSUME StdinAssumption, KeysTypeOK, KeysOK PROVE EveryKeyOnce
<1> DEFINE R == {Unread[i] : i \in 1..Available}
           D == Delivered
           A == 1..typed
<1>0. UnreadOnce /\ HeldOK /\ GivenOK /\ DroppedOK /\ NoneLost /\ GivenOnce
  BY DEF KeysOK
<1>1. IsFiniteSet(R) /\ Cardinality(R) = Available
  BY <1>0, HeldCount
<1>2. typed \in Nat /\ IsFiniteSet(A) /\ Cardinality(A) = typed
  <2>1. typed \in Nat /\ 1 \in Int /\ typed \in Int
    BY DEF KeysTypeOK, StdinAssumption
  <2>2. IsFiniteSet(1..typed) /\ Cardinality(1..typed) = IF 1 > typed THEN 0 ELSE typed - 1 + 1
    BY <2>1, FS_Interval
  <2>3. QED
    BY <2>1, <2>2
<1>3. \A c : c \in R <=> Held(c)
  BY DEF Held
<1>4. \A c : c \in D <=> Given(c)
  BY DEF Delivered, Given
<1> HIDE DEF R, D, A
<1>5. D \subseteq A /\ dropped \subseteq A /\ R \subseteq A
  BY <1>0, <1>3, <1>4 DEF HeldOK, GivenOK, DroppedOK, A
<1>6. A \subseteq D \cup dropped \cup R
  BY <1>0, <1>3, <1>4 DEF NoneLost, A
<1>7. D \cap dropped = {} /\ (D \cup dropped) \cap R = {}
  BY <1>0, <1>3, <1>4 DEF HeldOK, GivenOK
<1>8. IsFiniteSet(D) /\ IsFiniteSet(dropped)
  BY <1>2, <1>5, FS_Subset
<1>9. IsFiniteSet(D \cup dropped) /\ Cardinality(D \cup dropped) = Cardinality(D) + Cardinality(dropped)
  BY <1>7, <1>8, Apart
<1>10. Cardinality((D \cup dropped) \cup R) = Cardinality(D \cup dropped) + Cardinality(R)
  BY <1>1, <1>7, <1>9, Apart
<1>11. (D \cup dropped) \cup R = A
  BY <1>5, <1>6
<1>12. Cardinality(D) + Cardinality(dropped) + Available = typed
  BY <1>1, <1>2, <1>9, <1>10, <1>11
<1>13. QED
  BY <1>0, <1>12 DEF EveryKeyOnce, GivenOnce, D

\* Types; every key in exactly one place; nobody asleep beside keys; the queue holds the
\* readers (dev_stdin_read, dev_stdin_write, wakeup_queue, do_kill).
THEOREM KeysCorrect == ASSUME StdinAssumption PROVE KeysSpec => []KeysInv
<1>1. KeyIInv => KeysInv
  BY KeyOnce DEF KeyIInv, KeysInv
<1>2. QED
  BY <1>1, KeyInvariance, PTL

\* A step keeps the places of the others, or wakes them.
LEMMA OthersStay ==
  ASSUME KeysTypeOK, NEW p \in Reader, NEW q \in Reader, q # p, NEW n, ReadOn(q, n) \/ interrupted(q) \/ do_kill(q)
  PROVE  place'[p] = place[p]
<1>1. place \in [Reader -> {"user", "asleep", "woken", "gone"}]
  BY DEF KeysTypeOK
<1>2. CASE ReadOn(q, n)
  <2>1. \/ Return(q)
        \/ place' = [place EXCEPT ![q] = "asleep"]
    BY <1>2 DEF ReadOn
  <2>2. QED
    BY <1>1, <2>1 DEF Return
<1>3. CASE interrupted(q)
  BY <1>1, <1>3 DEF interrupted, Return
<1>4. CASE do_kill(q)
  BY <1>1, <1>4 DEF do_kill
<1>5. QED
  BY <1>2, <1>3, <1>4

\* A read ends short of what it asked for only because the process was killed
\* (dev_stdin_read's break when the reason is not WT_KBD).
THEOREM ShortReads == ASSUME StdinAssumption PROVE KeysSpec => ShortReadsAreKills
<1>1. ASSUME KeyIInv, KeysNext, NEW p \in Reader, place[p] = "woken", place'[p] \in {"user", "gone"}, need'[p] > 0
      PROVE  p \in exiting
  <2>0. /\ KeysTypeOK /\ ReasonsOK /\ place \in [Reader -> {"user", "asleep", "woken", "gone"}]
        /\ need \in [Reader -> 0..MaxLen]
    BY <1>1 DEF KeyIInv, KeysTypeOK
  <2>1. CASE dev_stdin_write
    <3>1. place'[p] \in {"woken", place[p]}
      BY <2>1 DEF dev_stdin_write, wakeup_queue
    <3>2. QED
      BY <1>1, <3>1
  <2>2. ASSUME NEW q \in Reader, dev_stdin_read(q) PROVE p \in exiting
    <3>1. q # p
      BY <1>1, <2>2 DEF dev_stdin_read
    <3>2. PICK len \in 0..MaxLen : ReadOn(q, len)
      BY <2>2 DEF dev_stdin_read
    <3>3. QED
      BY <1>1, <2>0, <3>1, <3>2, OthersStay
  <2>3. ASSUME NEW q \in Reader, interrupted(q) PROVE p \in exiting
    <3>1. CASE q = p
      BY <1>1, <2>0, <2>3, <3>1 DEF interrupted, ReasonsOK
    <3>2. CASE q # p
      BY <1>1, <2>0, <2>3, <3>2, OthersStay
    <3>3. QED
      BY <3>1, <3>2
  <2>4. ASSUME NEW q \in Reader, try_again(q) PROVE p \in exiting
    <3>1. ReadOn(q, need[q]) /\ need[q] \in 0..MaxLen
      BY <2>0, <2>4 DEF try_again
    <3>2. CASE q # p
      BY <1>1, <2>0, <3>1, <3>2, OthersStay
    <3>3. CASE q = p
      <4>0. PICK k \in 0..Available : Takes(p, need[p], k)
        BY <2>0, <3>1, <3>3, ReadTakes
      <4>1. /\ need' = [need EXCEPT ![p] = need[p] - k]
            /\ k # need[p] => place' = [place EXCEPT ![p] = "asleep"]
        BY <4>0 DEF Takes
      <4>2. need'[p] = need[p] - k /\ need[p] \in Int /\ k \in Int
        BY <2>0, <4>1, UnreadIs DEF StdinAssumption
      <4>3. k # need[p]
        BY <1>1, <4>2
      <4>4. place'[p] = "asleep"
        BY <2>0, <4>1, <4>3
      <4>5. QED
        BY <1>1, <4>4
    <3>4. QED
      BY <3>2, <3>3
  <2>5. ASSUME NEW q \in Reader, do_kill(q) PROVE p \in exiting
    <3>1. CASE q # p
      BY <1>1, <2>0, <2>5, <3>1, OthersStay
    <3>2. CASE q = p
      BY <1>1, <2>5, <3>2 DEF do_kill
    <3>3. QED
      BY <3>1, <3>2
  <2>6. QED
    BY <1>1, <2>1, <2>2, <2>3, <2>4, <2>5 DEF KeysNext
<1>2. KeyIInv /\ [KeysNext]_keyVars =>
        [\A p \in Reader : place[p] = "woken" /\ place'[p] \in {"user", "gone"} /\ need'[p] > 0
            => p \in exiting]_keyVars
  BY <1>1
<1>3. QED
  BY <1>2, KeyInvariance, PTL DEF KeysSpec, ShortReadsAreKills

-----------------------------------------------------------------------------
(* The ring implements the abstract keyboard. *)

\* What a step does to the buffer and to the readers' characters is a step of Keyboard.
LEMMA AbstractStep == ASSUME StdinAssumption, KeyIInv, [KeysNext]_keyVars PROVE K!Next \/ UNCHANGED <<Unread, got>>
<1>0. KeysTypeOK /\ KeysOK /\ Unread \in Seq(0..MaxKeys) /\ Len(Unread) = Available
      /\ Available \in 0..Size /\ Available \in Nat /\ Size \in Nat
  BY UnreadIs DEF KeyIInv
<1>1. CASE UNCHANGED <<stdin_buffer, p_rpos, p_wpos, got>>
  BY <1>1, UnreadStays
<1>2. CASE dev_stdin_write
  <2>1. /\ Unread' = IF Len(Unread) < STDIN_BUFSIZE THEN Append(Unread, typed + 1)
                     ELSE [Unread EXCEPT ![1] = typed + 1]
        /\ typed + 1 \in 1..MaxKeys
    <3>1. \/ Available < Size /\ Unread' = Append(Unread, typed + 1)
          \/ Available = Size /\ Unread' = [Unread EXCEPT ![1] = typed + 1]
      BY <1>0, <1>2, Written
    <3>2. typed + 1 \in 1..MaxKeys
      BY <1>0, <1>2, Written
    <3>3. QED
      BY <1>0, <3>1, <3>2 DEF Size
  <2>2. got' = got
    BY <1>2 DEF dev_stdin_write
  <2>3. K!Type(typed + 1)
    <3>1. CASE Len(Unread) < STDIN_BUFSIZE
      BY <2>1, <2>2, <3>1 DEF K!Type
    <3>2. CASE Len(Unread) = STDIN_BUFSIZE
      <4>1. 1 \in 1..STDIN_BUFSIZE
        BY DEF StdinAssumption
      <4>2. Unread' = [Unread EXCEPT ![1] = typed + 1]
        BY <1>0, <2>1, <3>2
      <4>3. QED
        BY <2>2, <3>2, <4>1, <4>2 DEF K!Type
    <3>3. QED
      BY <1>0, <3>1, <3>2 DEF Size
  <2>4. QED
    BY <2>1, <2>3 DEF K!Next
<1>3. ASSUME NEW p \in Reader, NEW n \in 0..MaxLen, ReadOn(p, n)
      PROVE  K!Next \/ UNCHANGED <<Unread, got>>
  <2>0. PICK k \in 0..Available : Takes(p, n, k)
    BY <1>0, <1>3, ReadTakes
  <2>1. /\ Unread' = SubSeq(Unread, k + 1, Available)
        /\ got' = [got EXCEPT ![p] = @ \o SubSeq(Unread, 1, k)]
    BY <2>0 DEF Takes
  <2>2. CASE k # 0
    <3>1. k \in 1..Len(Unread)
      BY <1>0, <2>2
    <3>2. K!Take(p, k)
      BY <1>0, <2>1 DEF K!Take
    <3>3. QED
      BY <3>1, <3>2 DEF K!Next
  <2>3. CASE k = 0
    <3>1. SubSeq(Unread, 1, 0) = <<>>
      BY <1>0
    <3>2. got' = got
      <4>1. got \in [Reader -> Seq(1..MaxKeys)]
        BY <1>0 DEF KeysTypeOK
      <4>2. got[p] \o <<>> = got[p]
        BY <4>1
      <4>3. QED
        BY <2>1, <2>3, <3>1, <4>1, <4>2
    <3>3. Unread' = Unread
      <4>1. SubSeq(Unread, 0 + 1, Len(Unread)) = Unread
        BY <1>0
      <4>2. QED
        BY <1>0, <2>1, <2>3, <4>1
    <3>4. QED
      BY <3>2, <3>3
  <2>4. QED
    BY <2>2, <2>3
<1>4. ASSUME NEW p \in Reader, dev_stdin_read(p) PROVE K!Next \/ UNCHANGED <<Unread, got>>
  <2>1. PICK len \in 0..MaxLen : ReadOn(p, len)
    BY <1>4 DEF dev_stdin_read
  <2>2. QED
    BY <1>3, <2>1
<1>5. ASSUME NEW p \in Reader, try_again(p) PROVE K!Next \/ UNCHANGED <<Unread, got>>
  <2>1. need[p] \in 0..MaxLen /\ ReadOn(p, need[p])
    BY <1>0, <1>5 DEF try_again, KeysTypeOK
  <2>2. QED
    BY <1>3, <2>1
<1>6. QED
  BY <1>1, <1>2, <1>4, <1>5 DEF KeysNext, keyVars, interrupted, do_kill

\* The ring and its wait queue implement the abstract keyboard: every character goes to one
\* reader, and the unread ones keep the order they were typed in for as long as the buffer
\* has room.  One that finds it full costs an unread one, and where it comes is not promised.
THEOREM KeyRefinement == ASSUME StdinAssumption PROVE KeysSpec => ImplementsKeyboard
<1>1. stdin_device_init => K!Init
  <2>1. SUFFICES ASSUME stdin_device_init PROVE Unread = <<>> /\ got = [r \in Reader |-> <<>>]
    BY DEF K!Init
  <2>2. Available = 0
    BY <2>1 DEF stdin_device_init, Available
  <2>3. Unread = <<>>
    BY <2>2 DEF Unread
  <2>4. QED
    BY <2>1, <2>3 DEF stdin_device_init
<1>2. KeyIInv /\ [KeysNext]_keyVars => [K!Next]_<<Unread, got>>
  BY AbstractStep
<1>3. QED
  BY <1>1, <1>2, KeyInvariance, PTL DEF KeysSpec, ImplementsKeyboard, K!Spec
=============================================================================
