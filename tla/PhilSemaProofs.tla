--------------------------- MODULE PhilSemaProofs ---------------------------
(***************************************************************************)
(* The philosophers with semaphores, for any number of them: neighbours    *)
(* never eat together, nobody is in two queues, nobody is forgotten.       *)
(***************************************************************************)
EXTENDS PhilSema, TLAPS

-----------------------------------------------------------------------------
(* The inductive invariant. *)

\* Inside the section that the mutex protects, and not blocked in front of it.
InSection(i) == /\ pc[i] \in {"hungry", "test", "release", "putdown", "testleft",
                              "testright", "leave"}
                /\ i \notin Waiters(mutex)

\* Nobody is twice in a queue, and a semaphore with a queue has no token.
SemOK == /\ value \in [Sem -> 0..1]
         /\ wait_queue \in [Sem -> Seq(Phil)]
         /\ \A x \in Sem :
               /\ \A k, m \in DOMAIN wait_queue[x] :
                     wait_queue[x][k] = wait_queue[x][m] => k = m
               /\ Waiters(x) # {} => value[x] = 0

VarsOK == /\ ready \in SUBSET Phil /\ running \in Phil
          /\ state_sema \in [Phil -> {"THINKING", "HUNGRY", "EATING"}]
          /\ iter \in [Phil -> 0..TIMES]
          /\ pc \in [Phil -> Places]

\* Who can be in which queue.
QueueOK == /\ \A i \in Waiters(mutex) : pc[i] \in {"hungry", "putdown"} /\ i \notin ready
           /\ \A j \in Phil : \A i \in Waiters(s(j)) : i = j /\ pc[i] = "eat" /\ i \notin ready

\* One thread in the section, and the mutex is taken then.
SectionOK == \A i \in Phil : InSection(i) =>
                /\ value[mutex] = 0
                /\ \A j \in Phil : InSection(j) => j = i

\* Where a philosopher is, what the table knows of it, and where its token is.
Hungry(i) == state_sema[i] = "HUNGRY" /\ value[s(i)] = 0
HasToken(i) == state_sema[i] = "EATING" /\ value[s(i)] = 1
TookToken(i) == state_sema[i] = "EATING" /\ value[s(i)] = 0

PlaceOK(i) ==
    /\ pc[i] \in {"think", "take", "hungry", "testleft", "testright", "leave", "quit"}
         => state_sema[i] = "THINKING" /\ value[s(i)] = 0
    /\ pc[i] = "test" => Hungry(i)
    /\ pc[i] \in {"release", "getforks"} => Hungry(i) \/ HasToken(i)
    /\ pc[i] = "eat" => IF i \in Waiters(s(i)) THEN Hungry(i) ELSE TookToken(i)
    /\ pc[i] \in {"put", "putdown"} => TookToken(i)

TableOK == \A i \in Phil : state_sema[i] = "EATING" =>
              state_sema[LEFT(i)] # "EATING" /\ state_sema[RIGHT(i)] # "EATING"

\* A hungry philosopher who could eat is about to be tested.
ToBeTested(i) ==
    \/ pc[i] = "test"
    \/ \E j \in Phil : /\ InSection(j)
                       /\ \/ pc[j] = "testleft" /\ i \in {LEFT(j), RIGHT(j)}
                          \/ pc[j] = "testright" /\ i = RIGHT(j)

Remembered(i) == state_sema[i] = "HUNGRY" =>
                    \/ state_sema[LEFT(i)] = "EATING" \/ state_sema[RIGHT(i)] = "EATING"
                    \/ ToBeTested(i)

IInv == /\ SemOK /\ VarsOK /\ QueueOK /\ SectionOK
        /\ \A i \in Phil : PlaceOK(i)
        /\ TableOK
        /\ \A i \in Phil : Remembered(i)

-----------------------------------------------------------------------------
(* Names, seats and queues. *)

\* The mutex and the philosophers' semaphores are all different.
LEMMA SemNames ==
  /\ mutex \in Sem
  /\ \A i \in Phil : s(i) \in Sem /\ s(i) # mutex
  /\ \A i, j \in Phil : s(i) = s(j) => i = j
  /\ \A x \in Sem : x = mutex \/ \E i \in Phil : x = s(i)
BY DEF Sem, mutex, s

\* Left and right neighbours are other philosophers, and inverse to each other.
LEMMA Seats ==
  ASSUME NEW i \in Phil
  PROVE  /\ LEFT(i) \in Phil /\ RIGHT(i) \in Phil
         /\ LEFT(i) # i /\ RIGHT(i) # i
         /\ LEFT(RIGHT(i)) = i /\ RIGHT(LEFT(i)) = i
<1>1. \A j \in Phil : LEFT(j) = IF j = 0 THEN N - 1 ELSE j - 1
  BY PhilAssumption DEF Phil, LEFT
<1>2. \A j \in Phil : RIGHT(j) = IF j = N - 1 THEN 0 ELSE j + 1
  BY PhilAssumption DEF Phil, RIGHT
<1>3. LEFT(i) \in Phil /\ RIGHT(i) \in Phil
  BY <1>1, <1>2, PhilAssumption DEF Phil
<1>4. QED
  BY <1>1, <1>2, <1>3, PhilAssumption DEF Phil

\* Who waits behind a queue that grew, and behind one that lost its head.
LEMMA Appended ==
  ASSUME NEW q \in Seq(Phil), NEW p \in Phil
  PROVE  /\ Append(q, p) \in Seq(Phil)
         /\ {Append(q, p)[k] : k \in 1..Len(Append(q, p))} = {q[k] : k \in 1..Len(q)} \cup {p}
         /\ (/\ \A k, m \in DOMAIN q : q[k] = q[m] => k = m
             /\ p \notin {q[k] : k \in 1..Len(q)})
            => \A k, m \in DOMAIN Append(q, p) : Append(q, p)[k] = Append(q, p)[m] => k = m
<1>1. Append(q, p) \in Seq(Phil) /\ Len(Append(q, p)) = Len(q) + 1 /\ Len(q) \in Nat
  OBVIOUS
<1>2. \A k \in 1..Len(q) : Append(q, p)[k] = q[k]
  OBVIOUS
<1>3. Append(q, p)[Len(q) + 1] = p
  OBVIOUS
<1>4. DOMAIN q = 1..Len(q) /\ DOMAIN Append(q, p) = 1..(Len(q) + 1)
  BY <1>1
<1>5. \A k \in 1..(Len(q) + 1) : k \in 1..Len(q) \/ k = Len(q) + 1
  BY <1>1
<1>6. QED
  BY <1>1, <1>2, <1>3, <1>4, <1>5

\* The queue that lost its head.
LEMMA Served ==
  ASSUME NEW q \in Seq(Phil), q # <<>>,
         \A k, m \in DOMAIN q : q[k] = q[m] => k = m
  PROVE  /\ Tail(q) \in Seq(Phil)
         /\ Head(q) \in {q[k] : k \in 1..Len(q)}
         /\ {Tail(q)[k] : k \in 1..Len(Tail(q))} = {q[k] : k \in 1..Len(q)} \ {Head(q)}
         /\ \A k, m \in DOMAIN Tail(q) : Tail(q)[k] = Tail(q)[m] => k = m
<1>1. Tail(q) \in Seq(Phil) /\ Len(Tail(q)) = Len(q) - 1 /\ Len(q) \in Nat \ {0}
  OBVIOUS
<1>2. \A k \in 1..(Len(q) - 1) : Tail(q)[k] = q[k + 1]
  OBVIOUS
<1>3. Head(q) = q[1]
  OBVIOUS
<1>4. DOMAIN q = 1..Len(q) /\ DOMAIN Tail(q) = 1..(Len(q) - 1)
  BY <1>1
<1>5. \A k \in 1..Len(q) : k = 1 \/ (k - 1 \in 1..(Len(q) - 1) /\ q[k] = Tail(q)[k - 1])
  BY <1>1, <1>2
<1>6. \A k \in 1..(Len(q) - 1) : k + 1 \in 1..Len(q) /\ k + 1 # 1 /\ 1 \in 1..Len(q)
  BY <1>1
<1>7. {Tail(q)[k] : k \in 1..Len(Tail(q))} = {q[k] : k \in 1..Len(q)} \ {Head(q)}
  <2>1. ASSUME NEW k \in 1..(Len(q) - 1)
        PROVE  Tail(q)[k] \in {q[m] : m \in 1..Len(q)} \ {Head(q)}
    BY <1>2, <1>3, <1>4, <1>6
  <2>2. ASSUME NEW k \in 1..Len(q), q[k] # Head(q)
        PROVE  q[k] \in {Tail(q)[m] : m \in 1..(Len(q) - 1)}
    BY <2>2, <1>3, <1>5
  <2>3. QED
    BY <1>1, <2>1, <2>2
<1>8. \A k, m \in DOMAIN Tail(q) : Tail(q)[k] = Tail(q)[m] => k = m
  <2>1. TAKE k, m \in DOMAIN Tail(q)
  <2>2. HAVE Tail(q)[k] = Tail(q)[m]
  <2>3. q[k + 1] = q[m + 1]
    BY <1>2, <1>4, <2>2
  <2>4. k + 1 = m + 1
    BY <1>4, <1>6, <2>3
  <2>5. QED
    BY <1>1, <1>4, <2>4
<1>9. QED
  BY <1>1, <1>3, <1>7, <1>8

\* down takes the token or joins the queue.
LEMMA DownEffect ==
  ASSUME SemOK, NEW i \in Phil, NEW x \in Sem, i \notin Waiters(x), down(i, x)
  PROVE  /\ SemOK'
         /\ \A y \in Sem : y # x => value'[y] = value[y] /\ Waiters(y)' = Waiters(y)
         /\ value'[x] = 0
         /\ \/ value[x] = 1 /\ Waiters(x)' = Waiters(x) /\ ready' = ready
            \/ value[x] = 0 /\ Waiters(x)' = Waiters(x) \cup {i} /\ ready' = ready \ {i}
<1>1. CASE value[x] > 0
  <2>1. value[x] = 1 /\ Waiters(x) = {}
    BY <1>1 DEF SemOK
  <2>2. value' = [value EXCEPT ![x] = 0] /\ wait_queue' = wait_queue /\ ready' = ready
    BY <1>1, <2>1 DEF down, SemOK
  <2>3. \A y \in Sem : Waiters(y)' = Waiters(y)
    BY <2>2 DEF Waiters
  <2>4. value' \in [Sem -> 0..1] /\ value'[x] = 0 /\ \A y \in Sem : y # x => value'[y] = value[y]
    BY <2>2 DEF SemOK
  <2>5. SemOK'
    BY <2>2, <2>3, <2>4 DEF SemOK
  <2>6. QED
    BY <2>1, <2>2, <2>3, <2>4, <2>5
<1>2. CASE ~(value[x] > 0)
  <2>1. value[x] = 0
    BY <1>2 DEF SemOK
  <2>2. /\ value' = value /\ ready' = ready \ {i}
        /\ wait_queue' = [wait_queue EXCEPT ![x] = Append(wait_queue[x], i)]
    BY <1>2 DEF down
  <2>3. /\ wait_queue'[x] = Append(wait_queue[x], i)
        /\ \A y \in Sem : y # x => wait_queue'[y] = wait_queue[y]
    BY <2>2 DEF SemOK
  <2>4. wait_queue[x] \in Seq(Phil)
    BY DEF SemOK
  <2>5. /\ wait_queue'[x] \in Seq(Phil) /\ Waiters(x)' = Waiters(x) \cup {i}
        /\ \A k, m \in DOMAIN wait_queue'[x] : wait_queue'[x][k] = wait_queue'[x][m] => k = m
    BY <2>3, <2>4, Appended DEF Waiters, SemOK
  <2>6. \A y \in Sem : y # x => Waiters(y)' = Waiters(y)
    BY <2>3 DEF Waiters
  <2>7. wait_queue' \in [Sem -> Seq(Phil)]
    BY <2>2, <2>3, <2>5 DEF SemOK
  <2>8. SemOK'
    BY <2>1, <2>2, <2>3, <2>5, <2>6, <2>7 DEF SemOK
  <2>9. QED
    BY <2>1, <2>2, <2>5, <2>6, <2>8
<1>3. QED
  BY <1>1, <1>2

\* up hands the token to a waiter, or leaves it when there is none.
LEMMA UpEffect ==
  ASSUME SemOK, NEW x \in Sem, value[x] = 0, up(x)
  PROVE  /\ SemOK'
         /\ \A y \in Sem : y # x => value'[y] = value[y] /\ Waiters(y)' = Waiters(y)
         /\ \/ Waiters(x) = {} /\ Waiters(x)' = {} /\ value'[x] = 1 /\ ready' = ready
            \/ \E h \in Waiters(x) : /\ Waiters(x)' = Waiters(x) \ {h}
                                     /\ value'[x] = 0 /\ ready' = ready \cup {h}
<1>1. CASE wait_queue[x] = <<>>
  <2>1. value' = [value EXCEPT ![x] = 1] /\ wait_queue' = wait_queue /\ ready' = ready
    BY <1>1 DEF up
  <2>2. Waiters(x) = {}
    BY <1>1 DEF Waiters
  <2>3. \A y \in Sem : Waiters(y)' = Waiters(y)
    BY <2>1 DEF Waiters
  <2>4. value' \in [Sem -> 0..1] /\ value'[x] = 1 /\ \A y \in Sem : y # x => value'[y] = value[y]
    BY <2>1 DEF SemOK
  <2>5. SemOK'
    BY <2>1, <2>2, <2>3, <2>4 DEF SemOK
  <2>6. QED
    BY <2>1, <2>2, <2>3, <2>4, <2>5
<1>2. CASE wait_queue[x] # <<>>
  <2>1. /\ value' = value /\ ready' = ready \cup {Head(wait_queue[x])}
        /\ wait_queue' = [wait_queue EXCEPT ![x] = Tail(wait_queue[x])]
    BY <1>2 DEF up
  <2>2. /\ wait_queue'[x] = Tail(wait_queue[x])
        /\ \A y \in Sem : y # x => wait_queue'[y] = wait_queue[y]
    BY <2>1 DEF SemOK
  <2>3. wait_queue[x] \in Seq(Phil)
    BY DEF SemOK
  <2>4. /\ wait_queue'[x] \in Seq(Phil) /\ Head(wait_queue[x]) \in Waiters(x)
        /\ Waiters(x)' = Waiters(x) \ {Head(wait_queue[x])}
        /\ \A k, m \in DOMAIN wait_queue'[x] : wait_queue'[x][k] = wait_queue'[x][m] => k = m
    <3>1. \A k, m \in DOMAIN wait_queue[x] : wait_queue[x][k] = wait_queue[x][m] => k = m
      BY DEF SemOK
    <3> DEFINE q == wait_queue[x]
    <3>2. /\ Tail(q) \in Seq(Phil)
          /\ Head(q) \in {q[k] : k \in 1..Len(q)}
          /\ {Tail(q)[k] : k \in 1..Len(Tail(q))} = {q[k] : k \in 1..Len(q)} \ {Head(q)}
          /\ \A k, m \in DOMAIN Tail(q) : Tail(q)[k] = Tail(q)[m] => k = m
      <4> HIDE DEF q
      <4> q \in Seq(Phil) /\ q # <<>> /\ \A k, m \in DOMAIN q : q[k] = q[m] => k = m
        BY <1>2, <2>3, <3>1 DEF q
      <4> QED BY Served
    <3>3. Waiters(x) = {q[k] : k \in 1..Len(q)}
      BY DEF Waiters
    <3>4. Waiters(x)' = {Tail(q)[k] : k \in 1..Len(Tail(q))}
      BY <2>2 DEF Waiters
    <3>5. QED
      BY <2>2, <3>2, <3>3, <3>4
  <2>5. \A y \in Sem : y # x => Waiters(y)' = Waiters(y)
    BY <2>2 DEF Waiters
  <2>6. wait_queue' \in [Sem -> Seq(Phil)]
    BY <2>1, <2>2, <2>4 DEF SemOK
  <2>7. SemOK'
    BY <2>1, <2>2, <2>4, <2>5, <2>6 DEF SemOK
  <2>8. QED
    BY <2>1, <2>4, <2>5, <2>7
<1>3. QED
  BY <1>1, <1>2
-----------------------------------------------------------------------------
(* What the invariant says of a thread that can run. *)

\* Whoever leaves the semaphores alone keeps what is known of them.
LEMMA SameSem ==
  ASSUME SemOK, UNCHANGED semVars
  PROVE  /\ SemOK'
         /\ \A x \in Sem : value'[x] = value[x] /\ Waiters(x)' = Waiters(x)
<1>1. value' = value /\ wait_queue' = wait_queue
  BY DEF semVars
<1>2. \A x : Waiters(x)' = Waiters(x)
  BY <1>1 DEF Waiters
<1>3. QED
  BY <1>1, <1>2 DEF SemOK

\* Only philosophers are in the queues.
LEMMA QueuedIsPhil ==
  ASSUME SemOK, NEW x \in Sem
  PROVE  Waiters(x) \subseteq Phil
<1>1. wait_queue[x] \in Seq(Phil)
  BY DEF SemOK
<1>2. \A k \in 1..Len(wait_queue[x]) : wait_queue[x][k] \in Phil
  BY <1>1
<1>3. QED
  BY <1>2 DEF Waiters

\* A thread that is ready is in no queue.
LEMMA Unblocked ==
  ASSUME QueueOK, NEW i \in Phil, i \in ready
  PROVE  i \notin Waiters(mutex) /\ \A j \in Phil : i \notin Waiters(s(j))
BY DEF QueueOK

\* Only a thread whose place says so is in a queue.
LEMMA QueuedWhere ==
  ASSUME QueueOK, NEW i \in Phil
  PROVE  /\ pc[i] \notin {"hungry", "putdown"} => i \notin Waiters(mutex)
         /\ pc[i] # "eat" => \A j \in Phil : i \notin Waiters(s(j))
BY DEF QueueOK

\* The thread in the section is alone there, and nobody else is about to test.
LEMMA Alone ==
  ASSUME QueueOK, SectionOK, NEW i \in Phil, InSection(i)
  PROVE  /\ value[mutex] = 0
         /\ \A j \in Phil : j # i =>
               ~InSection(j) /\ pc[j] \notin {"test", "release", "testleft", "testright", "leave"}
<1>1. value[mutex] = 0 /\ \A j \in Phil : InSection(j) => j = i
  BY DEF SectionOK
<1>2. \A j \in Phil : pc[j] \in {"test", "release", "testleft", "testright", "leave"} => InSection(j)
  BY QueuedWhere DEF InSection
<1>3. QED
  BY <1>1, <1>2

\* A place moved alone.
LEMMA Moved ==
  ASSUME VarsOK, NEW i \in Phil, NEW place \in Places, GoTo(i, place)
  PROVE  /\ pc' \in [Phil -> Places]
         /\ pc'[i] = place
         /\ \A j \in Phil : j # i => pc'[j] = pc[j]
BY DEF VarsOK, GoTo

\* A place of the table was set.
LEMMA WasSet ==
  ASSUME VarsOK, NEW i \in Phil, NEW st \in {"THINKING", "HUNGRY", "EATING"}, Set(i, st)
  PROVE  /\ state_sema' \in [Phil -> {"THINKING", "HUNGRY", "EATING"}]
         /\ state_sema'[i] = st
         /\ \A j \in Phil : j # i => state_sema'[j] = state_sema[j]
BY DEF VarsOK, Set

\* A step of thread i, which is in no queue, leaves the queues as they are.
LEMMA QueueKept ==
  ASSUME SemOK, QueueOK, NEW i \in Phil,
         \A x \in Sem : value'[x] = value[x] /\ Waiters(x)' = Waiters(x),
         \A k \in Phil : k # i => pc'[k] = pc[k],
         i \notin Waiters(mutex) /\ \A j \in Phil : i \notin Waiters(s(j)),
         ready' \subseteq ready \cup {i}
  PROVE  QueueOK'
<1>1. Waiters(mutex)' = Waiters(mutex) /\ \A j \in Phil : Waiters(s(j))' = Waiters(s(j))
  BY SemNames
<1>2. ASSUME NEW k \in Waiters(mutex)
      PROVE  pc'[k] \in {"hungry", "putdown"} /\ k \notin ready'
  <2>1. k \in Phil /\ k # i
    BY <1>2, QueuedIsPhil, SemNames
  <2>2. QED
    BY <1>2, <2>1 DEF QueueOK
<1>3. ASSUME NEW j \in Phil, NEW k \in Waiters(s(j))
      PROVE  k = j /\ pc'[k] = "eat" /\ k \notin ready'
  <2>1. k \in Phil /\ k # i
    BY <1>3, QueuedIsPhil, SemNames
  <2>2. QED
    BY <1>3, <2>1 DEF QueueOK
<1>4. QED
  BY <1>1, <1>2, <1>3 DEF QueueOK

\* What PlaceOK(k) looks at.
LEMMA PlaceKept ==
  ASSUME NEW k \in Phil, PlaceOK(k), pc'[k] = pc[k], state_sema'[k] = state_sema[k],
         value'[s(k)] = value[s(k)], Waiters(s(k))' = Waiters(s(k))
  PROVE  PlaceOK(k)'
BY DEF PlaceOK, Hungry, HasToken, TookToken

-----------------------------------------------------------------------------
(* The steps outside the section. *)

\* do_sleep, and the end of a thread: no queue is touched.
LEMMA SleepStep ==
  ASSUME IInv, NEW i \in Phil, think(i) \/ eat(i)
  PROVE  IInv'
<1>0. SemOK /\ VarsOK /\ QueueOK /\ SectionOK /\ (\A k \in Phil : PlaceOK(k)) /\ TableOK
      /\ (\A k \in Phil : Remembered(k))
  BY DEF IInv
<1>1. /\ i \in ready /\ ready' = ready \ {i} /\ running' = running
      /\ state_sema' = state_sema /\ UNCHANGED semVars
      /\ pc[i] = "think" \/ pc[i] = "eat"
      /\ \/ pc[i] = "think" /\ (GoTo(i, "take") \/ GoTo(i, "quit"))
         \/ pc[i] = "eat" /\ GoTo(i, "put")
  BY DEF think, eat, At
<1>2. iter' \in [Phil -> 0..TIMES]
  BY <1>0, PhilAssumption DEF think, eat, VarsOK
<1>3. /\ pc' \in [Phil -> Places] /\ \A j \in Phil : j # i => pc'[j] = pc[j]
      /\ \/ pc[i] = "think" /\ pc'[i] \in {"take", "quit"}
         \/ pc[i] = "eat" /\ pc'[i] = "put"
  BY <1>0, <1>1, Moved DEF Places
<1>4. SemOK' /\ \A x \in Sem : value'[x] = value[x] /\ Waiters(x)' = Waiters(x)
  BY <1>0, <1>1, SameSem
<1>5. i \notin Waiters(mutex) /\ \A j \in Phil : i \notin Waiters(s(j))
  BY <1>0, <1>1, Unblocked
<1>6. VarsOK'
  BY <1>0, <1>1, <1>2, <1>3 DEF VarsOK
<1>7. QueueOK'
  BY <1>0, <1>1, <1>3, <1>4, <1>5, QueueKept
<1>8. \A j \in Phil : InSection(j)' <=> InSection(j)
  BY <1>1, <1>3, <1>4, SemNames DEF InSection
<1>9. SectionOK'
  BY <1>0, <1>4, <1>8, SemNames DEF SectionOK
<1>10. ASSUME NEW k \in Phil
       PROVE  PlaceOK(k)'
  <2>1. value'[s(k)] = value[s(k)] /\ Waiters(s(k))' = Waiters(s(k))
    BY <1>4, SemNames
  <2>2. PlaceOK(k)
    BY <1>0
  <2>3. CASE k = i
    BY <1>1, <1>3, <1>5, <2>1, <2>2, <2>3 DEF PlaceOK, Hungry, HasToken, TookToken
  <2>4. CASE k # i
    BY <1>1, <1>3, <2>1, <2>2, <2>4, PlaceKept
  <2>5. QED
    BY <2>3, <2>4
<1>11. TableOK'
  BY <1>0, <1>1 DEF TableOK
<1>12. ASSUME NEW k \in Phil
       PROVE  Remembered(k)'
  <2>1. ToBeTested(k) => ToBeTested(k)'
    BY <1>1, <1>3, <1>8 DEF ToBeTested
  <2>2. QED
    BY <1>0, <1>1, <2>1 DEF Remembered
<1>13. QED
  BY <1>4, <1>6, <1>7, <1>9, <1>10, <1>11, <1>12 DEF IInv

\* A timer readies its thread.
LEMMA WakeStep ==
  ASSUME IInv, NEW i \in Phil, wake(i)
  PROVE  IInv'
<1>0. SemOK /\ VarsOK /\ QueueOK /\ SectionOK /\ (\A k \in Phil : PlaceOK(k)) /\ TableOK
      /\ (\A k \in Phil : Remembered(k))
  BY DEF IInv
<1>1. /\ pc[i] \in {"take", "put"} /\ ready' = ready \cup {i} /\ pc' = pc /\ running' = running
      /\ state_sema' = state_sema /\ iter' = iter /\ UNCHANGED semVars
  BY DEF wake
<1>2. SemOK' /\ \A x \in Sem : value'[x] = value[x] /\ Waiters(x)' = Waiters(x)
  BY <1>0, <1>1, SameSem
<1>3. i \notin Waiters(mutex) /\ \A j \in Phil : i \notin Waiters(s(j))
  BY <1>0, <1>1, QueuedWhere
<1>4. VarsOK'
  BY <1>0, <1>1 DEF VarsOK
<1>5. QueueOK'
  BY <1>0, <1>1, <1>2, <1>3, QueueKept
<1>6. \A j \in Phil : InSection(j)' <=> InSection(j)
  BY <1>1, <1>2, SemNames DEF InSection
<1>7. SectionOK'
  BY <1>0, <1>2, <1>6, SemNames DEF SectionOK
<1>8. \A k \in Phil : PlaceOK(k)'
  BY <1>0, <1>1, <1>2, SemNames, PlaceKept
<1>9. TableOK'
  BY <1>0, <1>1 DEF TableOK
<1>10. \A k \in Phil : Remembered(k)'
  BY <1>0, <1>1, <1>6 DEF Remembered, ToBeTested
<1>11. QED
  BY <1>2, <1>4, <1>5, <1>7, <1>8, <1>9, <1>10 DEF IInv

\* schedule(), or nothing at all.
LEMMA SwitchStep ==
  ASSUME IInv, switch \/ UNCHANGED vars
  PROVE  IInv'
<1>0. SemOK /\ VarsOK /\ QueueOK /\ SectionOK /\ (\A k \in Phil : PlaceOK(k)) /\ TableOK
      /\ (\A k \in Phil : Remembered(k))
  BY DEF IInv
<1>1. /\ ready' = ready /\ pc' = pc /\ state_sema' = state_sema /\ iter' = iter
      /\ UNCHANGED semVars /\ running' \in Phil
  BY <1>0 DEF switch, Switch, vars, VarsOK, semVars
<1>2. SemOK' /\ \A x \in Sem : value'[x] = value[x] /\ Waiters(x)' = Waiters(x)
  BY <1>0, <1>1, SameSem
<1>4. VarsOK'
  BY <1>0, <1>1 DEF VarsOK
<1>5. QueueOK'
  BY <1>0, <1>1, <1>2, SemNames DEF QueueOK
<1>6. \A j \in Phil : InSection(j)' <=> InSection(j)
  BY <1>1, <1>2, SemNames DEF InSection
<1>7. SectionOK'
  BY <1>0, <1>2, <1>6, SemNames DEF SectionOK
<1>8. \A k \in Phil : PlaceOK(k)'
  BY <1>0, <1>1, <1>2, SemNames, PlaceKept
<1>9. TableOK'
  BY <1>0, <1>1 DEF TableOK
<1>10. \A k \in Phil : Remembered(k)'
  BY <1>0, <1>1, <1>6 DEF Remembered, ToBeTested
<1>11. QED
  BY <1>2, <1>4, <1>5, <1>7, <1>8, <1>9, <1>10 DEF IInv

-----------------------------------------------------------------------------
(* The steps in the section that set a place of the table. *)

\* phi_take_forks_sema says that the philosopher is hungry.
LEMMA HungryStep ==
  ASSUME IInv, NEW i \in Phil, hungry(i)
  PROVE  IInv'
<1>0. SemOK /\ VarsOK /\ QueueOK /\ SectionOK /\ (\A k \in Phil : PlaceOK(k)) /\ TableOK
      /\ (\A k \in Phil : Remembered(k))
  BY DEF IInv
<1>1. /\ i \in ready /\ pc[i] = "hungry" /\ ready' = ready /\ running' = running
      /\ iter' = iter /\ UNCHANGED semVars
  BY DEF hungry, At
<1>2. SemOK' /\ \A x \in Sem : value'[x] = value[x] /\ Waiters(x)' = Waiters(x)
  BY <1>0, <1>1, SameSem
<1>3. i \notin Waiters(mutex) /\ \A j \in Phil : i \notin Waiters(s(j))
  BY <1>0, <1>1, Unblocked
<1>4. /\ pc' \in [Phil -> Places] /\ pc'[i] = "test" /\ \A j \in Phil : j # i => pc'[j] = pc[j]
  BY <1>0, Moved DEF hungry, Places
<1>5. /\ state_sema' \in [Phil -> {"THINKING", "HUNGRY", "EATING"}] /\ state_sema'[i] = "HUNGRY"
      /\ \A j \in Phil : j # i => state_sema'[j] = state_sema[j]
  BY <1>0, WasSet DEF hungry
<1>6. state_sema[i] = "THINKING" /\ value[s(i)] = 0
  BY <1>0, <1>1 DEF PlaceOK
<1>7. VarsOK'
  BY <1>0, <1>1, <1>4, <1>5 DEF VarsOK
<1>8. QueueOK'
  BY <1>0, <1>1, <1>2, <1>3, <1>4, QueueKept
<1>9. \A j \in Phil : InSection(j)' <=> InSection(j)
  BY <1>1, <1>2, <1>4, SemNames DEF InSection
<1>10. SectionOK'
  BY <1>0, <1>2, <1>9, SemNames DEF SectionOK
<1>11. ASSUME NEW k \in Phil
       PROVE  PlaceOK(k)'
  <2>1. value'[s(k)] = value[s(k)] /\ Waiters(s(k))' = Waiters(s(k))
    BY <1>2, SemNames
  <2>2. CASE k = i
    BY <1>4, <1>5, <1>6, <2>1, <2>2 DEF PlaceOK, Hungry
  <2>3. CASE k # i
    BY <1>0, <1>4, <1>5, <2>1, <2>3, PlaceKept
  <2>4. QED
    BY <2>2, <2>3
<1>12. \A k \in Phil : state_sema'[k] = "EATING" <=> state_sema[k] = "EATING"
  BY <1>5, <1>6
<1>13. TableOK'
  BY <1>0, <1>12, Seats DEF TableOK
<1>14. ASSUME NEW k \in Phil
       PROVE  Remembered(k)'
  <2>1. CASE k = i
    BY <1>4, <2>1 DEF Remembered, ToBeTested
  <2>2. CASE k # i
    <3>1. ToBeTested(k) => ToBeTested(k)'
      BY <1>1, <1>4, <1>9, <2>2 DEF ToBeTested
    <3>2. QED
      BY <1>0, <1>5, <1>12, <2>2, <3>1, Seats DEF Remembered
  <2>3. QED
    BY <2>1, <2>2
<1>15. QED
  BY <1>2, <1>7, <1>8, <1>10, <1>11, <1>13, <1>14 DEF IInv

\* phi_put_forks_sema puts the forks down: the neighbours are tested next.
LEMMA PutdownStep ==
  ASSUME IInv, NEW i \in Phil, putdown(i)
  PROVE  IInv'
<1>0. SemOK /\ VarsOK /\ QueueOK /\ SectionOK /\ (\A k \in Phil : PlaceOK(k)) /\ TableOK
      /\ (\A k \in Phil : Remembered(k))
  BY DEF IInv
<1>1. /\ i \in ready /\ pc[i] = "putdown" /\ ready' = ready /\ running' = running
      /\ iter' = iter /\ UNCHANGED semVars
  BY DEF putdown, At
<1>2. SemOK' /\ \A x \in Sem : value'[x] = value[x] /\ Waiters(x)' = Waiters(x)
  BY <1>0, <1>1, SameSem
<1>3. i \notin Waiters(mutex) /\ \A j \in Phil : i \notin Waiters(s(j))
  BY <1>0, <1>1, Unblocked
<1>4. /\ pc' \in [Phil -> Places] /\ pc'[i] = "testleft" /\ \A j \in Phil : j # i => pc'[j] = pc[j]
  BY <1>0, Moved DEF putdown, Places
<1>5. /\ state_sema' \in [Phil -> {"THINKING", "HUNGRY", "EATING"}] /\ state_sema'[i] = "THINKING"
      /\ \A j \in Phil : j # i => state_sema'[j] = state_sema[j]
  BY <1>0, WasSet DEF putdown
<1>6. value[s(i)] = 0
  BY <1>0, <1>1 DEF PlaceOK, TookToken
<1>7. VarsOK'
  BY <1>0, <1>1, <1>4, <1>5 DEF VarsOK
<1>8. QueueOK'
  BY <1>0, <1>1, <1>2, <1>3, <1>4, QueueKept
<1>9. \A j \in Phil : InSection(j)' <=> InSection(j)
  BY <1>1, <1>2, <1>4, SemNames DEF InSection
<1>10. SectionOK'
  BY <1>0, <1>2, <1>9, SemNames DEF SectionOK
<1>11. ASSUME NEW k \in Phil
       PROVE  PlaceOK(k)'
  <2>1. value'[s(k)] = value[s(k)] /\ Waiters(s(k))' = Waiters(s(k))
    BY <1>2, SemNames
  <2>2. CASE k = i
    BY <1>4, <1>5, <1>6, <2>1, <2>2 DEF PlaceOK
  <2>3. CASE k # i
    BY <1>0, <1>4, <1>5, <2>1, <2>3, PlaceKept
  <2>4. QED
    BY <2>2, <2>3
<1>12. \A k \in Phil : state_sema'[k] = "EATING" => state_sema[k] = "EATING"
  BY <1>5
<1>13. TableOK'
  BY <1>0, <1>12, Seats DEF TableOK
<1>14. ASSUME NEW k \in Phil, state_sema'[k] = "HUNGRY"
       PROVE  \/ state_sema'[LEFT(k)] = "EATING" \/ state_sema'[RIGHT(k)] = "EATING"
              \/ ToBeTested(k)'
  <2>1. k # i /\ state_sema[k] = "HUNGRY"
    BY <1>5, <1>14
  <2>2. InSection(i)'
    BY <1>1, <1>3, <1>9 DEF InSection
  <2>3. ToBeTested(k) => ToBeTested(k)'
    BY <1>1, <1>4, <1>9, <2>1 DEF ToBeTested
  <2>4. CASE i \in {LEFT(k), RIGHT(k)}
    <3>1. k \in {LEFT(i), RIGHT(i)}
      BY <2>4, Seats
    <3>2. QED
      BY <1>4, <2>2, <3>1 DEF ToBeTested
  <2>5. CASE i \notin {LEFT(k), RIGHT(k)}
    BY <1>0, <1>5, <2>1, <2>3, <2>5, Seats DEF Remembered
  <2>6. QED
    BY <2>4, <2>5
<1>15. \A k \in Phil : Remembered(k)'
  BY <1>14 DEF Remembered
<1>16. QED
  BY <1>2, <1>7, <1>8, <1>10, <1>11, <1>13, <1>15 DEF IInv

-----------------------------------------------------------------------------
(* Entering and leaving the section. *)

\* down(mutex) lets the thread in, or queues it.
LEMMA EnterStep ==
  ASSUME IInv, NEW i \in Phil, take(i) \/ put(i)
  PROVE  IInv'
<1>0. SemOK /\ VarsOK /\ QueueOK /\ SectionOK /\ (\A k \in Phil : PlaceOK(k)) /\ TableOK
      /\ (\A k \in Phil : Remembered(k))
  BY DEF IInv
<1>1. /\ i \in ready /\ running' = running /\ iter' = iter /\ state_sema' = state_sema
      /\ down(i, mutex)
      /\ \/ pc[i] = "take" /\ GoTo(i, "hungry")
         \/ pc[i] = "put" /\ GoTo(i, "putdown")
  BY DEF take, put, At
<1>2. i \notin Waiters(mutex) /\ \A j \in Phil : i \notin Waiters(s(j))
  BY <1>0, <1>1, Unblocked
<1>3. /\ SemOK'
      /\ \A y \in Sem : y # mutex => value'[y] = value[y] /\ Waiters(y)' = Waiters(y)
      /\ \/ value[mutex] = 1 /\ value'[mutex] = 0 /\ Waiters(mutex)' = Waiters(mutex) /\ ready' = ready
         \/ /\ value[mutex] = 0 /\ value'[mutex] = 0
            /\ Waiters(mutex)' = Waiters(mutex) \cup {i} /\ ready' = ready \ {i}
  BY <1>0, <1>1, <1>2, DownEffect, SemNames
<1>4. /\ pc' \in [Phil -> Places] /\ \A j \in Phil : j # i => pc'[j] = pc[j]
      /\ \/ pc[i] = "take" /\ pc'[i] = "hungry"
         \/ pc[i] = "put" /\ pc'[i] = "putdown"
  BY <1>0, <1>1, Moved DEF Places
<1>5. \A j \in Phil : value'[s(j)] = value[s(j)] /\ Waiters(s(j))' = Waiters(s(j))
  BY <1>3, SemNames
<1>6. VarsOK'
  BY <1>0, <1>1, <1>3, <1>4 DEF VarsOK
<1>7. QueueOK'
  <2>1. ASSUME NEW k \in Waiters(mutex)'
        PROVE  pc'[k] \in {"hungry", "putdown"} /\ k \notin ready'
    <3>1. CASE k = i
      BY <1>2, <1>3, <1>4, <2>1, <3>1
    <3>2. CASE k # i
      <4>1. k \in Waiters(mutex) /\ k \in Phil
        BY <1>0, <1>3, <2>1, <3>2, QueuedIsPhil, SemNames
      <4>2. ready' \subseteq ready
        BY <1>3
      <4>3. QED
        BY <1>0, <1>4, <3>2, <4>1, <4>2 DEF QueueOK
    <3>3. QED
      BY <3>1, <3>2
  <2>2. ASSUME NEW j \in Phil, NEW k \in Waiters(s(j))
        PROVE  k = j /\ pc'[k] = "eat" /\ k \notin ready'
    <3>1. k = j /\ pc[k] = "eat" /\ k \notin ready
      BY <1>0, <2>2 DEF QueueOK
    <3>2. QED
      BY <1>1, <1>3, <1>4, <3>1
  <2>3. QED
    BY <1>5, <2>1, <2>2 DEF QueueOK
<1>8. \A j \in Phil : j # i => (InSection(j)' <=> InSection(j))
  BY <1>3, <1>4 DEF InSection
<1>9. SectionOK'
  <2>1. CASE value[mutex] = 1
    <3>1. \A j \in Phil : ~InSection(j)
      BY <1>0, <2>1 DEF SectionOK
    <3>2. QED
      BY <1>3, <1>8, <3>1 DEF SectionOK
  <2>2. CASE value[mutex] = 0
    <3>1. ~InSection(i)'
      BY <1>3, <2>2 DEF InSection
    <3>2. QED
      BY <1>0, <1>3, <1>8, <3>1 DEF SectionOK
  <2>3. QED
    BY <1>3, <2>1, <2>2
<1>10. ASSUME NEW k \in Phil
       PROVE  PlaceOK(k)'
  <2>1. CASE k = i
    <3>1. PlaceOK(i)
      BY <1>0
    <3>2. QED
      BY <1>1, <1>4, <1>5, <2>1, <3>1 DEF PlaceOK, TookToken
  <2>2. CASE k # i
    BY <1>0, <1>1, <1>4, <1>5, <2>2, PlaceKept
  <2>3. QED
    BY <2>1, <2>2
<1>11. TableOK'
  BY <1>0, <1>1 DEF TableOK
<1>12. ASSUME NEW k \in Phil
       PROVE  Remembered(k)'
  <2>1. ToBeTested(k) => ToBeTested(k)'
    BY <1>1, <1>4, <1>8 DEF ToBeTested
  <2>2. QED
    BY <1>0, <1>1, <2>1 DEF Remembered
<1>13. QED
  BY <1>3, <1>6, <1>7, <1>9, <1>10, <1>11, <1>12 DEF IInv

\* up(mutex) frees the section, or hands it to a waiter.
LEMMA LeaveStep ==
  ASSUME IInv, NEW i \in Phil, release(i) \/ leave(i)
  PROVE  IInv'
<1>0. SemOK /\ VarsOK /\ QueueOK /\ SectionOK /\ (\A k \in Phil : PlaceOK(k)) /\ TableOK
      /\ (\A k \in Phil : Remembered(k))
  BY DEF IInv
<1>1. /\ i \in ready /\ running' = running /\ iter' = iter /\ state_sema' = state_sema
      /\ up(mutex)
      /\ \/ pc[i] = "release" /\ GoTo(i, "getforks")
         \/ pc[i] = "leave" /\ GoTo(i, "think")
  BY DEF release, leave, At
<1>2. i \notin Waiters(mutex) /\ \A j \in Phil : i \notin Waiters(s(j))
  BY <1>0, <1>1, Unblocked
<1>3. InSection(i)
  BY <1>1, <1>2 DEF InSection
<1>4. value[mutex] = 0 /\ \A j \in Phil : j # i => ~InSection(j)
  BY <1>0, <1>3, Alone
<1>5. /\ SemOK'
      /\ \A y \in Sem : y # mutex => value'[y] = value[y] /\ Waiters(y)' = Waiters(y)
      /\ \/ /\ Waiters(mutex) = {} /\ Waiters(mutex)' = {} /\ value'[mutex] = 1 /\ ready' = ready
         \/ \E h \in Waiters(mutex) : /\ Waiters(mutex)' = Waiters(mutex) \ {h}
                                      /\ value'[mutex] = 0 /\ ready' = ready \cup {h}
  BY <1>0, <1>1, <1>4, UpEffect, SemNames
<1>6. /\ pc' \in [Phil -> Places] /\ \A j \in Phil : j # i => pc'[j] = pc[j]
      /\ \/ pc[i] = "release" /\ pc'[i] = "getforks"
         \/ pc[i] = "leave" /\ pc'[i] = "think"
  BY <1>0, <1>1, Moved DEF Places
<1>7. \A j \in Phil : value'[s(j)] = value[s(j)] /\ Waiters(s(j))' = Waiters(s(j))
  BY <1>5, SemNames
<1>8. Waiters(mutex) \subseteq Phil
  BY <1>0, QueuedIsPhil, SemNames
<1>9. VarsOK'
  <2>1. ready' \in SUBSET Phil
    BY <1>0, <1>5, <1>8 DEF VarsOK
  <2>2. QED
    BY <1>0, <1>1, <1>6, <2>1 DEF VarsOK
<1>10. QueueOK'
  <2>1. ASSUME NEW k \in Waiters(mutex)'
        PROVE  pc'[k] \in {"hungry", "putdown"} /\ k \notin ready'
    <3>1. k \in Waiters(mutex) /\ k \in Phil /\ k # i
      BY <1>2, <1>5, <1>8, <2>1
    <3>2. pc[k] \in {"hungry", "putdown"} /\ k \notin ready
      BY <1>0, <3>1 DEF QueueOK
    <3>3. QED
      BY <1>5, <1>6, <2>1, <3>1, <3>2
  <2>2. ASSUME NEW j \in Phil, NEW k \in Waiters(s(j))
        PROVE  k = j /\ pc'[k] = "eat" /\ k \notin ready'
    <3>1. k = j /\ pc[k] = "eat" /\ k \notin ready
      BY <1>0, <2>2 DEF QueueOK
    <3>2. k \notin Waiters(mutex)
      BY <1>0, <3>1, QueuedWhere
    <3>3. QED
      BY <1>1, <1>5, <1>6, <3>1, <3>2
  <2>3. QED
    BY <1>7, <2>1, <2>2 DEF QueueOK
<1>11. ~InSection(i)'
  BY <1>6 DEF InSection
<1>12. SectionOK'
  <2>1. CASE Waiters(mutex) = {} /\ Waiters(mutex)' = {}
    <3>1. \A j \in Phil : ~InSection(j)'
      BY <1>4, <1>6, <1>11, <2>1 DEF InSection
    <3>2. QED
      BY <3>1 DEF SectionOK
  <2>2. ASSUME NEW h \in Waiters(mutex), Waiters(mutex)' = Waiters(mutex) \ {h}, value'[mutex] = 0
        PROVE  SectionOK'
    <3>1. \A j \in Phil : j # h => ~InSection(j)'
      BY <1>4, <1>6, <1>11, <2>2 DEF InSection
    <3>2. QED
      BY <2>2, <3>1 DEF SectionOK
  <2>3. QED
    BY <1>5, <2>1, <2>2
<1>13. ASSUME NEW k \in Phil
       PROVE  PlaceOK(k)'
  <2>1. CASE k = i
    <3>1. PlaceOK(i)
      BY <1>0
    <3>2. QED
      BY <1>1, <1>6, <1>7, <2>1, <3>1 DEF PlaceOK, HasToken, Hungry
  <2>2. CASE k # i
    BY <1>0, <1>1, <1>6, <1>7, <2>2, PlaceKept
  <2>3. QED
    BY <2>1, <2>2
<1>14. TableOK'
  BY <1>0, <1>1 DEF TableOK
<1>15. ASSUME NEW k \in Phil
       PROVE  Remembered(k)'
  <2>1. ToBeTested(k) => FALSE
    BY <1>0, <1>1, <1>3, <1>4, Alone DEF ToBeTested
  <2>2. QED
    BY <1>0, <1>1, <2>1 DEF Remembered
<1>16. QED
  BY <1>5, <1>9, <1>10, <1>12, <1>13, <1>14, <1>15 DEF IInv

\* The philosopher takes its token, or waits for it.
LEMMA GetforksStep ==
  ASSUME IInv, NEW i \in Phil, getforks(i)
  PROVE  IInv'
<1>0. SemOK /\ VarsOK /\ QueueOK /\ SectionOK /\ (\A k \in Phil : PlaceOK(k)) /\ TableOK
      /\ (\A k \in Phil : Remembered(k))
  BY DEF IInv
<1>1. /\ i \in ready /\ running' = running /\ iter' = iter /\ state_sema' = state_sema
      /\ down(i, s(i)) /\ pc[i] = "getforks" /\ GoTo(i, "eat")
  BY DEF getforks, At
<1>2. i \notin Waiters(mutex) /\ \A j \in Phil : i \notin Waiters(s(j))
  BY <1>0, <1>1, Unblocked
<1>3. s(i) \in Sem /\ s(i) # mutex /\ mutex \in Sem
  BY SemNames
<1>4. /\ SemOK'
      /\ \A y \in Sem : y # s(i) => value'[y] = value[y] /\ Waiters(y)' = Waiters(y)
      /\ \/ /\ value[s(i)] = 1 /\ value'[s(i)] = 0 /\ Waiters(s(i))' = Waiters(s(i)) /\ ready' = ready
         \/ /\ value[s(i)] = 0 /\ value'[s(i)] = 0
            /\ Waiters(s(i))' = Waiters(s(i)) \cup {i} /\ ready' = ready \ {i}
  BY <1>0, <1>1, <1>2, <1>3, DownEffect
<1>5. /\ pc' \in [Phil -> Places] /\ pc'[i] = "eat" /\ \A j \in Phil : j # i => pc'[j] = pc[j]
  BY <1>0, <1>1, Moved DEF Places
<1>6. Hungry(i) \/ HasToken(i)
  BY <1>0, <1>1 DEF PlaceOK
<1>7. /\ value'[mutex] = value[mutex] /\ Waiters(mutex)' = Waiters(mutex)
      /\ \A j \in Phil : j # i => value'[s(j)] = value[s(j)] /\ Waiters(s(j))' = Waiters(s(j))
  BY <1>3, <1>4, SemNames
<1>8. ready' \subseteq ready
  BY <1>4
<1>9. VarsOK'
  BY <1>0, <1>1, <1>5, <1>8 DEF VarsOK
<1>10. QueueOK'
  <2>1. ASSUME NEW k \in Waiters(mutex)
        PROVE  pc'[k] \in {"hungry", "putdown"} /\ k \notin ready'
    <3>1. k \in Phil /\ k # i
      BY <1>0, <1>2, <2>1, QueuedIsPhil, SemNames
    <3>2. QED
      BY <1>0, <1>5, <1>8, <2>1, <3>1 DEF QueueOK
  <2>2. ASSUME NEW j \in Phil, NEW k \in Waiters(s(j))'
        PROVE  k = j /\ pc'[k] = "eat" /\ k \notin ready'
    <3>1. CASE k \in Waiters(s(j))
      <4>1. k = j /\ pc[k] = "eat" /\ k \notin ready
        BY <1>0, <3>1 DEF QueueOK
      <4>2. QED
        BY <1>1, <1>5, <1>8, <4>1
    <3>2. CASE k \notin Waiters(s(j))
      <4>1. j = i /\ k = i
        BY <1>4, <1>7, <2>2, <3>2
      <4>2. i \notin ready'
        BY <1>4, <2>2, <3>2, <4>1
      <4>3. QED
        BY <1>5, <4>1, <4>2
    <3>3. QED
      BY <3>1, <3>2
  <2>3. QED
    BY <1>7, <2>1, <2>2 DEF QueueOK
<1>11. \A j \in Phil : InSection(j)' <=> InSection(j)
  BY <1>1, <1>5, <1>7 DEF InSection
<1>12. SectionOK'
  BY <1>0, <1>7, <1>11 DEF SectionOK
<1>13. ASSUME NEW k \in Phil
       PROVE  PlaceOK(k)'
  <2>1. CASE k = i
    <3>1. CASE value[s(i)] = 1
      <4>1. i \notin Waiters(s(i))' /\ value'[s(i)] = 0 /\ state_sema'[i] = "EATING"
        BY <1>1, <1>2, <1>4, <1>6, <3>1 DEF Hungry, HasToken
      <4>2. QED
        BY <1>5, <2>1, <4>1 DEF PlaceOK, TookToken
    <3>2. CASE value[s(i)] = 0
      <4>1. i \in Waiters(s(i))' /\ value'[s(i)] = 0 /\ state_sema'[i] = "HUNGRY"
        BY <1>1, <1>4, <1>6, <3>2 DEF Hungry, HasToken
      <4>2. QED
        BY <1>5, <2>1, <4>1 DEF PlaceOK, Hungry
    <3>3. QED
      BY <1>4, <3>1, <3>2
  <2>2. CASE k # i
    BY <1>0, <1>1, <1>5, <1>7, <2>2, PlaceKept
  <2>3. QED
    BY <2>1, <2>2
<1>14. TableOK'
  BY <1>0, <1>1 DEF TableOK
<1>15. ASSUME NEW k \in Phil
       PROVE  Remembered(k)'
  <2>1. ToBeTested(k) => ToBeTested(k)'
    BY <1>1, <1>5, <1>11 DEF ToBeTested
  <2>2. QED
    BY <1>0, <1>1, <2>1 DEF Remembered
<1>16. QED
  BY <1>4, <1>9, <1>10, <1>12, <1>13, <1>14, <1>15 DEF IInv

-----------------------------------------------------------------------------
(* The test: philosopher i, in the section, looks whether j may eat. *)

Tests(i, j) == /\ i \in ready /\ phi_test_sema(j)
               /\ UNCHANGED <<running, iter>>
               /\ \/ pc[i] = "test" /\ j = i /\ GoTo(i, "release")
                  \/ pc[i] = "testleft" /\ j = LEFT(i) /\ GoTo(i, "testright")
                  \/ pc[i] = "testright" /\ j = RIGHT(i) /\ GoTo(i, "leave")

\* A hungry philosopher is on its way to its semaphore, or blocked in it.
LEMMA HungryWhere ==
  ASSUME QueueOK, SectionOK, NEW i \in Phil, InSection(i), NEW j \in Phil, PlaceOK(j),
         state_sema[j] = "HUNGRY",
         pc[i] \in {"test", "testleft", "testright"}, pc[i] = "test" => j = i,
         VarsOK
  PROVE  /\ value[s(j)] = 0
         /\ \/ j = i /\ pc[i] = "test"
            \/ j # i /\ pc[j] = "getforks"
            \/ j # i /\ pc[j] = "eat" /\ j \in Waiters(s(j))
<1>1. j # i => pc[j] \notin {"test", "release", "testleft", "testright", "leave"}
  BY Alone
<1>2. pc[j] \in Places
  BY DEF VarsOK
<1>3. pc[j] \in {"test", "release", "getforks", "eat"}
  BY <1>2 DEF PlaceOK, TookToken, Places
<1>4. CASE pc[j] = "test"
  BY <1>1, <1>4 DEF PlaceOK, Hungry
<1>5. CASE pc[j] = "getforks"
  BY <1>5 DEF PlaceOK, Hungry, HasToken
<1>6. CASE pc[j] = "eat"
  BY <1>6 DEF PlaceOK, Hungry, TookToken
<1>7. CASE pc[j] = "release"
  BY <1>1, <1>7
<1>8. QED
  BY <1>3, <1>4, <1>5, <1>6, <1>7

\* What the test does to the table and the queues.
LEMMA TestEffect ==
  ASSUME IInv, NEW i \in Phil, NEW j \in Phil, Tests(i, j)
  PROVE  /\ SemOK'
         /\ value'[mutex] = value[mutex] /\ Waiters(mutex)' = Waiters(mutex)
         /\ \A k \in Phil : k # j => value'[s(k)] = value[s(k)] /\ Waiters(s(k))' = Waiters(s(k))
         /\ state_sema' \in [Phil -> {"THINKING", "HUNGRY", "EATING"}]
         /\ \A k \in Phil : k # j => state_sema'[k] = state_sema[k]
         /\ \/ /\ MayEat(j) /\ state_sema'[j] = "EATING"
               /\ \/ /\ pc[j] # "eat" /\ Waiters(s(j))' = Waiters(s(j)) /\ Waiters(s(j)) = {}
                     /\ value'[s(j)] = 1 /\ ready' = ready
                  \/ /\ pc[j] = "eat" /\ j # i /\ Waiters(s(j)) = {j} /\ Waiters(s(j))' = {}
                     /\ value'[s(j)] = 0 /\ ready' = ready \cup {j}
            \/ /\ ~MayEat(j) /\ state_sema'[j] = state_sema[j] /\ ready' = ready
               /\ value'[s(j)] = value[s(j)] /\ Waiters(s(j))' = Waiters(s(j))
<1>0. SemOK /\ VarsOK /\ QueueOK /\ SectionOK /\ (\A k \in Phil : PlaceOK(k)) /\ TableOK
      /\ (\A k \in Phil : Remembered(k))
  BY DEF IInv
<1>1. /\ i \in ready /\ running' = running /\ iter' = iter
      /\ pc[i] \in {"test", "testleft", "testright"}
      /\ pc[i] = "test" => j = i
      /\ pc[i] = "testright" => j = RIGHT(i)
      /\ pc[i] = "testleft" => j = LEFT(i)
      /\ pc[i] # "test" => j # i
  BY Seats DEF Tests
<1>2. i \notin Waiters(mutex) /\ \A k \in Phil : i \notin Waiters(s(k))
  BY <1>0, <1>1, Unblocked
<1>3. InSection(i)
  BY <1>1, <1>2 DEF InSection
<1>4. s(j) \in Sem /\ s(j) # mutex /\ mutex \in Sem
  BY SemNames
<1>5. CASE MayEat(j)
  <2>1. Set(j, "EATING") /\ up(s(j))
    BY <1>5 DEF Tests, phi_test_sema
  <2>2. /\ state_sema' \in [Phil -> {"THINKING", "HUNGRY", "EATING"}] /\ state_sema'[j] = "EATING"
        /\ \A k \in Phil : k # j => state_sema'[k] = state_sema[k]
    BY <1>0, <2>1, WasSet
  <2>3. /\ value[s(j)] = 0
        /\ \/ j = i /\ pc[i] = "test"
           \/ j # i /\ pc[j] = "getforks"
           \/ j # i /\ pc[j] = "eat" /\ j \in Waiters(s(j))
    <3>1. state_sema[j] = "HUNGRY"
      BY <1>5 DEF MayEat
    <3>2. QED
      BY <1>0, <1>1, <1>3, <3>1, HungryWhere
  <2>4. /\ SemOK'
        /\ \A y \in Sem : y # s(j) => value'[y] = value[y] /\ Waiters(y)' = Waiters(y)
        /\ \/ /\ Waiters(s(j)) = {} /\ Waiters(s(j))' = {} /\ value'[s(j)] = 1 /\ ready' = ready
           \/ \E h \in Waiters(s(j)) : /\ Waiters(s(j))' = Waiters(s(j)) \ {h}
                                       /\ value'[s(j)] = 0 /\ ready' = ready \cup {h}
    BY <1>0, <1>4, <2>1, <2>3, UpEffect
  <2>5. \A h \in Waiters(s(j)) : h = j /\ pc[j] = "eat"
    BY <1>0 DEF QueueOK
  <2>6. \/ /\ pc[j] # "eat" /\ Waiters(s(j))' = Waiters(s(j)) /\ Waiters(s(j)) = {}
           /\ value'[s(j)] = 1 /\ ready' = ready
        \/ /\ pc[j] = "eat" /\ j # i /\ Waiters(s(j)) = {j} /\ Waiters(s(j))' = {}
           /\ value'[s(j)] = 0 /\ ready' = ready \cup {j}
    <3>1. CASE Waiters(s(j)) = {}
      BY <2>3, <2>4, <3>1
    <3>2. CASE Waiters(s(j)) # {}
      <4>1. Waiters(s(j)) = {j} /\ pc[j] = "eat"
        BY <2>5, <3>2
      <4>2. j # i
        BY <1>2, <4>1
      <4>3. QED
        BY <2>4, <4>1, <4>2
    <3>3. QED
      BY <3>1, <3>2
  <2>7. /\ value'[mutex] = value[mutex] /\ Waiters(mutex)' = Waiters(mutex)
        /\ \A k \in Phil : k # j => value'[s(k)] = value[s(k)] /\ Waiters(s(k))' = Waiters(s(k))
    BY <1>4, <2>4, SemNames
  <2>8. QED
    BY <1>5, <2>2, <2>4, <2>6, <2>7
<1>6. CASE ~MayEat(j)
  <2>1. state_sema' = state_sema /\ ready' = ready /\ UNCHANGED semVars
    BY <1>6 DEF Tests, phi_test_sema
  <2>2. SemOK' /\ \A x \in Sem : value'[x] = value[x] /\ Waiters(x)' = Waiters(x)
    BY <1>0, <2>1, SameSem
  <2>3. state_sema' \in [Phil -> {"THINKING", "HUNGRY", "EATING"}]
    BY <1>0, <2>1 DEF VarsOK
  <2>4. QED
    BY <1>6, <2>1, <2>2, <2>3, SemNames
<1>7. QED
  BY <1>5, <1>6

\* The test keeps the invariant.
LEMMA TestStep ==
  ASSUME IInv, NEW i \in Phil, NEW j \in Phil, Tests(i, j)
  PROVE  IInv'
<1>0. SemOK /\ VarsOK /\ QueueOK /\ SectionOK /\ (\A k \in Phil : PlaceOK(k)) /\ TableOK
      /\ (\A k \in Phil : Remembered(k))
  BY DEF IInv
<1>1. /\ i \in ready /\ running' = running /\ iter' = iter
      /\ pc[i] \in {"test", "testleft", "testright"}
      /\ pc[i] = "test" => j = i
      /\ pc[i] = "testright" => j = RIGHT(i)
      /\ pc[i] = "testleft" => j = LEFT(i)
      /\ pc[i] # "test" => j # i
  BY Seats DEF Tests
<1>2. i \notin Waiters(mutex) /\ \A k \in Phil : i \notin Waiters(s(k))
  BY <1>0, <1>1, Unblocked
<1>3. InSection(i)
  BY <1>1, <1>2 DEF InSection
<1>4. /\ value[mutex] = 0
      /\ \A k \in Phil : k # i =>
            ~InSection(k) /\ pc[k] \notin {"test", "release", "testleft", "testright", "leave"}
  BY <1>0, <1>3, Alone
<1>5. /\ pc' \in [Phil -> Places] /\ \A k \in Phil : k # i => pc'[k] = pc[k]
      /\ \/ pc[i] = "test" /\ pc'[i] = "release"
         \/ pc[i] = "testleft" /\ pc'[i] = "testright"
         \/ pc[i] = "testright" /\ pc'[i] = "leave"
  BY <1>0, Moved DEF Tests, Places
<1>6. s(j) \in Sem /\ s(j) # mutex /\ mutex \in Sem
  BY SemNames
<1>7. /\ SemOK'
      /\ value'[mutex] = value[mutex] /\ Waiters(mutex)' = Waiters(mutex)
      /\ \A k \in Phil : k # j => value'[s(k)] = value[s(k)] /\ Waiters(s(k))' = Waiters(s(k))
      /\ state_sema' \in [Phil -> {"THINKING", "HUNGRY", "EATING"}]
      /\ \A k \in Phil : k # j => state_sema'[k] = state_sema[k]
      /\ \/ /\ MayEat(j) /\ state_sema'[j] = "EATING"
            /\ \/ /\ pc[j] # "eat" /\ Waiters(s(j))' = Waiters(s(j)) /\ Waiters(s(j)) = {}
                  /\ value'[s(j)] = 1 /\ ready' = ready
               \/ /\ pc[j] = "eat" /\ j # i /\ Waiters(s(j)) = {j} /\ Waiters(s(j))' = {}
                  /\ value'[s(j)] = 0 /\ ready' = ready \cup {j}
         \/ /\ ~MayEat(j) /\ state_sema'[j] = state_sema[j] /\ ready' = ready
            /\ value'[s(j)] = value[s(j)] /\ Waiters(s(j))' = Waiters(s(j))
  BY TestEffect
<1>8. VarsOK'
  <2>1. ready' \in SUBSET Phil
    BY <1>0, <1>7 DEF VarsOK
  <2>2. QED
    BY <1>0, <1>1, <1>5, <1>7, <2>1 DEF VarsOK
<1>9. QueueOK'
  <2>1. ready' \subseteq ready \cup {j} /\ (pc[j] # "eat" => ready' = ready)
    BY <1>7
  <2>2. ASSUME NEW k \in Waiters(mutex)
        PROVE  pc'[k] \in {"hungry", "putdown"} /\ k \notin ready'
    <3>1. k \in Phil /\ k # i
      BY <1>0, <1>2, <2>2, QueuedIsPhil, SemNames
    <3>2. pc[k] \in {"hungry", "putdown"} /\ k \notin ready
      BY <1>0, <2>2 DEF QueueOK
    <3>3. QED
      BY <1>5, <2>1, <3>1, <3>2
  <2>3. ASSUME NEW m \in Phil, NEW k \in Waiters(s(m))'
        PROVE  k = m /\ pc'[k] = "eat" /\ k \notin ready'
    <3>1. k \in Waiters(s(m)) /\ (m = j => ready' = ready)
      BY <1>7, <2>3
    <3>2. k = m /\ pc[k] = "eat" /\ k \notin ready
      BY <1>0, <3>1 DEF QueueOK
    <3>3. QED
      BY <1>1, <1>5, <2>1, <3>1, <3>2
  <2>4. QED
    BY <1>7, <2>2, <2>3 DEF QueueOK
<1>10. \A k \in Phil : InSection(k)' <=> InSection(k)
  BY <1>1, <1>5, <1>7 DEF InSection
<1>11. SectionOK'
  BY <1>0, <1>7, <1>10 DEF SectionOK
<1>12. ASSUME NEW k \in Phil
       PROVE  PlaceOK(k)'
  <2>1. PlaceOK(k)
    BY <1>0
  <2>2. CASE k # j
    <3>1. state_sema'[k] = state_sema[k] /\ value'[s(k)] = value[s(k)]
          /\ Waiters(s(k))' = Waiters(s(k))
      BY <1>7, <2>2
    <3>2. CASE k # i
      BY <1>5, <2>1, <3>1, <3>2, PlaceKept
    <3>3. CASE k = i
      <4>1. pc[k] \in {"testleft", "testright"} /\ pc'[k] \in {"testright", "leave"}
        BY <1>1, <1>5, <2>2, <3>3
      <4>2. QED
        BY <2>1, <3>1, <4>1 DEF PlaceOK
    <3>4. QED
      BY <3>2, <3>3
  <2>3. CASE k = j /\ MayEat(j)
    <3>1. /\ value[s(j)] = 0
          /\ \/ j = i /\ pc[i] = "test"
             \/ j # i /\ pc[j] = "getforks"
             \/ j # i /\ pc[j] = "eat" /\ j \in Waiters(s(j))
      <4>1. state_sema[j] = "HUNGRY"
        BY <2>3 DEF MayEat
      <4>2. QED
        BY <1>0, <1>1, <1>3, <4>1, HungryWhere
    <3>2. CASE pc[j] # "eat"
      <4>1. HasToken(j)'
        BY <1>7, <2>3, <3>2 DEF HasToken
      <4>2. pc'[j] \in {"release", "getforks"}
        BY <1>5, <3>1, <3>2
      <4>3. QED
        BY <2>3, <4>1, <4>2 DEF PlaceOK
    <3>3. CASE pc[j] = "eat"
      <4>1. TookToken(j)' /\ j \notin Waiters(s(j))'
        BY <1>7, <2>3, <3>3 DEF TookToken
      <4>2. pc'[j] = "eat"
        BY <1>5, <3>1, <3>3
      <4>3. QED
        BY <2>3, <4>1, <4>2 DEF PlaceOK
    <3>4. QED
      BY <3>2, <3>3
  <2>4. CASE k = j /\ ~MayEat(j)
    <3>1. state_sema'[k] = state_sema[k] /\ value'[s(k)] = value[s(k)]
          /\ Waiters(s(k))' = Waiters(s(k))
      BY <1>7, <2>4
    <3>2. CASE k # i
      BY <1>5, <2>1, <3>1, <3>2, PlaceKept
    <3>3. CASE k = i
      <4>1. pc[k] = "test" /\ pc'[k] = "release"
        BY <1>1, <1>5, <2>4, <3>3
      <4>2. QED
        BY <2>1, <3>1, <4>1 DEF PlaceOK, Hungry
    <3>4. QED
      BY <3>2, <3>3
  <2>5. QED
    BY <2>2, <2>3, <2>4
<1>13. TableOK'
  <2>1. CASE MayEat(j)
    <3>1. state_sema'[j] = "EATING" /\ state_sema[LEFT(j)] # "EATING" /\ state_sema[RIGHT(j)] # "EATING"
      BY <1>7, <2>1 DEF MayEat
    <3>2. ASSUME NEW k \in Phil, state_sema'[k] = "EATING"
          PROVE  state_sema'[LEFT(k)] # "EATING" /\ state_sema'[RIGHT(k)] # "EATING"
      <4>1. CASE k = j
        BY <1>7, <3>1, <4>1, Seats
      <4>2. CASE k # j
        <5>1. state_sema[k] = "EATING" /\ state_sema[LEFT(k)] # "EATING" /\ state_sema[RIGHT(k)] # "EATING"
          BY <1>0, <1>7, <3>2, <4>2 DEF TableOK
        <5>2. LEFT(k) # j /\ RIGHT(k) # j
          BY <3>1, <5>1, Seats
        <5>3. QED
          BY <1>7, <5>1, <5>2, Seats
      <4>3. QED
        BY <4>1, <4>2
    <3>3. QED
      BY <3>2 DEF TableOK
  <2>2. CASE ~MayEat(j)
    <3>1. \A k \in Phil : state_sema'[k] = state_sema[k]
      BY <1>7, <2>2
    <3>2. QED
      BY <1>0, <3>1, Seats DEF TableOK
  <2>3. QED
    BY <2>1, <2>2
<1>14. ASSUME NEW k \in Phil, state_sema'[k] = "HUNGRY"
       PROVE  \/ state_sema'[LEFT(k)] = "EATING" \/ state_sema'[RIGHT(k)] = "EATING"
              \/ ToBeTested(k)'
  <2>1. \A m \in Phil : state_sema[m] = "EATING" => state_sema'[m] = "EATING"
    BY <1>7
  <2>2. CASE k = j
    <3>1. ~MayEat(j) /\ state_sema[j] = "HUNGRY"
      BY <1>7, <1>14, <2>2
    <3>2. QED
      BY <2>1, <2>2, <3>1, Seats DEF MayEat
  <2>3. CASE k # j
    <3>1. state_sema[k] = "HUNGRY"
      BY <1>7, <1>14, <2>3
    <3>2. CASE ToBeTested(k)
      <4>1. pc[k] # "test"
        BY <1>1, <1>4, <2>3
      <4>2. \/ pc[i] = "testleft" /\ k \in {LEFT(i), RIGHT(i)}
            \/ pc[i] = "testright" /\ k = RIGHT(i)
        BY <1>4, <3>2, <4>1 DEF ToBeTested
      <4>3. pc[i] = "testleft" /\ k = RIGHT(i)
        BY <1>1, <2>3, <4>2
      <4>4. pc'[i] = "testright" /\ InSection(i)'
        BY <1>3, <1>5, <1>10, <4>3
      <4>5. QED
        BY <4>3, <4>4 DEF ToBeTested
    <3>3. CASE ~ToBeTested(k)
      BY <1>0, <2>1, <3>1, <3>3, Seats DEF Remembered
    <3>4. QED
      BY <3>2, <3>3
  <2>4. QED
    BY <2>2, <2>3
<1>15. \A k \in Phil : Remembered(k)'
  BY <1>14 DEF Remembered
<1>16. QED
  BY <1>7, <1>8, <1>9, <1>11, <1>12, <1>13, <1>15 DEF IInv

-----------------------------------------------------------------------------
(* The theorems. *)

\* It holds when check_sync has created the threads.
LEMMA Start ==
  ASSUME Init
  PROVE  IInv
<1>1. /\ value = [x \in Sem |-> IF x = mutex THEN 1 ELSE 0]
      /\ wait_queue = [x \in Sem |-> <<>>]
      /\ ready = Phil /\ running \in Phil /\ state_sema = [i \in Phil |-> "THINKING"]
      /\ iter = [i \in Phil |-> 0] /\ pc = [i \in Phil |-> "think"]
  BY DEF Init, sem_init
<1>2. \A x \in Sem : Waiters(x) = {}
  BY <1>1 DEF Waiters
<1>3. \A i \in Phil : value[s(i)] = 0 /\ Waiters(s(i)) = {}
  BY <1>1, <1>2, SemNames
<1>4. Waiters(mutex) = {}
  BY <1>2, SemNames
<1>5. SemOK
  BY <1>1, <1>2 DEF SemOK
<1>6. VarsOK
  BY <1>1, PhilAssumption DEF VarsOK, Places
<1>7. QueueOK
  BY <1>3, <1>4 DEF QueueOK
<1>8. SectionOK
  BY <1>1 DEF SectionOK, InSection
<1>9. \A i \in Phil : PlaceOK(i)
  BY <1>1, <1>3 DEF PlaceOK
<1>10. TableOK
  BY <1>1 DEF TableOK
<1>11. \A i \in Phil : Remembered(i)
  BY <1>1 DEF Remembered
<1>12. QED
  BY <1>5, <1>6, <1>7, <1>8, <1>9, <1>10, <1>11 DEF IInv

\* IInv holds throughout, whatever the number of philosophers and whoever gets the
\* processor when.
THEOREM Invariance == Spec => []IInv
<1>1. Init => IInv
  BY Start
<1>2. IInv /\ [Next]_vars => IInv'
  <2> SUFFICES ASSUME IInv, [Next]_vars
               PROVE  IInv'
    OBVIOUS
  <2>1. CASE switch \/ UNCHANGED vars
    BY <2>1, SwitchStep
  <2>2. ASSUME NEW i \in Phil, philosopher(i) \/ wake(i)
        PROVE  IInv'
    <3>1. CASE think(i) \/ eat(i)
      BY <3>1, SleepStep
    <3>2. CASE take(i) \/ put(i)
      BY <3>2, EnterStep
    <3>3. CASE hungry(i)
      BY <3>3, HungryStep
    <3>4. CASE test(i)
      <4>1. Tests(i, i)
        BY <3>4 DEF test, Tests, At
      <4>2. QED
        BY <4>1, TestStep
    <3>5. CASE release(i) \/ leave(i)
      BY <3>5, LeaveStep
    <3>6. CASE getforks(i)
      BY <3>6, GetforksStep
    <3>7. CASE putdown(i)
      BY <3>7, PutdownStep
    <3>8. CASE testleft(i)
      <4>1. Tests(i, LEFT(i)) /\ LEFT(i) \in Phil
        BY <3>8, Seats DEF testleft, TestFor, Tests, At
      <4>2. QED
        BY <4>1, TestStep
    <3>9. CASE testright(i)
      <4>1. Tests(i, RIGHT(i)) /\ RIGHT(i) \in Phil
        BY <3>9, Seats DEF testright, TestFor, Tests, At
      <4>2. QED
        BY <4>1, TestStep
    <3>10. CASE wake(i)
      BY <3>10, WakeStep
    <3>11. QED
      BY <2>2, <3>1, <3>2, <3>3, <3>4, <3>5, <3>6, <3>7, <3>8, <3>9, <3>10 DEF philosopher
  <2>3. QED
    BY <2>1, <2>2 DEF Next, Done
<1>3. QED
  BY <1>1, <1>2, PTL DEF Spec

\* Types; no semaphore ever holds two tokens.
THEOREM TypeCorrect == Spec => []TypeOK
<1>1. IInv => TypeOK
  BY DEF IInv, SemOK, VarsOK, TypeOK
<1>2. QED
  BY <1>1, Invariance, PTL

\* No two neighbours eat at the same time.
THEOREM ForksCorrect == Spec => []ForksExclusive
<1>1. IInv => ForksExclusive
  <2> SUFFICES ASSUME IInv, NEW i \in Phil, Eating(i)
               PROVE  ~Eating(LEFT(i)) /\ ~Eating(RIGHT(i))
    BY DEF ForksExclusive
  <2>1. \A k \in Phil : Eating(k) => state_sema[k] = "EATING"
    BY DEF IInv, Eating, PlaceOK, TookToken
  <2>2. state_sema[LEFT(i)] # "EATING" /\ state_sema[RIGHT(i)] # "EATING"
    BY <2>1 DEF IInv, TableOK
  <2>3. QED
    BY <2>1, <2>2, Seats
<1>2. QED
  BY <1>1, Invariance, PTL

\* Whoever waits for a semaphore is off the processor and in no other queue.
THEOREM WaitersCorrect == Spec => []WaitersAreOff
<1>1. IInv => WaitersAreOff
  <2> SUFFICES ASSUME IInv, NEW x \in Sem, NEW i \in Waiters(x)
               PROVE  i \notin ready /\ \A y \in Sem \ {x} : i \notin Waiters(y)
    BY DEF WaitersAreOff
  <2>1. QueueOK /\ SemOK
    BY DEF IInv
  <2>2. i \in Phil
    BY <2>1, QueuedIsPhil
  <2>3. CASE x = mutex
    <3>1. pc[i] # "eat" /\ i \notin ready
      BY <2>1, <2>3 DEF QueueOK
    <3>2. \A j \in Phil : i \notin Waiters(s(j))
      BY <2>1, <2>2, <3>1, QueuedWhere
    <3>3. QED
      BY <2>3, <3>1, <3>2, SemNames
  <2>4. ASSUME NEW j \in Phil, x = s(j)
        PROVE  i \notin ready /\ \A y \in Sem \ {x} : i \notin Waiters(y)
    <3>1. i = j /\ pc[i] = "eat" /\ i \notin ready
      BY <2>1, <2>4 DEF QueueOK
    <3>2. i \notin Waiters(mutex)
      BY <2>1, <2>2, <3>1, QueuedWhere
    <3>3. \A m \in Phil : i \in Waiters(s(m)) => m = j
      BY <2>1, <3>1 DEF QueueOK
    <3>4. QED
      BY <2>4, <3>1, <3>2, <3>3, SemNames
  <2>5. QED
    BY <2>3, <2>4, SemNames
<1>2. QED
  BY <1>1, Invariance, PTL

\* With nobody in the section, every hungry philosopher has an eating neighbour.
THEOREM NobodyForgottenCorrect == Spec => []NobodyForgotten
<1>1. IInv => NobodyForgotten
  <2> SUFFICES ASSUME IInv, value[mutex] = 1, NEW i \in Phil, state_sema[i] = "HUNGRY"
               PROVE  state_sema[LEFT(i)] = "EATING" \/ state_sema[RIGHT(i)] = "EATING"
    BY DEF NobodyForgotten
  <2>1. \A j \in Phil : ~InSection(j)
    BY DEF IInv, SectionOK
  <2>2. pc[i] # "test"
    BY <2>1, QueuedWhere DEF IInv, InSection
  <2>3. ~ToBeTested(i)
    BY <2>1, <2>2 DEF ToBeTested
  <2>4. QED
    BY <2>3 DEF IInv, Remembered
<1>2. QED
  BY <1>1, Invariance, PTL

-----------------------------------------------------------------------------
(* The threads implement the abstract table. *)

\* What Phase(k) and Meals(k) look at.
LEMMA SameSeat ==
  ASSUME NEW k \in Phil, pc'[k] = pc[k], state_sema'[k] = state_sema[k], iter'[k] = iter[k],
         Waiters(s(k))' = Waiters(s(k))
  PROVE  Phase(k)' = Phase(k) /\ Meals(k)' = Meals(k)
BY DEF Phase, Meals, Eating

\* A step that changes no phase and no count is a stutter of the table.
LEMMA Quiet ==
  ASSUME \A k \in Phil : Phase(k)' = Phase(k) /\ Meals(k)' = Meals(k)
  PROVE  [Table!Next]_<<[h \in Phil |-> Phase(h)], [h \in Phil |-> Meals(h)]>>
<1>1. [i \in Phil |-> Phase(i)]' = [i \in Phil |-> Phase(i)]
  OBVIOUS
<1>2. [i \in Phil |-> Meals(i)]' = [i \in Phil |-> Meals(i)]
  OBVIOUS
<1>3. QED
  BY <1>1, <1>2

\* The table's seats are the threads'.
LEMMA TableNames ==
  /\ Table!Phil = Phil
  /\ \A i : Table!LEFT(i) = LEFT(i) /\ Table!RIGHT(i) = RIGHT(i)
BY DEF Table!Phil, Table!LEFT, Table!RIGHT, Phil, LEFT, RIGHT

\* Only an EATING philosopher eats.
LEMMA EatersAreSet ==
  ASSUME \A k \in Phil : PlaceOK(k), NEW i \in Phil, Eating(i)
  PROVE  state_sema[i] = "EATING"
BY DEF Eating, PlaceOK, TookToken

\* The three steps of the table, philosopher by philosopher.
LEMMA GetsHungry ==
  ASSUME NEW i \in Phil, Phase(i) = "thinking", Phase(i)' = "hungry", Meals(i) < TIMES,
         \A k \in Phil : k # i => Phase(k)' = Phase(k),
         \A k \in Phil : Meals(k)' = Meals(k)
  PROVE  Table!Next
<1>1. [k \in Phil |-> Phase(k)]' = [[k \in Phil |-> Phase(k)] EXCEPT ![i] = "hungry"]
  OBVIOUS
<1>2. [k \in Phil |-> Meals(k)]' = [k \in Phil |-> Meals(k)]
  OBVIOUS
<1>3. Table!GetHungry(i)
  BY <1>1, <1>2 DEF Table!GetHungry
<1>4. QED
  BY <1>3, TableNames DEF Table!Next

\* A hungry philosopher starts to eat.
LEMMA Eats ==
  ASSUME NEW i \in Phil, Phase(i) = "hungry", Phase(i)' = "eating",
         Phase(LEFT(i)) # "eating", Phase(RIGHT(i)) # "eating",
         \A k \in Phil : k # i => Phase(k)' = Phase(k),
         \A k \in Phil : Meals(k)' = Meals(k)
  PROVE  Table!Next
<1>1. [k \in Phil |-> Phase(k)]' = [[k \in Phil |-> Phase(k)] EXCEPT ![i] = "eating"]
  OBVIOUS
<1>2. [k \in Phil |-> Meals(k)]' = [k \in Phil |-> Meals(k)]
  OBVIOUS
<1>3. Table!Eat(i)
  BY <1>1, <1>2, TableNames, Seats DEF Table!Eat
<1>4. QED
  BY <1>3, TableNames DEF Table!Next

\* An eating philosopher stops.
LEMMA Stops ==
  ASSUME NEW i \in Phil, Phase(i) = "eating", Phase(i)' = "thinking", Meals(i)' = Meals(i) + 1,
         \A k \in Phil : k # i => Phase(k)' = Phase(k) /\ Meals(k)' = Meals(k)
  PROVE  Table!Next
<1>1. [k \in Phil |-> Phase(k)]' = [[k \in Phil |-> Phase(k)] EXCEPT ![i] = "thinking"]
  OBVIOUS
<1>2. [k \in Phil |-> Meals(k)]' = [[k \in Phil |-> Meals(k)] EXCEPT ![i] = @ + 1]
  OBVIOUS
<1>3. Table!Stop(i)
  BY <1>1, <1>2 DEF Table!Stop
<1>4. QED
  BY <1>3, TableNames DEF Table!Next

\* Steps that no philosopher's phase shows.
LEMMA QuietStep ==
  ASSUME IInv, NEW i \in Phil,
         think(i) \/ take(i) \/ release(i) \/ eat(i) \/ put(i) \/ leave(i) \/ wake(i)
  PROVE  [Table!Next]_<<[h \in Phil |-> Phase(h)], [h \in Phil |-> Meals(h)]>>
<1>0. SemOK /\ VarsOK /\ QueueOK /\ SectionOK /\ (\A k \in Phil : PlaceOK(k))
  BY DEF IInv
<1>1. state_sema' = state_sema
  BY DEF think, take, release, eat, put, leave, wake
<1>2. \A k \in Phil : Waiters(s(k))' = Waiters(s(k))
  <2>1. CASE think(i) \/ eat(i) \/ wake(i)
    <3>1. wait_queue' = wait_queue
      BY <2>1 DEF think, eat, wake, semVars
    <3>2. QED
      BY <3>1 DEF Waiters
  <2>2. CASE take(i) \/ put(i) \/ release(i) \/ leave(i)
    <3>1. down(i, mutex) \/ up(mutex)
      BY <2>2 DEF take, put, release, leave
    <3>2. \A k \in Phil : wait_queue'[s(k)] = wait_queue[s(k)]
      <4>1. wait_queue \in [Sem -> Seq(Phil)]
        BY <1>0 DEF SemOK
      <4>2. QED
        BY <3>1, <4>1, SemNames DEF down, up
    <3>3. QED
      BY <3>2 DEF Waiters
  <2>3. QED
    BY <2>1, <2>2
<1>3. /\ \A k \in Phil : k # i => pc'[k] = pc[k] /\ iter'[k] = iter[k]
      /\ \/ pc[i] = "think" /\ pc'[i] = "take" /\ iter'[i] = iter[i] + 1
         \/ /\ iter'[i] = iter[i]
            /\ \/ pc[i] = "think" /\ pc'[i] = "quit"
               \/ pc[i] = "take" /\ pc'[i] = "hungry"
               \/ pc[i] = "release" /\ pc'[i] = "getforks"
               \/ pc[i] = "eat" /\ pc'[i] = "put" /\ i \in ready
               \/ pc[i] = "put" /\ pc'[i] = "putdown"
               \/ pc[i] = "leave" /\ pc'[i] = "think"
               \/ pc'[i] = pc[i]
  <2>1. pc \in [Phil -> Places] /\ iter \in [Phil -> 0..TIMES]
    BY <1>0 DEF VarsOK
  <2>2. QED
    BY <2>1 DEF think, take, release, eat, put, leave, wake, At, GoTo
<1>4. iter[i] \in Nat
  BY <1>0, PhilAssumption DEF VarsOK
<1>5. Meals(i)' = Meals(i)
  BY <1>3, <1>4 DEF Meals
<1>6. Phase(i)' = Phase(i)
  <2>1. Eating(i)' <=> Eating(i)
    BY <1>2, <1>3 DEF Eating
  <2>2. QED
    BY <1>1, <2>1 DEF Phase
<1>7. \A k \in Phil : k # i => Phase(k)' = Phase(k) /\ Meals(k)' = Meals(k)
  BY <1>1, <1>2, <1>3, SameSeat
<1>8. QED
  BY <1>5, <1>6, <1>7, Quiet

\* schedule() shows on no phase.
LEMMA StutterStep ==
  ASSUME switch \/ UNCHANGED vars
  PROVE  [Table!Next]_<<[h \in Phil |-> Phase(h)], [h \in Phil |-> Meals(h)]>>
<1>1. pc' = pc /\ state_sema' = state_sema /\ iter' = iter /\ wait_queue' = wait_queue
  BY DEF switch, vars, semVars
<1>2. \A k \in Phil : Phase(k)' = Phase(k) /\ Meals(k)' = Meals(k)
  BY <1>1 DEF Phase, Meals, Eating, Waiters
<1>3. QED
  BY <1>2, Quiet

\* A thinking philosopher gets hungry at the table.
LEMMA HungryMaps ==
  ASSUME IInv, NEW i \in Phil, hungry(i)
  PROVE  Table!Next
<1>0. SemOK /\ VarsOK /\ QueueOK /\ PlaceOK(i)
  BY DEF IInv
<1>1. pc[i] = "hungry" /\ iter' = iter /\ wait_queue' = wait_queue
  BY DEF hungry, At, semVars
<1>2. pc'[i] = "test" /\ \A k \in Phil : k # i => pc'[k] = pc[k]
  BY <1>0, Moved DEF hungry, Places
<1>3. state_sema'[i] = "HUNGRY" /\ \A k \in Phil : k # i => state_sema'[k] = state_sema[k]
  BY <1>0, WasSet DEF hungry
<1>4. state_sema[i] = "THINKING"
  BY <1>0, <1>1 DEF PlaceOK
<1>5. \A k \in Phil : k # i => Phase(k)' = Phase(k) /\ Meals(k)' = Meals(k)
  BY <1>1, <1>2, <1>3, SameSeat DEF Waiters
<1>6. Phase(i) = "thinking" /\ Phase(i)' = "hungry"
  BY <1>1, <1>2, <1>3, <1>4 DEF Phase, Eating
<1>7. Meals(i)' = Meals(i) /\ Meals(i) < TIMES
  <2>1. iter[i] \in 0..TIMES /\ TIMES \in Nat
    BY <1>0, PhilAssumption DEF VarsOK
  <2>2. Meals(i) = iter[i] - 1 /\ Meals(i)' = iter[i] - 1
    BY <1>1, <1>2 DEF Meals
  <2>3. QED
    BY <2>1, <2>2
<1>8. QED
  BY <1>5, <1>6, <1>7, GetsHungry

\* A philosopher that puts its forks down stops eating, once more fed.
LEMMA PutdownMaps ==
  ASSUME IInv, NEW i \in Phil, putdown(i)
  PROVE  Table!Next
<1>0. SemOK /\ VarsOK /\ QueueOK
  BY DEF IInv
<1>1. i \in ready /\ pc[i] = "putdown" /\ iter' = iter /\ wait_queue' = wait_queue
  BY DEF putdown, At, semVars
<1>2. pc'[i] = "testleft" /\ \A k \in Phil : k # i => pc'[k] = pc[k]
  BY <1>0, Moved DEF putdown, Places
<1>3. state_sema'[i] = "THINKING" /\ \A k \in Phil : k # i => state_sema'[k] = state_sema[k]
  BY <1>0, WasSet DEF putdown
<1>4. i \notin Waiters(s(i))
  BY <1>0, <1>1, Unblocked
<1>5. \A k \in Phil : k # i => Phase(k)' = Phase(k) /\ Meals(k)' = Meals(k)
  BY <1>1, <1>2, <1>3, SameSeat DEF Waiters
<1>6. Phase(i) = "eating" /\ Phase(i)' = "thinking"
  BY <1>1, <1>2, <1>3, <1>4 DEF Phase, Eating
<1>7. Meals(i)' = Meals(i) + 1
  <2>1. iter[i] \in Nat
    BY <1>0, PhilAssumption DEF VarsOK
  <2>2. Meals(i) = iter[i] - 1 /\ Meals(i)' = iter[i]
    BY <1>1, <1>2 DEF Meals
  <2>3. QED
    BY <2>1, <2>2
<1>8. QED
  BY <1>5, <1>6, <1>7, Stops

\* Whoever is EATING has neighbours that do not eat, whatever they have been told.
LEMMA NeighboursDoNotEat ==
  ASSUME IInv, NEW i \in Phil, state_sema[i] = "EATING"
  PROVE  Phase(LEFT(i)) # "eating" /\ Phase(RIGHT(i)) # "eating"
<1>1. state_sema[LEFT(i)] # "EATING" /\ state_sema[RIGHT(i)] # "EATING"
  BY DEF IInv, TableOK
<1>2. ~Eating(LEFT(i)) /\ ~Eating(RIGHT(i))
  BY <1>1, EatersAreSet, Seats DEF IInv
<1>3. QED
  BY <1>2 DEF Phase

\* The philosopher starts to eat unless it blocks.
LEMMA GetforksMaps ==
  ASSUME IInv, NEW i \in Phil, getforks(i)
  PROVE  [Table!Next]_<<[h \in Phil |-> Phase(h)], [h \in Phil |-> Meals(h)]>>
<1>0. SemOK /\ VarsOK /\ QueueOK /\ PlaceOK(i)
  BY DEF IInv
<1>1. /\ i \in ready /\ iter' = iter /\ state_sema' = state_sema
      /\ down(i, s(i)) /\ pc[i] = "getforks" /\ GoTo(i, "eat")
  BY DEF getforks, At
<1>2. i \notin Waiters(s(i))
  BY <1>0, <1>1, Unblocked
<1>3. /\ \A y \in Sem : y # s(i) => Waiters(y)' = Waiters(y)
      /\ \/ value[s(i)] = 1 /\ Waiters(s(i))' = Waiters(s(i))
         \/ value[s(i)] = 0 /\ Waiters(s(i))' = Waiters(s(i)) \cup {i}
  BY <1>0, <1>1, <1>2, SemNames, DownEffect
<1>4. pc'[i] = "eat" /\ \A k \in Phil : k # i => pc'[k] = pc[k]
  BY <1>0, <1>1, Moved DEF Places
<1>5. Hungry(i) \/ HasToken(i)
  BY <1>0, <1>1 DEF PlaceOK
<1>6. \A k \in Phil : k # i => Phase(k)' = Phase(k) /\ Meals(k)' = Meals(k)
  BY <1>1, <1>3, <1>4, SemNames, SameSeat
<1>7. Meals(i)' = Meals(i)
  BY <1>1, <1>4 DEF Meals
<1>8. Phase(i) = "hungry"
  BY <1>1, <1>5 DEF Phase, Eating, Hungry, HasToken
<1>9. CASE value[s(i)] = 1
  <2>1. Phase(i)' = "eating"
    BY <1>2, <1>3, <1>4, <1>9 DEF Phase, Eating
  <2>2. state_sema[i] = "EATING"
    BY <1>5, <1>9 DEF Hungry, HasToken
  <2>3. Table!Next
    BY <1>6, <1>7, <1>8, <2>1, <2>2, NeighboursDoNotEat, Eats
  <2>4. QED
    BY <2>3
<1>10. CASE value[s(i)] = 0
  <2>1. state_sema'[i] = "HUNGRY"
    BY <1>1, <1>5, <1>10 DEF Hungry, HasToken
  <2>2. Phase(i)' = "hungry"
    BY <1>3, <1>4, <1>10, <2>1 DEF Phase, Eating
  <2>3. QED
    BY <1>6, <1>7, <1>8, <2>2, Quiet
<1>11. QED
  BY <1>3, <1>9, <1>10

\* A test starts a meal when its philosopher is blocked already.
LEMMA TestMaps ==
  ASSUME IInv, NEW i \in Phil, NEW j \in Phil, Tests(i, j)
  PROVE  [Table!Next]_<<[h \in Phil |-> Phase(h)], [h \in Phil |-> Meals(h)]>>
<1>0. SemOK /\ VarsOK /\ QueueOK /\ (\A k \in Phil : PlaceOK(k))
  BY DEF IInv
<1>1. /\ iter' = iter
      /\ \/ pc[i] = "test" /\ pc'[i] = "release" /\ j = i
         \/ pc[i] = "testleft" /\ pc'[i] = "testright" /\ j # i
         \/ pc[i] = "testright" /\ pc'[i] = "leave" /\ j # i
      /\ \A k \in Phil : k # i => pc'[k] = pc[k]
  BY <1>0, Moved, Seats DEF Tests, Places
<1>2. /\ \A k \in Phil : k # j => state_sema'[k] = state_sema[k] /\ Waiters(s(k))' = Waiters(s(k))
      /\ \/ /\ MayEat(j) /\ state_sema'[j] = "EATING"
            /\ \/ pc[j] # "eat" /\ Waiters(s(j))' = Waiters(s(j))
               \/ pc[j] = "eat" /\ j # i /\ Waiters(s(j)) = {j} /\ Waiters(s(j))' = {}
         \/ ~MayEat(j) /\ state_sema'[j] = state_sema[j] /\ Waiters(s(j))' = Waiters(s(j))
  BY TestEffect
<1>3. \A k \in Phil : Meals(k)' = Meals(k)
  BY <1>1 DEF Meals
<1>4. \A k \in Phil : k # j => Phase(k)' = Phase(k)
  <2> TAKE k \in Phil
  <2> HAVE k # j
  <2>1. CASE k = i
    <3>1. ~Eating(k) /\ ~Eating(k)'
      BY <1>1, <2>1 DEF Eating
    <3>2. QED
      BY <1>2, <3>1 DEF Phase
  <2>2. CASE k # i
    BY <1>1, <1>2, <2>2, SameSeat
  <2>3. QED
    BY <2>1, <2>2
<1>5. CASE MayEat(j) /\ pc[j] = "eat" /\ j # i /\ Waiters(s(j)) = {j} /\ Waiters(s(j))' = {}
  <2>1. Phase(j) = "hungry"
    BY <1>5 DEF Phase, Eating, MayEat
  <2>2. Phase(j)' = "eating"
    BY <1>1, <1>5 DEF Phase, Eating
  <2>3. Phase(LEFT(j)) # "eating" /\ Phase(RIGHT(j)) # "eating"
    BY <1>0, <1>5, EatersAreSet, Seats DEF Phase, MayEat
  <2>4. Table!Next
    BY <1>3, <1>4, <2>1, <2>2, <2>3, Eats
  <2>5. QED
    BY <2>4
<1>6. CASE Waiters(s(j))' = Waiters(s(j)) /\ (MayEat(j) /\ state_sema'[j] = "EATING" /\ pc[j] # "eat")
  <2>1. state_sema[j] = "HUNGRY" /\ pc[j] \notin {"eat", "put", "putdown"}
    BY <1>0, <1>6 DEF MayEat, PlaceOK, TookToken
  <2>2. pc'[j] \notin {"eat", "put", "putdown"}
    BY <1>1, <2>1
  <2>3. Phase(j)' = Phase(j)
    BY <1>6, <2>1, <2>2 DEF Phase, Eating
  <2>4. QED
    BY <1>3, <1>4, <2>3, Quiet
<1>7. CASE ~MayEat(j) /\ state_sema'[j] = state_sema[j] /\ Waiters(s(j))' = Waiters(s(j))
  <2>1. Eating(j)' <=> Eating(j)
    BY <1>1, <1>7 DEF Eating
  <2>2. Phase(j)' = Phase(j)
    BY <1>7, <2>1 DEF Phase
  <2>3. QED
    BY <1>3, <1>4, <2>2, Quiet
<1>8. QED
  BY <1>2, <1>5, <1>6, <1>7

\* The philosophers implement the abstract table: forks are taken both at once.
THEOREM Refinement == Spec => ImplementsDining
<1>1. Init => Table!Init
  <2> SUFFICES ASSUME Init PROVE Table!Init
    OBVIOUS
  <2>1. /\ wait_queue = [x \in Sem |-> <<>>] /\ state_sema = [i \in Phil |-> "THINKING"]
        /\ iter = [i \in Phil |-> 0] /\ pc = [i \in Phil |-> "think"]
    BY DEF Init, sem_init
  <2>2. \A k \in Phil : Phase(k) = "thinking" /\ Meals(k) = 0
    BY <2>1 DEF Phase, Meals, Eating
  <2>3. QED
    BY <2>2, TableNames DEF Table!Init
<1>2. IInv /\ [Next]_vars => [Table!Next]_<<[h \in Phil |-> Phase(h)], [h \in Phil |-> Meals(h)]>>
  <2> SUFFICES ASSUME IInv, [Next]_vars
               PROVE  [Table!Next]_<<[h \in Phil |-> Phase(h)], [h \in Phil |-> Meals(h)]>>
    OBVIOUS
  <2>1. CASE switch \/ UNCHANGED vars
    BY <2>1, StutterStep
  <2>2. ASSUME NEW i \in Phil, philosopher(i) \/ wake(i)
        PROVE  [Table!Next]_<<[h \in Phil |-> Phase(h)], [h \in Phil |-> Meals(h)]>>
    <3>1. CASE think(i) \/ take(i) \/ release(i) \/ eat(i) \/ put(i) \/ leave(i) \/ wake(i)
      BY <3>1, QuietStep
    <3>2. CASE hungry(i)
      BY <3>2, HungryMaps
    <3>3. CASE putdown(i)
      BY <3>3, PutdownMaps
    <3>4. CASE getforks(i)
      BY <3>4, GetforksMaps
    <3>5. CASE test(i) \/ testleft(i) \/ testright(i)
      <4>1. \E j \in Phil : Tests(i, j)
        BY <3>5, Seats DEF test, testleft, testright, TestFor, Tests, At
      <4>2. QED
        BY <4>1, TestMaps
    <3>6. QED
      BY <2>2, <3>1, <3>2, <3>3, <3>4, <3>5 DEF philosopher
  <2>3. QED
    BY <2>1, <2>2 DEF Next, Done
<1>3. QED
  BY <1>1, <1>2, Invariance, PTL DEF Spec, ImplementsDining, Table!Spec
=============================================================================
