-------------------------- MODULE PhilMonitorProofs --------------------------
(***************************************************************************)
(* What is proved of the dining philosophers with a monitor, for every     *)
(* number of philosophers and of rounds, with and without preemption.      *)
(*                                                                         *)
(* The inductive invariant follows the one token: it lies in a semaphore,  *)
(* or one thread owns the monitor.  A signaller that waits on next knows   *)
(* where it is: it left the token with the thread that it signalled, or    *)
(* for it, and that thread gives it back before it leaves (Handed,         *)
(* PromiseOK).  Hence nobody gets in between, the condition that was true  *)
(* at the signal is true at the wake-up, and a philosopher that is passed  *)
(* over is about to be tested again (Remembered).                          *)
(***************************************************************************)
EXTENDS PhilMonitor, TLAPS

-----------------------------------------------------------------------------
(* The inductive invariant. *)

\* Nobody is twice in a queue, and a semaphore with a queue has no token.
SemOK == /\ value \in [Sem -> 0..1]
         /\ wait_queue \in [Sem -> Seq(Phil)]
         /\ \A x \in Sem :
               /\ \A k, m \in DOMAIN wait_queue[x] :
                     wait_queue[x][k] = wait_queue[x][m] => k = m
               /\ Waiters(x) # {} => value[x] = 0

\* Types.
VarsOK == /\ ready \in SUBSET Phil /\ running \in Phil
          /\ next_count \in 0..1 /\ count \in [Phil -> 0..1]
          /\ state_condvar \in [Phil -> {"THINKING", "HUNGRY", "EATING"}]
          /\ iter \in [Phil -> 0..TIMES]
          /\ pc \in [Phil -> Places] /\ cv \in [Phil -> Phil] /\ ret \in [Phil -> Places]

\* The semaphore that a thread may be queued at, by its place.
Queued == {"hungry", "putdown", "signal_end", "wait_end"}
DoorAt(i, place) == IF place \in {"hungry", "putdown"} THEN mutex
                    ELSE IF place = "signal_end" THEN next ELSE cvsem(i)
Door(i) == DoorAt(i, pc[i])

\* Who is queued at a semaphore is off the processor, at its statement.
QueueOK == \A x \in Sem : \A i \in Waiters(x) : i \notin ready /\ pc[i] \in Queued /\ x = Door(i)

\* Outside the monitor, or on the way back into it.
Outside == {"think", "take", "eat", "put", "quit", "signal_down", "wait_down"}

\* One token in all semaphores together, and none while a thread owns the monitor.
TokenOK == /\ \A x, y \in Sem : value[x] = 1 /\ value[y] = 1 => x = y
           /\ \A x \in Sem, i \in Phil : value[x] = 1 => ~Owns(i)
           /\ \A i, j \in Phil : Owns(i) /\ Owns(j) => i = j

-----------------------------------------------------------------------------
(* Names, seats and queues. *)

\* The mutex, next and the condition variables' semaphores are all different.
LEMMA SemNames ==
  /\ mutex \in Sem /\ next \in Sem /\ mutex # next
  /\ \A i \in Phil : cvsem(i) \in Sem /\ cvsem(i) # mutex /\ cvsem(i) # next
  /\ \A i, j \in Phil : cvsem(i) = cvsem(j) => i = j
  /\ \A x \in Sem : x = mutex \/ x = next \/ \E i \in Phil : x = cvsem(i)
BY DEF Sem, mutex, next, cvsem

\* Left and right neighbours are other philosophers, and inverse to each other.
LEMMA Seats ==
  ASSUME PhilAssumption, NEW i \in Phil
  PROVE  /\ LEFT(i) \in Phil /\ RIGHT(i) \in Phil
         /\ LEFT(i) # i /\ RIGHT(i) # i
         /\ LEFT(RIGHT(i)) = i /\ RIGHT(LEFT(i)) = i
<1>1. \A j \in Phil : LEFT(j) = IF j = 0 THEN N - 1 ELSE j - 1
  BY DEF Phil, LEFT, PhilAssumption
<1>2. \A j \in Phil : RIGHT(j) = IF j = N - 1 THEN 0 ELSE j + 1
  BY DEF Phil, RIGHT, PhilAssumption
<1>3. LEFT(i) \in Phil /\ RIGHT(i) \in Phil
  BY <1>1, <1>2 DEF Phil, PhilAssumption
<1>4. QED
  BY <1>1, <1>2, <1>3 DEF Phil, PhilAssumption

\* Who waits behind a queue that grew, and behind one that lost its head.
LEMMA Appended ==
  ASSUME NEW q \in Seq(Phil), NEW p \in Phil
  PROVE  /\ Append(q, p) \in Seq(Phil)
         /\ {Append(q, p)[k] : k \in 1..Len(Append(q, p))} = {q[k] : k \in 1..Len(q)} \cup {p}
         /\ (/\ \A k, m \in DOMAIN q : q[k] = q[m] => k = m
             /\ p \notin {q[k] : k \in 1..Len(q)})
            => \A k, m \in DOMAIN Append(q, p) : Append(q, p)[k] = Append(q, p)[m] => k = m
<1>1. Append(q, p) \in Seq(Phil) /\ Len(Append(q, p)) = Len(q) + 1 /\ Len(q) \in Nat
  OBVIOUS
<1>2. \A k \in 1..Len(q) : Append(q, p)[k] = q[k]
  OBVIOUS
<1>3. Append(q, p)[Len(q) + 1] = p
  OBVIOUS
<1>4. DOMAIN q = 1..Len(q) /\ DOMAIN Append(q, p) = 1..(Len(q) + 1)
  BY <1>1
<1>5. \A k \in 1..(Len(q) + 1) : k \in 1..Len(q) \/ k = Len(q) + 1
  BY <1>1
<1>6. QED
  BY <1>1, <1>2, <1>3, <1>4, <1>5

\* The queue that lost its head.
LEMMA Served ==
  ASSUME NEW q \in Seq(Phil), q # <<>>,
         \A k, m \in DOMAIN q : q[k] = q[m] => k = m
  PROVE  /\ Tail(q) \in Seq(Phil)
         /\ Head(q) \in {q[k] : k \in 1..Len(q)}
         /\ {Tail(q)[k] : k \in 1..Len(Tail(q))} = {q[k] : k \in 1..Len(q)} \ {Head(q)}
         /\ \A k, m \in DOMAIN Tail(q) : Tail(q)[k] = Tail(q)[m] => k = m
<1>1. Tail(q) \in Seq(Phil) /\ Len(Tail(q)) = Len(q) - 1 /\ Len(q) \in Nat \ {0}
  OBVIOUS
<1>2. \A k \in 1..(Len(q) - 1) : Tail(q)[k] = q[k + 1]
  OBVIOUS
<1>3. Head(q) = q[1]
  OBVIOUS
<1>4. DOMAIN q = 1..Len(q) /\ DOMAIN Tail(q) = 1..(Len(q) - 1)
  BY <1>1
<1>5. \A k \in 1..Len(q) : k = 1 \/ (k - 1 \in 1..(Len(q) - 1) /\ q[k] = Tail(q)[k - 1])
  BY <1>1, <1>2
<1>6. \A k \in 1..(Len(q) - 1) : k + 1 \in 1..Len(q) /\ k + 1 # 1 /\ 1 \in 1..Len(q)
  BY <1>1
<1>7. {Tail(q)[k] : k \in 1..Len(Tail(q))} = {q[k] : k \in 1..Len(q)} \ {Head(q)}
  <2>1. ASSUME NEW k \in 1..(Len(q) - 1)
        PROVE  Tail(q)[k] \in {q[m] : m \in 1..Len(q)} \ {Head(q)}
    BY <1>2, <1>3, <1>4, <1>6
  <2>2. ASSUME NEW k \in 1..Len(q), q[k] # Head(q)
        PROVE  q[k] \in {Tail(q)[m] : m \in 1..(Len(q) - 1)}
    BY <2>2, <1>3, <1>5
  <2>3. QED
    BY <1>1, <2>1, <2>2
<1>8. \A k, m \in DOMAIN Tail(q) : Tail(q)[k] = Tail(q)[m] => k = m
  <2>1. TAKE k, m \in DOMAIN Tail(q)
  <2>2. HAVE Tail(q)[k] = Tail(q)[m]
  <2>3. q[k + 1] = q[m + 1]
    BY <1>2, <1>4, <2>2
  <2>4. k + 1 = m + 1
    BY <1>4, <1>6, <2>3
  <2>5. QED
    BY <1>1, <1>4, <2>4
<1>9. QED
  BY <1>1, <1>3, <1>7, <1>8

\* down takes the token or joins the queue.
LEMMA DownEffect ==
  ASSUME SemOK, NEW i \in Phil, NEW x \in Sem, i \notin Waiters(x), down(i, x)
  PROVE  /\ SemOK'
         /\ \A y \in Sem : y # x => value'[y] = value[y] /\ Waiters(y)' = Waiters(y)
         /\ value'[x] = 0
         /\ \/ value[x] = 1 /\ Waiters(x)' = Waiters(x) /\ ready' = ready
            \/ value[x] = 0 /\ Waiters(x)' = Waiters(x) \cup {i} /\ ready' = ready \ {i}
<1>1. CASE value[x] > 0
  <2>1. value[x] = 1 /\ Waiters(x) = {}
    BY <1>1 DEF SemOK
  <2>2. value' = [value EXCEPT ![x] = 0] /\ wait_queue' = wait_queue /\ ready' = ready
    BY <1>1, <2>1 DEF down, SemOK
  <2>3. \A y \in Sem : Waiters(y)' = Waiters(y)
    BY <2>2 DEF Waiters
  <2>4. value' \in [Sem -> 0..1] /\ value'[x] = 0 /\ \A y \in Sem : y # x => value'[y] = value[y]
    BY <2>2 DEF SemOK
  <2>5. SemOK'
    BY <2>2, <2>3, <2>4 DEF SemOK
  <2>6. QED
    BY <2>1, <2>2, <2>3, <2>4, <2>5
<1>2. CASE ~(value[x] > 0)
  <2>1. value[x] = 0
    BY <1>2 DEF SemOK
  <2>2. /\ value' = value /\ ready' = ready \ {i}
        /\ wait_queue' = [wait_queue EXCEPT ![x] = Append(wait_queue[x], i)]
    BY <1>2 DEF down
  <2>3. /\ wait_queue'[x] = Append(wait_queue[x], i)
        /\ \A y \in Sem : y # x => wait_queue'[y] = wait_queue[y]
    BY <2>2 DEF SemOK
  <2>4. wait_queue[x] \in Seq(Phil)
    BY DEF SemOK
  <2>5. /\ wait_queue'[x] \in Seq(Phil) /\ Waiters(x)' = Waiters(x) \cup {i}
        /\ \A k, m \in DOMAIN wait_queue'[x] : wait_queue'[x][k] = wait_queue'[x][m] => k = m
    BY <2>3, <2>4, Appended DEF Waiters, SemOK
  <2>6. \A y \in Sem : y # x => Waiters(y)' = Waiters(y)
    BY <2>3 DEF Waiters
  <2>7. wait_queue' \in [Sem -> Seq(Phil)]
    BY <2>2, <2>3, <2>5 DEF SemOK
  <2>8. SemOK'
    BY <2>1, <2>2, <2>3, <2>5, <2>6, <2>7 DEF SemOK
  <2>9. QED
    BY <2>1, <2>2, <2>5, <2>6, <2>8
<1>3. QED
  BY <1>1, <1>2

\* up hands the token to a waiter, or leaves it when there is none.
LEMMA UpEffect ==
  ASSUME SemOK, NEW x \in Sem, value[x] = 0, up(x)
  PROVE  /\ SemOK'
         /\ \A y \in Sem : y # x => value'[y] = value[y] /\ Waiters(y)' = Waiters(y)
         /\ \/ Waiters(x) = {} /\ Waiters(x)' = {} /\ value'[x] = 1 /\ ready' = ready
            \/ \E h \in Waiters(x) : /\ Waiters(x)' = Waiters(x) \ {h}
                                     /\ value'[x] = 0 /\ ready' = ready \cup {h}
<1>1. CASE wait_queue[x] = <<>>
  <2>1. value' = [value EXCEPT ![x] = 1] /\ wait_queue' = wait_queue /\ ready' = ready
    BY <1>1 DEF up
  <2>2. Waiters(x) = {}
    BY <1>1 DEF Waiters
  <2>3. \A y \in Sem : Waiters(y)' = Waiters(y)
    BY <2>1 DEF Waiters
  <2>4. value' \in [Sem -> 0..1] /\ value'[x] = 1 /\ \A y \in Sem : y # x => value'[y] = value[y]
    BY <2>1 DEF SemOK
  <2>5. SemOK'
    BY <2>1, <2>2, <2>3, <2>4 DEF SemOK
  <2>6. QED
    BY <2>1, <2>2, <2>3, <2>4, <2>5
<1>2. CASE wait_queue[x] # <<>>
  <2>1. /\ value' = value /\ ready' = ready \cup {Head(wait_queue[x])}
        /\ wait_queue' = [wait_queue EXCEPT ![x] = Tail(wait_queue[x])]
    BY <1>2 DEF up
  <2>2. /\ wait_queue'[x] = Tail(wait_queue[x])
        /\ \A y \in Sem : y # x => wait_queue'[y] = wait_queue[y]
    BY <2>1 DEF SemOK
  <2>3. wait_queue[x] \in Seq(Phil)
    BY DEF SemOK
  <2>4. /\ wait_queue'[x] \in Seq(Phil) /\ Head(wait_queue[x]) \in Waiters(x)
        /\ Waiters(x)' = Waiters(x) \ {Head(wait_queue[x])}
        /\ \A k, m \in DOMAIN wait_queue'[x] : wait_queue'[x][k] = wait_queue'[x][m] => k = m
    <3>1. \A k, m \in DOMAIN wait_queue[x] : wait_queue[x][k] = wait_queue[x][m] => k = m
      BY DEF SemOK
    <3> DEFINE q == wait_queue[x]
    <3>2. /\ Tail(q) \in Seq(Phil)
          /\ Head(q) \in {q[k] : k \in 1..Len(q)}
          /\ {Tail(q)[k] : k \in 1..Len(Tail(q))} = {q[k] : k \in 1..Len(q)} \ {Head(q)}
          /\ \A k, m \in DOMAIN Tail(q) : Tail(q)[k] = Tail(q)[m] => k = m
      <4> HIDE DEF q
      <4> q \in Seq(Phil) /\ q # <<>> /\ \A k, m \in DOMAIN q : q[k] = q[m] => k = m
        BY <1>2, <2>3, <3>1 DEF q
      <4> QED BY Served
    <3>3. Waiters(x) = {q[k] : k \in 1..Len(q)}
      BY DEF Waiters
    <3>4. Waiters(x)' = {Tail(q)[k] : k \in 1..Len(Tail(q))}
      BY <2>2 DEF Waiters
    <3>5. QED
      BY <2>2, <3>2, <3>3, <3>4
  <2>5. \A y \in Sem : y # x => Waiters(y)' = Waiters(y)
    BY <2>2 DEF Waiters
  <2>6. wait_queue' \in [Sem -> Seq(Phil)]
    BY <2>1, <2>2, <2>4 DEF SemOK
  <2>7. SemOK'
    BY <2>1, <2>2, <2>4, <2>5, <2>6 DEF SemOK
  <2>8. QED
    BY <2>1, <2>4, <2>5, <2>7
<1>3. QED
  BY <1>1, <1>2

\* Whoever leaves the semaphores alone keeps what is known of them.
LEMMA SameSem ==
  ASSUME SemOK, UNCHANGED semVars
  PROVE  /\ SemOK'
         /\ \A x \in Sem : value'[x] = value[x] /\ Waiters(x)' = Waiters(x)
<1>1. value' = value /\ wait_queue' = wait_queue
  BY DEF semVars
<1>2. \A x : Waiters(x)' = Waiters(x)
  BY <1>1 DEF Waiters
<1>3. QED
  BY <1>1, <1>2 DEF SemOK

\* Only philosophers are in the queues.
LEMMA QueuedIsPhil ==
  ASSUME SemOK, NEW x \in Sem
  PROVE  Waiters(x) \subseteq Phil
<1>1. wait_queue[x] \in Seq(Phil)
  BY DEF SemOK
<1>2. \A k \in 1..Len(wait_queue[x]) : wait_queue[x][k] \in Phil
  BY <1>1
<1>3. QED
  BY <1>2 DEF Waiters

-----------------------------------------------------------------------------
(* What the invariant says of a thread. *)

\* A thread that is ready is in no queue, nor is one whose place is not behind a down.
LEMMA Unblocked ==
  ASSUME QueueOK, NEW i \in Phil, i \in ready \/ pc[i] \notin Queued
  PROVE  ~Blocked(i) /\ \A x \in Sem : i \notin Waiters(x)
BY DEF QueueOK, Blocked

\* Who owns the monitor.
LEMMA OwnsIs ==
  ASSUME QueueOK, NEW i \in Phil
  PROVE  /\ Owns(i) <=> pc[i] \notin Outside /\ ~Blocked(i)
         /\ pc[i] \notin Outside /\ (pc[i] \notin Queued \/ i \in ready) => Owns(i)
         /\ Blocked(i) <=> i \in Waiters(Door(i))
         /\ Door(i) \in Sem
<1>1. Door(i) \in Sem
  BY SemNames DEF Door, DoorAt
<1>2. Owns(i) <=> pc[i] \notin Outside /\ ~Blocked(i)
  BY DEF Owns, Outside
<1>3. Blocked(i) <=> i \in Waiters(Door(i))
  BY <1>1 DEF QueueOK, Blocked
<1>4. pc[i] \notin Queued \/ i \in ready => ~Blocked(i)
  BY Unblocked
<1>5. QED
  BY <1>1, <1>2, <1>3, <1>4

\* A place moved alone.
LEMMA Moved ==
  ASSUME VarsOK, NEW i \in Phil, NEW place \in Places, GoTo(i, place)
  PROVE  /\ pc' \in [Phil -> Places]
         /\ pc'[i] = place
         /\ \A j \in Phil : j # i => pc'[j] = pc[j]
BY DEF VarsOK, GoTo

\* A place of the table was set.
LEMMA WasSet ==
  ASSUME VarsOK, NEW i \in Phil, NEW st \in {"THINKING", "HUNGRY", "EATING"}, Set(i, st)
  PROVE  /\ state_condvar' \in [Phil -> {"THINKING", "HUNGRY", "EATING"}]
         /\ state_condvar'[i] = st
         /\ \A j \in Phil : j # i => state_condvar'[j] = state_condvar[j]
BY DEF VarsOK, Set

-----------------------------------------------------------------------------
(* Semaphores, queues and the monitor's token, by what a step does to them. *)

\* Thread i, which is in no queue, moves within the monitor or outside of it.
LEMMA CoreStill ==
  ASSUME SemOK, QueueOK, TokenOK, NEW i \in Phil, ~Blocked(i), UNCHANGED semVars,
         \A k \in Phil : k # i => pc'[k] = pc[k],
         pc'[i] \in Outside <=> pc[i] \in Outside,
         ready' \subseteq ready \cup {i}
  PROVE  /\ SemOK' /\ QueueOK' /\ TokenOK'
         /\ \A x \in Sem : value'[x] = value[x] /\ Waiters(x)' = Waiters(x)
         /\ \A k \in Phil : Owns(k)' <=> Owns(k)
<1>1. SemOK' /\ \A x \in Sem : value'[x] = value[x] /\ Waiters(x)' = Waiters(x)
  BY SameSem
<1>2. QueueOK'
  <2>1. SUFFICES ASSUME NEW x \in Sem, NEW k \in Waiters(x)'
                 PROVE  k \notin ready' /\ pc'[k] \in Queued /\ x = DoorAt(k, pc'[k])
    BY DEF QueueOK, Door
  <2>2. k \in Waiters(x) /\ k \in Phil
    BY <1>1, QueuedIsPhil
  <2>3. k # i
    BY <2>2 DEF Blocked
  <2>4. k \notin ready /\ pc[k] \in Queued /\ x = DoorAt(k, pc[k])
    BY <2>2 DEF QueueOK, Door
  <2>5. QED
    BY <2>2, <2>3, <2>4
<1>3. \A k \in Phil : Blocked(k)' <=> Blocked(k)
  BY <1>1 DEF Blocked
<1>4. \A k \in Phil : Owns(k)' <=> Owns(k)
  BY <1>3 DEF Owns, Outside
<1>5. TokenOK'
  BY <1>1, <1>4 DEF TokenOK
<1>6. QED
  BY <1>1, <1>2, <1>4, <1>5

\* Nothing moves but the processor.
LEMMA CoreSame ==
  ASSUME SemOK, QueueOK, TokenOK, UNCHANGED <<semVars, ready, pc>>
  PROVE  /\ SemOK' /\ QueueOK' /\ TokenOK'
         /\ \A x \in Sem : value'[x] = value[x] /\ Waiters(x)' = Waiters(x)
         /\ \A k \in Phil : Owns(k)' <=> Owns(k)
<1>1. SemOK' /\ \A x \in Sem : value'[x] = value[x] /\ Waiters(x)' = Waiters(x)
  BY SameSem
<1>2. QueueOK'
  BY <1>1 DEF QueueOK, Door
<1>3. \A k \in Phil : Blocked(k)' <=> Blocked(k)
  BY <1>1 DEF Blocked
<1>4. \A k \in Phil : Owns(k)' <=> Owns(k)
  BY <1>3 DEF Owns
<1>5. TokenOK'
  BY <1>1, <1>4 DEF TokenOK
<1>6. QED
  BY <1>1, <1>2, <1>4, <1>5

\* Thread i, outside, takes the token at its door or joins the queue there.
LEMMA CoreDown ==
  ASSUME SemOK, QueueOK, TokenOK, NEW i \in Phil, i \in ready, NEW x \in Sem, down(i, x),
         pc[i] \in Outside, pc'[i] \in Queued, x = DoorAt(i, pc'[i]),
         \A k \in Phil : k # i => pc'[k] = pc[k]
  PROVE  /\ SemOK' /\ QueueOK' /\ TokenOK'
         /\ \A y \in Sem : y # x => value'[y] = value[y] /\ Waiters(y)' = Waiters(y)
         /\ value'[x] = 0
         /\ ~Owns(i) /\ (Owns(i)' <=> value[x] = 1)
         /\ \A k \in Phil : k # i => (Owns(k)' <=> Owns(k))
         /\ ready' \subseteq ready
         /\ \/ value[x] = 1 /\ Waiters(x)' = Waiters(x) /\ i \notin Waiters(x)
            \/ value[x] = 0 /\ Waiters(x)' = Waiters(x) \cup {i}
<1>1. \A y \in Sem : i \notin Waiters(y)
  BY Unblocked
<1>2. /\ SemOK'
      /\ \A y \in Sem : y # x => value'[y] = value[y] /\ Waiters(y)' = Waiters(y)
      /\ value'[x] = 0
      /\ \/ value[x] = 1 /\ Waiters(x)' = Waiters(x) /\ ready' = ready
         \/ value[x] = 0 /\ Waiters(x)' = Waiters(x) \cup {i} /\ ready' = ready \ {i}
  BY <1>1, DownEffect
<1>3. QueueOK'
  <2>1. SUFFICES ASSUME NEW y \in Sem, NEW k \in Waiters(y)'
                 PROVE  k \notin ready' /\ pc'[k] \in Queued /\ y = DoorAt(k, pc'[k])
    BY DEF QueueOK, Door
  <2>2. CASE k = i
    <3>1. y = x /\ ready' = ready \ {i}
      BY <1>1, <1>2, <2>2
    <3>2. QED
      BY <2>2, <3>1
  <2>3. CASE k # i
    <3>1. k \in Waiters(y)
      BY <1>2, <2>3
    <3>2. k \notin ready /\ pc[k] \in Queued /\ y = DoorAt(k, pc[k]) /\ k \in Phil
      BY <3>1, QueuedIsPhil DEF QueueOK, Door
    <3>3. QED
      BY <1>2, <2>3, <3>2
  <2>4. QED
    BY <2>2, <2>3
<1>4. \A k \in Phil : k # i => (Blocked(k)' <=> Blocked(k))
  BY <1>2 DEF Blocked
<1>5. \A k \in Phil : k # i => (Owns(k)' <=> Owns(k))
  BY <1>4 DEF Owns
<1>6. ~Owns(i) /\ (Owns(i)' <=> value[x] = 1)
  <2>1. ~Owns(i)
    BY DEF Owns, Outside
  <2>2. Blocked(i)' <=> i \in Waiters(x)'
    BY <1>1, <1>2 DEF Blocked
  <2>3. Owns(i)' <=> ~Blocked(i)'
    BY DEF Owns, Queued
  <2>4. QED
    BY <1>1, <1>2, <2>1, <2>2, <2>3
<1>7. TokenOK'
  <2>1. CASE value[x] = 1
    <3>1. \A k \in Phil : ~Owns(k)
      BY <2>1 DEF TokenOK
    <3>2. \A y \in Sem : value'[y] # 1
      BY <1>2, <2>1 DEF TokenOK
    <3>3. \A k \in Phil : Owns(k)' => k = i
      BY <1>5, <3>1
    <3>4. QED
      BY <3>2, <3>3 DEF TokenOK
  <2>2. CASE value[x] # 1
    <3>1. \A k \in Phil : Owns(k)' <=> Owns(k)
      BY <1>5, <1>6, <2>2
    <3>2. \A y \in Sem : value'[y] = 1 => value[y] = 1
      BY <1>2
    <3>3. QED
      BY <3>1, <3>2 DEF TokenOK
  <2>3. QED
    BY <2>1, <2>2
<1>8. QED
  BY <1>1, <1>2, <1>3, <1>5, <1>6, <1>7

\* The owner leaves its token in a semaphore, or with the first that waits there.
LEMMA CoreUp ==
  ASSUME SemOK, QueueOK, TokenOK, NEW i \in Phil, Owns(i), i \in ready, NEW x \in Sem, up(x),
         pc'[i] \in Outside,
         \A k \in Phil : k # i => pc'[k] = pc[k]
  PROVE  /\ SemOK' /\ QueueOK' /\ TokenOK'
         /\ \A y \in Sem : value[y] = 0
         /\ \A y \in Sem : y # x => value'[y] = 0 /\ Waiters(y)' = Waiters(y)
         /\ \A k \in Phil : k # i => ~Owns(k)
         /\ ready \subseteq ready'
         /\ \/ /\ Waiters(x) = {} /\ Waiters(x)' = {} /\ value'[x] = 1 /\ ready' = ready
               /\ \A k \in Phil : ~Owns(k)'
            \/ \E h \in Waiters(x) : /\ h \in Phil /\ h # i /\ Waiters(x)' = Waiters(x) \ {h}
                                     /\ value'[x] = 0 /\ ready' = ready \cup {h}
                                     /\ Owns(h)' /\ \A k \in Phil : k # h => ~Owns(k)'
<1>1. \A y \in Sem : value[y] = 0
  BY DEF TokenOK, SemOK
<1>2. \A k \in Phil : k # i => ~Owns(k)
  BY DEF TokenOK
<1>3. /\ SemOK'
      /\ \A y \in Sem : y # x => value'[y] = value[y] /\ Waiters(y)' = Waiters(y)
      /\ \/ Waiters(x) = {} /\ Waiters(x)' = {} /\ value'[x] = 1 /\ ready' = ready
         \/ \E h \in Waiters(x) : /\ Waiters(x)' = Waiters(x) \ {h}
                                  /\ value'[x] = 0 /\ ready' = ready \cup {h}
  BY <1>1, UpEffect
<1>4. \A y \in Sem : i \notin Waiters(y)
  BY Unblocked
<1>5. ~Owns(i)'
  BY DEF Owns, Outside
<1>6. CASE Waiters(x) = {} /\ Waiters(x)' = {} /\ value'[x] = 1 /\ ready' = ready
  <2>1. \A y \in Sem : Waiters(y)' = Waiters(y)
    BY <1>3, <1>6
  <2>2. QueueOK'
    <3>1. SUFFICES ASSUME NEW y \in Sem, NEW k \in Waiters(y)'
                   PROVE  k \notin ready' /\ pc'[k] \in Queued /\ y = DoorAt(k, pc'[k])
      BY DEF QueueOK, Door
    <3>2. k \in Waiters(y) /\ k \in Phil /\ k # i
      BY <1>4, <2>1, QueuedIsPhil
    <3>3. k \notin ready /\ pc[k] \in Queued /\ y = DoorAt(k, pc[k])
      BY <3>2 DEF QueueOK, Door
    <3>4. QED
      BY <1>6, <3>2, <3>3
  <2>3. \A k \in Phil : k # i => ~Owns(k)'
    <3>1. \A k \in Phil : Blocked(k)' <=> Blocked(k)
      BY <2>1 DEF Blocked
    <3>2. QED
      BY <1>2, <3>1 DEF Owns
  <2>4. \A k \in Phil : ~Owns(k)'
    BY <1>5, <2>3
  <2>5. TokenOK'
    <3>1. \A y \in Sem : value'[y] = 1 => y = x
      BY <1>1, <1>3
    <3>2. QED
      BY <2>4, <3>1 DEF TokenOK
  <2>6. QED
    BY <1>1, <1>2, <1>3, <1>6, <2>2, <2>4, <2>5
<1>7. ASSUME NEW h \in Waiters(x), Waiters(x)' = Waiters(x) \ {h}, value'[x] = 0,
             ready' = ready \cup {h}
      PROVE  /\ h \in Phil /\ h # i /\ QueueOK' /\ TokenOK'
             /\ Owns(h)' /\ \A k \in Phil : k # h => ~Owns(k)'
  <2>1. h \in Phil /\ h # i /\ h \notin ready /\ pc[h] \in Queued /\ x = Door(h)
    BY <1>4, QueuedIsPhil DEF QueueOK
  <2>2. \A y \in Sem : Waiters(y)' = Waiters(y) \ {h}
    BY <1>3, <1>7, <2>1 DEF QueueOK
  <2>3. QueueOK'
    <3>1. SUFFICES ASSUME NEW y \in Sem, NEW k \in Waiters(y)'
                   PROVE  k \notin ready' /\ pc'[k] \in Queued /\ y = DoorAt(k, pc'[k])
      BY DEF QueueOK, Door
    <3>2. k \in Waiters(y) /\ k \in Phil /\ k # i /\ k # h
      BY <1>4, <2>2, QueuedIsPhil
    <3>3. k \notin ready /\ pc[k] \in Queued /\ y = DoorAt(k, pc[k])
      BY <3>2 DEF QueueOK, Door
    <3>4. QED
      BY <1>7, <3>2, <3>3
  <2>4. Owns(h)'
    <3>1. ~Blocked(h)'
      BY <2>2 DEF Blocked
    <3>2. pc'[h] \in Queued
      BY <2>1
    <3>3. QED
      BY <3>1, <3>2 DEF Owns, Queued
  <2>5. ASSUME NEW k \in Phil, k # h
        PROVE  ~Owns(k)'
    <3>1. CASE k = i
      BY <1>5, <3>1
    <3>2. CASE k # i
      <4>1. Blocked(k)' <=> Blocked(k)
        BY <2>2, <2>5 DEF Blocked
      <4>2. QED
        BY <1>2, <3>2, <4>1 DEF Owns
    <3>3. QED
      BY <3>1, <3>2
  <2>6. TokenOK'
    <3>1. \A y \in Sem : value'[y] # 1
      BY <1>1, <1>3, <1>7
    <3>2. QED
      BY <2>5, <3>1 DEF TokenOK
  <2>7. QED
    BY <2>1, <2>3, <2>4, <2>5, <2>6
<1>8. CASE \E h \in Waiters(x) : /\ Waiters(x)' = Waiters(x) \ {h}
                                 /\ value'[x] = 0 /\ ready' = ready \cup {h}
  <2>1. PICK h \in Waiters(x) : /\ Waiters(x)' = Waiters(x) \ {h}
                                /\ value'[x] = 0 /\ ready' = ready \cup {h}
    BY <1>8
  <2>2. /\ h \in Phil /\ h # i /\ QueueOK' /\ TokenOK'
        /\ Owns(h)' /\ \A k \in Phil : k # h => ~Owns(k)'
    BY <1>7, <2>1
  <2>3. \A y \in Sem : y # x => value'[y] = 0 /\ Waiters(y)' = Waiters(y)
    BY <1>1, <1>3
  <2>4. QED
    BY <1>1, <1>2, <1>3, <2>1, <2>2, <2>3
<1>9. QED
  BY <1>3, <1>6, <1>8

-----------------------------------------------------------------------------
(* The monitor. *)

\* Waits, or is about to wait, on its condition variable.
Waiting(c) == pc[c] = "wait_down" \/ (pc[c] = "wait_end" /\ c \in Waiters(cvsem(c)))

\* Between the counting of a signaller and its return.
Signaller(k) == pc[k] \in {"signal_up", "signal_down", "signal_end"}

\* The thread that k has signalled has been given the monitor, and not given it back yet.
Handed(k) == \/ value[cvsem(cv[k])] = 1
             \/ Owns(cv[k]) /\ pc[cv[k]] \in {"wait_end", "leave_take"}

\* What a signal finds and leaves.
PromiseOK(k) ==
    /\ pc[k] \in {"signal", "signal_up"} => state_condvar[cv[k]] = "EATING"
    /\ pc[k] = "signal_up" => Waiting(cv[k])
    /\ pc[k] = "signal_down" => value[next] = 1 \/ Handed(k)
    /\ pc[k] = "signal_end" /\ k \in Waiters(next) => Handed(k)

\* The counters count, and there is one signaller at a time.
CountersOK == /\ next_count = 1 <=> \E k \in Phil : Signaller(k)
              /\ \A k, m \in Phil : Signaller(k) /\ Signaller(m) => k = m
              /\ \A k \in Phil : count[k] = 1 <=> pc[k] \in {"wait_up", "wait_down", "wait_end"}

\* Where a philosopher is, and what the table knows of it.
State(k, S) == state_condvar[k] \in S

\* Where a signal is given, and with which result of the test.
SignalPlaceOK(k) ==
    \/ pc[k] = "signal" /\ cv[k] = k /\ ret[k] = "tested" /\ State(k, {"EATING"})
    \/ State(k, {"THINKING"}) /\ cv[k] = LEFT(k) /\ ret[k] = "testright"
    \/ State(k, {"THINKING"}) /\ cv[k] = RIGHT(k) /\ ret[k] = "leave_put"

\* The same of every statement.
PlaceOK(k) ==
    /\ pc[k] \in {"think", "take", "hungry", "testleft", "testright", "leave_put", "quit"}
         => State(k, {"THINKING"})
    /\ pc[k] \in {"test", "wait", "wait_up"} => State(k, {"HUNGRY"})
    /\ pc[k] \in {"tested", "wait_down"} => State(k, {"HUNGRY", "EATING"})
    /\ pc[k] = "wait_end" => \/ State(k, {"EATING"})
                             \/ State(k, {"HUNGRY"}) /\ k \in Waiters(cvsem(k))
    /\ pc[k] \in {"leave_take", "eat", "put", "putdown"} => State(k, {"EATING"})
    /\ pc[k] \in {"wait", "wait_up", "wait_down", "wait_end"} => cv[k] = k /\ ret[k] = "leave_take"
    /\ pc[k] \in {"signal", "signal_up", "signal_down", "signal_end"} => SignalPlaceOK(k)
    /\ pc[k] \in {"signal_up", "signal_down", "signal_end"} => cv[k] # k
    /\ value[cvsem(k)] = 1 => pc[k] = "wait_down" /\ State(k, {"EATING"})

\* The table.
TableOK == \A k \in Phil : state_condvar[k] = "EATING" =>
              state_condvar[LEFT(k)] # "EATING" /\ state_condvar[RIGHT(k)] # "EATING"

\* Thread j will test k before it leaves the monitor.
WillTest(j, k) ==
    \/ pc[j] = "testleft" /\ k \in {LEFT(j), RIGHT(j)}
    \/ pc[j] = "testright" /\ k = RIGHT(j)
    \/ /\ pc[j] \in {"signal", "signal_up", "signal_down", "signal_end"}
       /\ ret[j] = "testright" /\ k = RIGHT(j)

\* A hungry philosopher has an eating neighbour, or is about to be tested.
Remembered(k) == state_condvar[k] = "HUNGRY" =>
                    \/ state_condvar[LEFT(k)] = "EATING" \/ state_condvar[RIGHT(k)] = "EATING"
                    \/ pc[k] = "test" \/ \E j \in Phil : WillTest(j, k)

\* The token's part of the invariant, and the table's.
Core == SemOK /\ VarsOK /\ QueueOK /\ TokenOK
Rest == /\ CountersOK /\ TableOK
        /\ \A k \in Phil : PlaceOK(k) /\ PromiseOK(k) /\ Remembered(k)
IInv == Core /\ Rest

-----------------------------------------------------------------------------
(* What a step keeps. *)

\* What PlaceOK(k) looks at.
LEMMA PlaceKept ==
  ASSUME NEW k \in Phil, PlaceOK(k), pc'[k] = pc[k], state_condvar'[k] = state_condvar[k],
         cv'[k] = cv[k], ret'[k] = ret[k],
         value'[cvsem(k)] = value[cvsem(k)], Waiters(cvsem(k))' = Waiters(cvsem(k))
  PROVE  PlaceOK(k)'
BY DEF PlaceOK, SignalPlaceOK, State

\* What PromiseOK(k) looks at: its thread, and the one that it signals.
LEMMA PromiseKept ==
  ASSUME NEW k \in Phil, NEW c \in Phil, c = cv[k], PromiseOK(k),
         pc'[k] = pc[k], cv'[k] = cv[k],
         state_condvar[c] = "EATING" => state_condvar'[c] = "EATING",
         value'[next] = value[next], Waiters(next)' = Waiters(next),
         value'[cvsem(c)] = value[cvsem(c)], Waiters(cvsem(c))' = Waiters(cvsem(c)),
         Owns(c) /\ pc[c] \in {"wait_end", "leave_take"} => Owns(c)',
         pc'[c] = pc[c] \/ pc[c] \notin {"wait_down", "wait_end", "leave_take"}
  PROVE  PromiseOK(k)'
BY DEF PromiseOK, Handed, Waiting

\* A hungry philosopher stays remembered when the table stays as it is and nobody gives
\* up a test.
LEMMA MemoryKept ==
  ASSUME \A k \in Phil : Remembered(k), NEW i \in Phil, state_condvar' = state_condvar,
         \A k \in Phil : k # i => pc'[k] = pc[k] /\ ret'[k] = ret[k],
         \/ pc'[i] = pc[i] /\ ret'[i] = ret[i]
         \/ pc[i] \notin {"test", "testleft", "testright",
                          "signal", "signal_up", "signal_down", "signal_end"}
         \/ /\ pc[i] \in {"signal", "signal_up", "signal_down", "signal_end"}
            /\ ret'[i] = ret[i]
            /\ pc'[i] \in {"signal", "signal_up", "signal_down", "signal_end", ret[i]}
  PROVE  \A k \in Phil : Remembered(k)'
<1>1. \A j, k \in Phil : WillTest(j, k) => WillTest(j, k)'
  <2>1. TAKE j, k \in Phil
  <2>2. CASE j # i
    BY <2>2 DEF WillTest
  <2>3. CASE j = i
    BY <2>3 DEF WillTest
  <2>4. QED
    BY <2>2, <2>3
<1>2. \A k \in Phil : pc[k] = "test" => pc'[k] = "test"
  OBVIOUS
<1>3. QED
  BY <1>1, <1>2 DEF Remembered

\* The owner of the monitor: there is no token elsewhere, and a signaller only if it has
\* handed the monitor to this thread.
LEMMA OwnerAlone ==
  ASSUME IInv, NEW i \in Phil, Owns(i)
  PROVE  /\ \A x \in Sem : value[x] = 0
         /\ \A k \in Phil : k # i =>
               /\ ~Owns(k)
               /\ pc[k] \in Outside \cup Queued
               /\ Signaller(k) => /\ cv[k] = i /\ pc[i] \in {"wait_end", "leave_take"}
                                  /\ pc[k] = "signal_down" \/ k \in Waiters(next)
<1>1. SemOK /\ VarsOK /\ QueueOK /\ TokenOK /\ \A k \in Phil : PromiseOK(k)
  BY DEF IInv, Core, Rest
<1>2. \A x \in Sem : value[x] = 0
  BY <1>1 DEF TokenOK, SemOK
<1>3. \A k \in Phil : k # i => ~Owns(k)
  BY <1>1 DEF TokenOK
<1>4. \A k \in Phil : k # i => pc[k] \in Outside \cup Queued
  BY <1>1, <1>3, OwnsIs
<1>5. ASSUME NEW k \in Phil, k # i, Signaller(k)
      PROVE  /\ cv[k] = i /\ pc[i] \in {"wait_end", "leave_take"}
             /\ pc[k] = "signal_down" \/ k \in Waiters(next)
  <2>1. pc[k] \in {"signal_down", "signal_end"}
    BY <1>4, <1>5 DEF Signaller, Outside, Queued
  <2>2. pc[k] = "signal_end" => k \in Waiters(next)
    <3>1. HAVE pc[k] = "signal_end"
    <3>2. Blocked(k) /\ Door(k) = next
      BY <1>1, <1>3, <1>5, <3>1, OwnsIs DEF Outside, Door, DoorAt
    <3>3. QED
      BY <1>1, <3>2, OwnsIs
  <2>3. cv[k] \in Phil /\ value[next] = 0 /\ value[cvsem(cv[k])] = 0
    BY <1>1, <1>2, SemNames DEF VarsOK
  <2>4. Handed(k)
    BY <1>1, <2>1, <2>2, <2>3 DEF PromiseOK
  <2>5. QED
    BY <1>3, <2>1, <2>2, <2>3, <2>4 DEF Handed
<1>6. QED
  BY <1>2, <1>3, <1>4, <1>5

\* Where it is the owner's turn and it has not been woken by a signal, nobody else signals.
LEMMA NoSignals ==
  ASSUME IInv, NEW i \in Phil, Owns(i), pc[i] \notin {"wait_end", "leave_take"}
  PROVE  /\ \A k \in Phil : k # i =>
               pc[k] \notin {"signal", "signal_up", "signal_down", "signal_end"}
         /\ \A k \in Phil : k # i /\ pc'[k] = pc[k] => PromiseOK(k)'
         /\ pc[i] \notin {"signal_up", "signal_down", "signal_end"} => next_count = 0
<1>1. \A k \in Phil : k # i => ~Signaller(k) /\ pc[k] \in Outside \cup Queued
  BY OwnerAlone
<1>2. \A k \in Phil : k # i =>
          pc[k] \notin {"signal", "signal_up", "signal_down", "signal_end"}
  BY <1>1 DEF Signaller, Outside, Queued
<1>3. \A k \in Phil : k # i /\ pc'[k] = pc[k] => PromiseOK(k)'
  BY <1>2 DEF PromiseOK
<1>4. pc[i] \notin {"signal_up", "signal_down", "signal_end"} => next_count = 0
  BY <1>1 DEF IInv, Core, Rest, VarsOK, CountersOK, Signaller
<1>5. QED
  BY <1>2, <1>3, <1>4

\* The counters stay right when no thread begins or ends to be counted.
LEMMA CountersKept ==
  ASSUME CountersOK, UNCHANGED monVars,
         \A k \in Phil : /\ Signaller(k)' <=> Signaller(k)
                         /\ (pc'[k] \in {"wait_up", "wait_down", "wait_end"}
                               <=> pc[k] \in {"wait_up", "wait_down", "wait_end"})
  PROVE  CountersOK'
BY DEF CountersOK, monVars

-----------------------------------------------------------------------------
(* The steps outside of the monitor, and into it. *)

\* Places that neither signal, wait nor test.
Plain == {"think", "take", "hungry", "eat", "put", "putdown", "quit", "leave_put"}

\* A thread moves between such places, or nowhere.
LEMMA RestKept ==
  ASSUME IInv, NEW i \in Phil,
         UNCHANGED <<monVars, cv, ret, state_condvar>>,
         \A k \in Phil : k # i => pc'[k] = pc[k],
         pc'[i] = pc[i] \/ (pc[i] \in Plain /\ pc'[i] \in Plain),
         PlaceOK(i)',
         \A k \in Phil : /\ value'[cvsem(k)] = value[cvsem(k)]
                         /\ Waiters(cvsem(k))' = Waiters(cvsem(k)),
         value'[next] = value[next], Waiters(next)' = Waiters(next),
         \A k \in Phil : Owns(k) /\ pc[k] \in {"wait_end", "leave_take"} => Owns(k)'
  PROVE  Rest'
<1>1. /\ VarsOK /\ CountersOK /\ TableOK
      /\ \A k \in Phil : PlaceOK(k) /\ PromiseOK(k) /\ Remembered(k)
  BY DEF IInv, Core, Rest
<1>2. CountersOK'
  <2>1. \A k \in Phil : /\ Signaller(k)' <=> Signaller(k)
                        /\ (pc'[k] \in {"wait_up", "wait_down", "wait_end"}
                              <=> pc[k] \in {"wait_up", "wait_down", "wait_end"})
    BY DEF Signaller, Plain
  <2>2. QED
    BY <1>1, <2>1, CountersKept
<1>3. \A k \in Phil : PlaceOK(k)'
  BY <1>1, PlaceKept
<1>4. ASSUME NEW k \in Phil
      PROVE  PromiseOK(k)'
  <2>1. CASE pc'[k] = pc[k]
    <3>1. cv[k] \in Phil
      BY <1>1 DEF VarsOK
    <3>2. pc'[cv[k]] = pc[cv[k]] \/ pc[cv[k]] \notin {"wait_down", "wait_end", "leave_take"}
      BY <3>1 DEF Plain
    <3>3. QED
      BY <1>1, <2>1, <3>1, <3>2, PromiseKept
  <2>2. CASE pc'[k] # pc[k]
    BY <2>2 DEF PromiseOK, Plain
  <2>3. QED
    BY <2>1, <2>2
<1>5. TableOK'
  BY <1>1 DEF TableOK
<1>6. \A k \in Phil : Remembered(k)'
  <2>1. \/ pc'[i] = pc[i] /\ ret'[i] = ret[i]
        \/ pc[i] \notin {"test", "testleft", "testright",
                         "signal", "signal_up", "signal_down", "signal_end"}
    BY DEF Plain
  <2>2. QED
    BY <1>1, <2>1, MemoryKept
<1>7. QED
  BY <1>2, <1>3, <1>4, <1>5, <1>6 DEF Rest

\* do_sleep, the timer, and the end of a thread.
LEMMA SleepStep ==
  ASSUME PhilAssumption, IInv, NEW i \in Phil, think(i) \/ eat(i) \/ wake(i)
  PROVE  IInv'
<1>0. SemOK /\ VarsOK /\ QueueOK /\ TokenOK /\ PlaceOK(i)
  BY DEF IInv, Core, Rest
<1>1. /\ UNCHANGED <<semVars, running, monVars, cv, ret, state_condvar>>
      /\ \/ /\ ready' = ready \ {i}
            /\ \/ pc[i] = "think" /\ (GoTo(i, "take") \/ GoTo(i, "quit"))
               \/ pc[i] = "eat" /\ GoTo(i, "put")
         \/ pc[i] \in {"take", "put"} /\ ready' = ready \cup {i} /\ pc' = pc
  BY DEF think, eat, wake, At
<1>2. iter' \in [Phil -> 0..TIMES]
  BY <1>0 DEF think, eat, wake, VarsOK, PhilAssumption
<1>3. /\ pc' \in [Phil -> Places] /\ \A k \in Phil : k # i => pc'[k] = pc[k]
      /\ \/ pc[i] = "think" /\ pc'[i] \in {"take", "quit"}
         \/ pc[i] = "eat" /\ pc'[i] = "put"
         \/ pc'[i] = pc[i] /\ pc[i] \in {"take", "put"}
  <2>1. CASE GoTo(i, "take") \/ GoTo(i, "quit") \/ GoTo(i, "put")
    BY <1>0, <1>1, <2>1, Moved DEF Places, VarsOK
  <2>2. CASE pc' = pc
    BY <1>0, <1>1, <2>2 DEF VarsOK, GoTo
  <2>3. QED
    BY <1>1, <2>1, <2>2
<1>4. pc[i] \notin Queued /\ (pc'[i] \in Outside <=> pc[i] \in Outside)
  BY <1>3 DEF Queued, Outside
<1>5. /\ SemOK' /\ QueueOK' /\ TokenOK'
      /\ \A x \in Sem : value'[x] = value[x] /\ Waiters(x)' = Waiters(x)
      /\ \A k \in Phil : Owns(k)' <=> Owns(k)
  <2>1. ~Blocked(i)
    BY <1>0, <1>4, Unblocked
  <2>2. ready' \subseteq ready \cup {i}
    BY <1>1
  <2>3. QED
    BY <1>0, <1>1, <1>3, <1>4, <2>1, <2>2, CoreStill
<1>6. VarsOK'
  BY <1>0, <1>1, <1>2, <1>3 DEF VarsOK, monVars
<1>7. Rest'
  <2>1. PlaceOK(i)'
    BY <1>0, <1>1, <1>3, <1>5, SemNames DEF PlaceOK, State
  <2>2. pc'[i] = pc[i] \/ (pc[i] \in Plain /\ pc'[i] \in Plain)
    BY <1>3 DEF Plain
  <2>3. QED
    BY <1>1, <1>3, <1>5, <2>1, <2>2, SemNames, RestKept
<1>8. QED
  BY <1>5, <1>6, <1>7 DEF IInv, Core

\* schedule(), or nothing at all.
LEMMA SwitchStep ==
  ASSUME IInv, switch \/ UNCHANGED vars
  PROVE  IInv'
<1>0. SemOK /\ VarsOK /\ QueueOK /\ TokenOK /\ \A k \in Phil : PlaceOK(k)
  BY DEF IInv, Core, Rest
<1>1. /\ UNCHANGED <<semVars, ready, monVars, cv, ret, state_condvar, iter, pc>>
      /\ running' \in Phil
  BY <1>0 DEF switch, Switch, vars, VarsOK, semVars
<1>2. /\ SemOK' /\ QueueOK' /\ TokenOK'
      /\ \A x \in Sem : value'[x] = value[x] /\ Waiters(x)' = Waiters(x)
      /\ \A k \in Phil : Owns(k)' <=> Owns(k)
  BY <1>0, <1>1, CoreSame
<1>3. VarsOK'
  BY <1>0, <1>1 DEF VarsOK, monVars
<1>4. running \in Phil /\ PlaceOK(running)'
  <2>1. running \in Phil
    BY <1>0 DEF VarsOK
  <2>2. QED
    BY <1>0, <1>1, <1>2, <2>1, SemNames, PlaceKept
<1>5. Rest'
  BY <1>1, <1>2, <1>4, SemNames, RestKept
<1>6. QED
  BY <1>2, <1>3, <1>5 DEF IInv, Core

\* down(&mutex).
LEMMA EnterStep ==
  ASSUME IInv, NEW i \in Phil, take(i) \/ put(i)
  PROVE  IInv'
<1>0. SemOK /\ VarsOK /\ QueueOK /\ TokenOK /\ PlaceOK(i)
  BY DEF IInv, Core, Rest
<1>1. /\ i \in ready /\ UNCHANGED <<running, monVars, cv, ret, state_condvar, iter>>
      /\ down(i, mutex)
      /\ \/ pc[i] = "take" /\ GoTo(i, "hungry")
         \/ pc[i] = "put" /\ GoTo(i, "putdown")
  BY DEF take, put, At
<1>2. /\ pc' \in [Phil -> Places] /\ \A k \in Phil : k # i => pc'[k] = pc[k]
      /\ \/ pc[i] = "take" /\ pc'[i] = "hungry"
         \/ pc[i] = "put" /\ pc'[i] = "putdown"
  BY <1>0, <1>1, Moved DEF Places
<1>3. /\ SemOK' /\ QueueOK' /\ TokenOK'
      /\ \A y \in Sem : y # mutex => value'[y] = value[y] /\ Waiters(y)' = Waiters(y)
      /\ ~Owns(i) /\ \A k \in Phil : k # i => (Owns(k)' <=> Owns(k))
      /\ ready' \subseteq ready
  <2>1. pc[i] \in Outside /\ pc'[i] \in Queued /\ mutex = DoorAt(i, pc'[i])
    BY <1>2 DEF Outside, Queued, DoorAt
  <2>2. QED
    BY <1>0, <1>1, <1>2, <2>1, SemNames, CoreDown
<1>4. VarsOK'
  BY <1>0, <1>1, <1>2, <1>3 DEF VarsOK, monVars
<1>5. /\ \A k \in Phil : value'[cvsem(k)] = value[cvsem(k)] /\ Waiters(cvsem(k))' = Waiters(cvsem(k))
      /\ value'[next] = value[next] /\ Waiters(next)' = Waiters(next)
  BY <1>3, SemNames
<1>6. PlaceOK(i)'
  BY <1>0, <1>1, <1>2, <1>5 DEF PlaceOK, State
<1>7. Rest'
  <2>1. pc[i] \in Plain /\ pc'[i] \in Plain
    BY <1>2 DEF Plain
  <2>2. \A k \in Phil : Owns(k) => Owns(k)'
    BY <1>3
  <2>3. QED
    BY <1>1, <1>2, <1>5, <1>6, <2>1, <2>2, RestKept
<1>8. QED
  BY <1>3, <1>4, <1>7 DEF IInv, Core

-----------------------------------------------------------------------------
(* The steps in the monitor that set a place of the table. *)

\* The owner stays in the monitor and leaves the semaphores alone.
LEMMA OwnerStays ==
  ASSUME IInv, NEW i \in Phil, i \in ready, pc[i] \notin Outside, pc'[i] \notin Outside,
         UNCHANGED <<semVars, ready>>,
         \A k \in Phil : k # i => pc'[k] = pc[k]
  PROVE  /\ Owns(i) /\ Owns(i)' /\ SemOK' /\ QueueOK' /\ TokenOK'
         /\ \A x \in Sem : value[x] = 0 /\ value'[x] = 0 /\ Waiters(x)' = Waiters(x)
<1>1. SemOK /\ QueueOK /\ TokenOK
  BY DEF IInv, Core
<1>2. Owns(i) /\ ~Blocked(i)
  BY <1>1, OwnsIs, Unblocked
<1>3. /\ SemOK' /\ QueueOK' /\ TokenOK'
      /\ \A x \in Sem : value'[x] = value[x] /\ Waiters(x)' = Waiters(x)
      /\ \A k \in Phil : Owns(k)' <=> Owns(k)
  BY <1>1, <1>2, CoreStill
<1>4. \A x \in Sem : value[x] = 0
  BY <1>2, OwnerAlone
<1>5. QED
  BY <1>2, <1>3, <1>4

\* phi_take_forks_condvar says that the philosopher is hungry.
LEMMA HungryStep ==
  ASSUME PhilAssumption, IInv, NEW i \in Phil, hungry(i)
  PROVE  IInv'
<1>0. /\ VarsOK /\ CountersOK /\ TableOK
      /\ \A k \in Phil : PlaceOK(k) /\ PromiseOK(k) /\ Remembered(k)
  BY DEF IInv, Core, Rest
<1>1. /\ i \in ready /\ pc[i] = "hungry" /\ GoTo(i, "test") /\ Set(i, "HUNGRY")
      /\ UNCHANGED <<semVars, ready, running, monVars, cv, ret, iter>>
  BY DEF hungry, At
<1>2. /\ pc' \in [Phil -> Places] /\ pc'[i] = "test"
      /\ \A k \in Phil : k # i => pc'[k] = pc[k]
  BY <1>0, <1>1, Moved DEF Places
<1>3. /\ state_condvar' \in [Phil -> {"THINKING", "HUNGRY", "EATING"}]
      /\ state_condvar'[i] = "HUNGRY"
      /\ \A k \in Phil : k # i => state_condvar'[k] = state_condvar[k]
  BY <1>0, <1>1, WasSet
<1>4. /\ Owns(i) /\ SemOK' /\ QueueOK' /\ TokenOK'
      /\ \A x \in Sem : value[x] = 0 /\ value'[x] = 0 /\ Waiters(x)' = Waiters(x)
  BY <1>1, <1>2, OwnerStays DEF Outside
<1>5. VarsOK'
  BY <1>0, <1>1, <1>2, <1>3 DEF VarsOK, monVars
<1>6. CountersOK'
  <2>1. \A k \in Phil : /\ Signaller(k)' <=> Signaller(k)
                        /\ (pc'[k] \in {"wait_up", "wait_down", "wait_end"}
                              <=> pc[k] \in {"wait_up", "wait_down", "wait_end"})
    BY <1>1, <1>2 DEF Signaller
  <2>2. QED
    BY <1>0, <1>1, <2>1, CountersKept
<1>7. \A k \in Phil : PlaceOK(k)'
  <2>1. TAKE k \in Phil
  <2>2. value'[cvsem(k)] = value[cvsem(k)] /\ Waiters(cvsem(k))' = Waiters(cvsem(k))
        /\ value'[cvsem(k)] = 0
    BY <1>4, SemNames
  <2>3. CASE k = i
    BY <1>2, <1>3, <2>2, <2>3 DEF PlaceOK, State
  <2>4. CASE k # i
    BY <1>0, <1>1, <1>2, <1>3, <2>2, <2>4, PlaceKept
  <2>5. QED
    BY <2>3, <2>4
<1>8. \A k \in Phil : PromiseOK(k)'
  <2>1. \A k \in Phil : k # i => PromiseOK(k)'
    BY <1>1, <1>2, <1>4, NoSignals
  <2>2. PromiseOK(i)'
    BY <1>2 DEF PromiseOK
  <2>3. QED
    BY <2>1, <2>2
<1>9. \A k \in Phil : state_condvar'[k] = "EATING" <=> state_condvar[k] = "EATING"
  BY <1>0, <1>1, <1>3 DEF PlaceOK, State
<1>10. TableOK'
  BY <1>0, <1>9, Seats DEF TableOK
<1>11. ASSUME NEW k \in Phil, state_condvar'[k] = "HUNGRY"
       PROVE  \/ state_condvar'[LEFT(k)] = "EATING" \/ state_condvar'[RIGHT(k)] = "EATING"
              \/ pc'[k] = "test" \/ \E j \in Phil : WillTest(j, k)'
  <2>1. CASE k = i
    BY <1>2, <2>1
  <2>2. CASE k # i
    <3>1. \A j \in Phil : WillTest(j, k) => WillTest(j, k)'
      BY <1>1, <1>2 DEF WillTest
    <3>2. state_condvar[k] = "HUNGRY" /\ (pc[k] = "test" => pc'[k] = "test")
      BY <1>2, <1>3, <1>11, <2>2
    <3>3. Remembered(k)
      BY <1>0
    <3>4. QED
      BY <1>9, <3>1, <3>2, <3>3, Seats DEF Remembered
  <2>3. QED
    BY <2>1, <2>2
<1>12. \A k \in Phil : Remembered(k)'
  BY <1>11 DEF Remembered
<1>13. QED
  BY <1>4, <1>5, <1>6, <1>7, <1>8, <1>10, <1>12 DEF IInv, Core, Rest

\* phi_put_forks_condvar says that the philosopher thinks: its neighbours will be tested.
LEMMA PutdownStep ==
  ASSUME PhilAssumption, IInv, NEW i \in Phil, putdown(i)
  PROVE  IInv'
<1>0. /\ VarsOK /\ CountersOK /\ TableOK
      /\ \A k \in Phil : PlaceOK(k) /\ PromiseOK(k) /\ Remembered(k)
  BY DEF IInv, Core, Rest
<1>1. /\ i \in ready /\ pc[i] = "putdown" /\ GoTo(i, "testleft") /\ Set(i, "THINKING")
      /\ UNCHANGED <<semVars, ready, running, monVars, cv, ret, iter>>
  BY DEF putdown, At
<1>2. /\ pc' \in [Phil -> Places] /\ pc'[i] = "testleft"
      /\ \A k \in Phil : k # i => pc'[k] = pc[k]
  BY <1>0, <1>1, Moved DEF Places
<1>3. /\ state_condvar' \in [Phil -> {"THINKING", "HUNGRY", "EATING"}]
      /\ state_condvar'[i] = "THINKING"
      /\ \A k \in Phil : k # i => state_condvar'[k] = state_condvar[k]
  BY <1>0, <1>1, WasSet
<1>4. /\ Owns(i) /\ SemOK' /\ QueueOK' /\ TokenOK'
      /\ \A x \in Sem : value[x] = 0 /\ value'[x] = 0 /\ Waiters(x)' = Waiters(x)
  BY <1>1, <1>2, OwnerStays DEF Outside
<1>5. VarsOK'
  BY <1>0, <1>1, <1>2, <1>3 DEF VarsOK, monVars
<1>6. CountersOK'
  <2>1. \A k \in Phil : /\ Signaller(k)' <=> Signaller(k)
                        /\ (pc'[k] \in {"wait_up", "wait_down", "wait_end"}
                              <=> pc[k] \in {"wait_up", "wait_down", "wait_end"})
    BY <1>1, <1>2 DEF Signaller
  <2>2. QED
    BY <1>0, <1>1, <2>1, CountersKept
<1>7. \A k \in Phil : PlaceOK(k)'
  <2>1. TAKE k \in Phil
  <2>2. value'[cvsem(k)] = value[cvsem(k)] /\ Waiters(cvsem(k))' = Waiters(cvsem(k))
        /\ value'[cvsem(k)] = 0
    BY <1>4, SemNames
  <2>3. CASE k = i
    BY <1>2, <1>3, <2>2, <2>3 DEF PlaceOK, State
  <2>4. CASE k # i
    BY <1>0, <1>1, <1>2, <1>3, <2>2, <2>4, PlaceKept
  <2>5. QED
    BY <2>3, <2>4
<1>8. \A k \in Phil : PromiseOK(k)'
  <2>1. \A k \in Phil : k # i => PromiseOK(k)'
    BY <1>1, <1>2, <1>4, NoSignals
  <2>2. PromiseOK(i)'
    BY <1>2 DEF PromiseOK
  <2>3. QED
    BY <2>1, <2>2
<1>9. TableOK'
  <2>1. \A k \in Phil : state_condvar'[k] = "EATING" => state_condvar[k] = "EATING"
    BY <1>3
  <2>2. QED
    BY <1>0, <2>1, Seats DEF TableOK
<1>10. ASSUME NEW k \in Phil, state_condvar'[k] = "HUNGRY"
       PROVE  \/ state_condvar'[LEFT(k)] = "EATING" \/ state_condvar'[RIGHT(k)] = "EATING"
              \/ pc'[k] = "test" \/ \E j \in Phil : WillTest(j, k)'
  <2>1. k # i /\ state_condvar[k] = "HUNGRY"
    BY <1>3, <1>10
  <2>2. CASE LEFT(k) = i \/ RIGHT(k) = i
    <3>1. k \in {LEFT(i), RIGHT(i)}
      BY <2>2, Seats
    <3>2. WillTest(i, k)'
      BY <1>2, <3>1 DEF WillTest
    <3>3. QED
      BY <3>2
  <2>3. CASE LEFT(k) # i /\ RIGHT(k) # i
    <3>1. /\ state_condvar'[LEFT(k)] = state_condvar[LEFT(k)]
          /\ state_condvar'[RIGHT(k)] = state_condvar[RIGHT(k)]
      BY <1>3, <2>3, Seats
    <3>2. \A j \in Phil : WillTest(j, k) => WillTest(j, k)'
      BY <1>1, <1>2 DEF WillTest
    <3>3. pc[k] = "test" => pc'[k] = "test"
      BY <1>2, <2>1
    <3>4. Remembered(k)
      BY <1>0
    <3>5. QED
      BY <2>1, <3>1, <3>2, <3>3, <3>4 DEF Remembered
  <2>4. QED
    BY <2>2, <2>3
<1>11. \A k \in Phil : Remembered(k)'
  BY <1>10 DEF Remembered
<1>12. QED
  BY <1>4, <1>5, <1>6, <1>7, <1>8, <1>9, <1>11 DEF IInv, Core, Rest

\* The three calls of phi_test_condvar.
Tests(i, j, back) ==
    /\ i \in ready
    /\ \/ pc[i] = "test" /\ j = i /\ back = "tested"
       \/ pc[i] = "testleft" /\ j = LEFT(i) /\ back = "testright"
       \/ pc[i] = "testright" /\ j = RIGHT(i) /\ back = "leave_put"
    /\ phi_test_condvar(i, j, back)
    /\ UNCHANGED <<semVars, ready, running, monVars, iter>>

\* What a test does.
LEMMA TestEffect ==
  ASSUME PhilAssumption, VarsOK, NEW i \in Phil, NEW j \in Phil, NEW back, Tests(i, j, back)
  PROVE  /\ \A k \in Phil : k # i => /\ pc'[k] = pc[k] /\ cv'[k] = cv[k] /\ ret'[k] = ret[k]
         /\ pc' \in [Phil -> Places] /\ cv' \in [Phil -> Phil] /\ ret' \in [Phil -> Places]
         /\ state_condvar' \in [Phil -> {"THINKING", "HUNGRY", "EATING"}]
         /\ \A k \in Phil : k # j => state_condvar'[k] = state_condvar[k]
         /\ pc[i] = "test" <=> j = i
         /\ \/ /\ MayEat(j) /\ state_condvar'[j] = "EATING"
               /\ pc'[i] = "signal" /\ cv'[i] = j /\ ret'[i] = back
            \/ /\ ~MayEat(j) /\ state_condvar'[j] = state_condvar[j]
               /\ pc'[i] = back /\ cv' = cv /\ ret' = ret
<1>1. /\ "signal" \in Places /\ back \in Places
      /\ pc[i] = "test" <=> j = i
  BY Seats DEF Tests, Places, MonitorPlaces
<1>2. CASE MayEat(j) /\ Set(j, "EATING") /\ Call(i, "signal", j, back)
  <2>1. /\ state_condvar' \in [Phil -> {"THINKING", "HUNGRY", "EATING"}]
        /\ state_condvar'[j] = "EATING"
        /\ \A k \in Phil : k # j => state_condvar'[k] = state_condvar[k]
    BY <1>2, WasSet
  <2>2. /\ pc' \in [Phil -> Places] /\ pc'[i] = "signal"
        /\ \A k \in Phil : k # i => pc'[k] = pc[k]
    BY <1>1, <1>2, Moved DEF Call
  <2>3. /\ cv' \in [Phil -> Phil] /\ ret' \in [Phil -> Places]
        /\ cv'[i] = j /\ ret'[i] = back
        /\ \A k \in Phil : k # i => cv'[k] = cv[k] /\ ret'[k] = ret[k]
    BY <1>1, <1>2 DEF Call, VarsOK
  <2>4. QED
    BY <1>1, <1>2, <2>1, <2>2, <2>3
<1>3. CASE ~MayEat(j) /\ GoTo(i, back) /\ UNCHANGED <<state_condvar, cv, ret>>
  <2>1. /\ pc' \in [Phil -> Places] /\ pc'[i] = back
        /\ \A k \in Phil : k # i => pc'[k] = pc[k]
    BY <1>1, <1>3, Moved
  <2>2. QED
    BY <1>1, <1>3, <2>1 DEF VarsOK
<1>4. QED
  BY <1>2, <1>3 DEF Tests, phi_test_condvar

\* A test: whoever may eat now is signalled, and the others still have an eating neighbour.
LEMMA TestStep ==
  ASSUME PhilAssumption, IInv, NEW i \in Phil, NEW j \in Phil, NEW back, Tests(i, j, back)
  PROVE  IInv'
<1>0. /\ VarsOK /\ CountersOK /\ TableOK
      /\ \A k \in Phil : PlaceOK(k) /\ PromiseOK(k) /\ Remembered(k)
  BY DEF IInv, Core, Rest
<1>1. /\ i \in ready /\ UNCHANGED <<semVars, ready, running, monVars, iter>>
      /\ \/ pc[i] = "test" /\ j = i /\ back = "tested"
         \/ pc[i] = "testleft" /\ j = LEFT(i) /\ back = "testright"
         \/ pc[i] = "testright" /\ j = RIGHT(i) /\ back = "leave_put"
  BY DEF Tests
<1>2. /\ \A k \in Phil : k # i => /\ pc'[k] = pc[k] /\ cv'[k] = cv[k] /\ ret'[k] = ret[k]
      /\ pc' \in [Phil -> Places] /\ cv' \in [Phil -> Phil] /\ ret' \in [Phil -> Places]
      /\ state_condvar' \in [Phil -> {"THINKING", "HUNGRY", "EATING"}]
      /\ \A k \in Phil : k # j => state_condvar'[k] = state_condvar[k]
      /\ pc[i] = "test" <=> j = i
      /\ \/ /\ MayEat(j) /\ state_condvar'[j] = "EATING"
            /\ pc'[i] = "signal" /\ cv'[i] = j /\ ret'[i] = back
         \/ /\ ~MayEat(j) /\ state_condvar'[j] = state_condvar[j]
            /\ pc'[i] = back /\ cv' = cv /\ ret' = ret
  BY <1>0, TestEffect
<1>3. /\ Owns(i) /\ Owns(i)' /\ SemOK' /\ QueueOK' /\ TokenOK'
      /\ \A x \in Sem : value[x] = 0 /\ value'[x] = 0 /\ Waiters(x)' = Waiters(x)
  <2>1. pc[i] \notin Outside /\ pc'[i] \notin Outside
    BY <1>1, <1>2 DEF Outside
  <2>2. QED
    BY <1>1, <1>2, <2>1, OwnerStays
<1>4. VarsOK'
  BY <1>0, <1>1, <1>2 DEF VarsOK, monVars
<1>5. CountersOK'
  <2>1. \A k \in Phil : /\ Signaller(k)' <=> Signaller(k)
                        /\ (pc'[k] \in {"wait_up", "wait_down", "wait_end"}
                              <=> pc[k] \in {"wait_up", "wait_down", "wait_end"})
    BY <1>1, <1>2 DEF Signaller
  <2>2. QED
    BY <1>0, <1>1, <2>1, CountersKept
<1>6. \A k \in Phil : k # i => pc[k] \in Outside \cup Queued
  BY <1>3, OwnerAlone
<1>7. \A k \in Phil : PlaceOK(k)'
  <2>1. TAKE k \in Phil
  <2>2. value'[cvsem(k)] = value[cvsem(k)] /\ Waiters(cvsem(k))' = Waiters(cvsem(k))
        /\ value'[cvsem(k)] = 0
    BY <1>3, SemNames
  <2>3. PlaceOK(k)
    BY <1>0
  <2>4. CASE k = i
    <3>1. CASE MayEat(j)
      <4>1. pc'[i] = "signal" /\ cv'[i] = j /\ ret'[i] = back /\ state_condvar'[j] = "EATING"
        BY <1>2, <3>1
      <4>2. j = i \/ state_condvar'[i] = "THINKING"
        BY <1>1, <1>2, <2>3, <2>4 DEF PlaceOK, State
      <4>3. SignalPlaceOK(i)'
        BY <1>1, <1>2, <4>1, <4>2 DEF SignalPlaceOK, State
      <4>4. QED
        BY <2>2, <2>4, <4>1, <4>3 DEF PlaceOK
    <3>2. CASE ~MayEat(j)
      <4>1. pc'[i] = back /\ state_condvar'[i] = state_condvar[i]
        BY <1>2, <3>2
      <4>2. QED
        BY <1>1, <2>2, <2>3, <2>4, <4>1 DEF PlaceOK, State
    <3>3. QED
      BY <3>1, <3>2
  <2>5. CASE k # i /\ state_condvar'[k] = state_condvar[k]
    BY <1>2, <2>2, <2>3, <2>5, PlaceKept
  <2>6. CASE k # i /\ state_condvar'[k] # state_condvar[k]
    <3>1. k = j /\ state_condvar[k] = "HUNGRY" /\ state_condvar'[k] = "EATING"
      BY <1>2, <2>6 DEF MayEat
    <3>2. pc'[k] \in {"wait_down", "wait_end"}
      BY <1>2, <1>6, <2>3, <2>6, <3>1 DEF PlaceOK, State, SignalPlaceOK, Outside, Queued
    <3>3. QED
      BY <1>2, <2>2, <2>3, <2>6, <3>1, <3>2 DEF PlaceOK, State
  <2>7. QED
    BY <2>4, <2>5, <2>6
<1>8. \A k \in Phil : PromiseOK(k)'
  <2>1. \A k \in Phil : k # i => PromiseOK(k)'
    BY <1>1, <1>2, <1>3, NoSignals
  <2>2. PromiseOK(i)'
    BY <1>1, <1>2 DEF PromiseOK
  <2>3. QED
    BY <2>1, <2>2
<1>9. TableOK'
  <2>1. CASE MayEat(j)
    <3>1. state_condvar'[j] = "EATING" /\ state_condvar[LEFT(j)] # "EATING" /\ state_condvar[RIGHT(j)] # "EATING"
      BY <1>2, <2>1 DEF MayEat
    <3>2. ASSUME NEW k \in Phil, state_condvar'[k] = "EATING"
          PROVE  state_condvar'[LEFT(k)] # "EATING" /\ state_condvar'[RIGHT(k)] # "EATING"
      <4>1. CASE k = j
        BY <1>2, <3>1, <4>1, Seats
      <4>2. CASE k # j
        <5>1. state_condvar[k] = "EATING" /\ state_condvar[LEFT(k)] # "EATING" /\ state_condvar[RIGHT(k)] # "EATING"
          BY <1>0, <1>2, <3>2, <4>2 DEF TableOK
        <5>2. LEFT(k) # j /\ RIGHT(k) # j
          BY <3>1, <5>1, Seats
        <5>3. QED
          BY <1>2, <5>1, <5>2, Seats
      <4>3. QED
        BY <4>1, <4>2
    <3>3. QED
      BY <3>2 DEF TableOK
  <2>2. CASE ~MayEat(j)
    <3>1. \A k \in Phil : state_condvar'[k] = state_condvar[k]
      BY <1>2, <2>2
    <3>2. QED
      BY <1>0, <3>1, Seats DEF TableOK
  <2>3. QED
    BY <2>1, <2>2
<1>10. ASSUME NEW k \in Phil, state_condvar'[k] = "HUNGRY"
       PROVE  \/ state_condvar'[LEFT(k)] = "EATING" \/ state_condvar'[RIGHT(k)] = "EATING"
              \/ pc'[k] = "test" \/ \E m \in Phil : WillTest(m, k)'
  <2>1. \A m \in Phil : state_condvar[m] = "EATING" => state_condvar'[m] = "EATING"
    BY <1>2
  <2>2. CASE k = j
    <3>1. ~MayEat(j) /\ state_condvar[j] = "HUNGRY"
      BY <1>2, <1>10, <2>2
    <3>2. QED
      BY <2>1, <2>2, <3>1, Seats DEF MayEat
  <2>3. CASE k # j
    <3>1. state_condvar[k] = "HUNGRY"
      BY <1>2, <1>10, <2>3
    <3>2. pc[k] # "test"
      BY <1>2, <1>6, <2>3 DEF Outside, Queued
    <3>3. CASE \E m \in Phil : WillTest(m, k)
      <4>1. PICK m \in Phil : WillTest(m, k)
        BY <3>3
      <4>2. m = i
        <5>1. m # i => pc[m] \notin {"testleft", "testright", "signal", "signal_up", "signal_down",
                                     "signal_end"}
          BY <1>1, <1>3, <1>6, NoSignals DEF Outside, Queued
        <5>2. QED
          BY <4>1, <5>1 DEF WillTest
      <4>3. pc[i] = "testleft" /\ k = RIGHT(i) /\ back = "testright"
        BY <1>1, <2>3, <4>1, <4>2 DEF WillTest
      <4>4. WillTest(i, k)'
        BY <1>2, <4>3 DEF WillTest
      <4>5. QED
        BY <4>4
    <3>4. CASE ~\E m \in Phil : WillTest(m, k)
      BY <1>0, <2>1, <3>1, <3>2, <3>4, Seats DEF Remembered
    <3>5. QED
      BY <3>3, <3>4
  <2>4. QED
    BY <2>2, <2>3
<1>11. \A k \in Phil : Remembered(k)'
  BY <1>10 DEF Remembered
<1>12. QED
  BY <1>3, <1>4, <1>5, <1>7, <1>8, <1>9, <1>11 DEF IInv, Core, Rest

-----------------------------------------------------------------------------
(* The steps in the monitor that leave the table and the semaphores alone. *)

\* What is left to show of such a step.
LEMMA OwnerMove ==
  ASSUME IInv, NEW i \in Phil, i \in ready, pc[i] \notin Outside, pc'[i] \notin Outside,
         UNCHANGED <<semVars, ready, state_condvar>>,
         \A k \in Phil : k # i => pc'[k] = pc[k] /\ cv'[k] = cv[k] /\ ret'[k] = ret[k],
         VarsOK', CountersOK', PlaceOK(i)', \A k \in Phil : PromiseOK(k)',
         \/ pc[i] \notin {"test", "testleft", "testright",
                          "signal", "signal_up", "signal_down", "signal_end"}
         \/ /\ pc[i] \in {"signal", "signal_up", "signal_down", "signal_end"}
            /\ ret'[i] = ret[i]
            /\ pc'[i] \in {"signal", "signal_up", "signal_down", "signal_end", ret[i]}
  PROVE  IInv'
<1>0. TableOK /\ \A k \in Phil : PlaceOK(k) /\ Remembered(k)
  BY DEF IInv, Core, Rest
<1>1. /\ SemOK' /\ QueueOK' /\ TokenOK'
      /\ \A x \in Sem : value[x] = 0 /\ value'[x] = 0 /\ Waiters(x)' = Waiters(x)
  BY OwnerStays
<1>2. \A k \in Phil : PlaceOK(k)'
  BY <1>0, <1>1, SemNames, PlaceKept
<1>3. TableOK'
  BY <1>0 DEF TableOK
<1>4. \A k \in Phil : Remembered(k)'
  BY <1>0, MemoryKept
<1>5. QED
  BY <1>1, <1>2, <1>3, <1>4 DEF IInv, Core, Rest

\* The philosopher finds out whether it has to wait.
LEMMA TestedStep ==
  ASSUME IInv, NEW i \in Phil, tested(i)
  PROVE  IInv'
<1>0. VarsOK /\ CountersOK /\ PlaceOK(i)
  BY DEF IInv, Core, Rest
<1>1. /\ i \in ready /\ pc[i] = "tested" /\ WaitIfHungry(i)
      /\ UNCHANGED <<semVars, ready, running, monVars, state_condvar, iter>>
  BY DEF tested, At
<1>2. /\ pc' \in [Phil -> Places] /\ cv' \in [Phil -> Phil] /\ ret' \in [Phil -> Places]
      /\ \A k \in Phil : k # i => pc'[k] = pc[k] /\ cv'[k] = cv[k] /\ ret'[k] = ret[k]
      /\ \/ /\ state_condvar[i] = "HUNGRY"
            /\ pc'[i] = "wait" /\ cv'[i] = i /\ ret'[i] = "leave_take"
         \/ state_condvar[i] # "HUNGRY" /\ pc'[i] = "leave_take"
  <2>1. CASE state_condvar[i] = "HUNGRY"
    <3>1. GoTo(i, "wait") /\ cv' = [cv EXCEPT ![i] = i] /\ ret' = [ret EXCEPT ![i] = "leave_take"]
      BY <1>1, <2>1 DEF WaitIfHungry, Call
    <3>2. "wait" \in Places /\ "leave_take" \in Places
      BY DEF Places, MonitorPlaces
    <3>3. /\ pc' \in [Phil -> Places] /\ pc'[i] = "wait"
          /\ \A k \in Phil : k # i => pc'[k] = pc[k]
      BY <1>0, <3>1, <3>2, Moved
    <3>4. QED
      BY <1>0, <2>1, <3>1, <3>2, <3>3 DEF VarsOK
  <2>2. CASE state_condvar[i] # "HUNGRY"
    <3>1. GoTo(i, "leave_take") /\ cv' = cv /\ ret' = ret
      BY <1>1, <2>2 DEF WaitIfHungry
    <3>2. /\ pc' \in [Phil -> Places] /\ pc'[i] = "leave_take"
          /\ \A k \in Phil : k # i => pc'[k] = pc[k]
      BY <1>0, <3>1, Moved DEF Places
    <3>3. QED
      BY <1>0, <2>2, <3>1, <3>2 DEF VarsOK
  <2>3. QED
    BY <2>1, <2>2
<1>3. pc[i] \notin Outside /\ pc'[i] \notin Outside
  BY <1>1, <1>2 DEF Outside
<1>4. /\ Owns(i)
      /\ \A x \in Sem : value[x] = 0 /\ value'[x] = 0 /\ Waiters(x)' = Waiters(x)
  BY <1>1, <1>2, <1>3, OwnerStays
<1>5. VarsOK'
  BY <1>0, <1>1, <1>2 DEF VarsOK, monVars
<1>6. CountersOK'
  <2>1. \A k \in Phil : /\ Signaller(k)' <=> Signaller(k)
                        /\ (pc'[k] \in {"wait_up", "wait_down", "wait_end"}
                              <=> pc[k] \in {"wait_up", "wait_down", "wait_end"})
    BY <1>1, <1>2 DEF Signaller
  <2>2. QED
    BY <1>0, <1>1, <2>1, CountersKept
<1>7. PlaceOK(i)'
  BY <1>0, <1>1, <1>2, <1>4, SemNames DEF PlaceOK, State
<1>8. \A k \in Phil : PromiseOK(k)'
  <2>1. \A k \in Phil : k # i => PromiseOK(k)'
    BY <1>1, <1>2, <1>4, NoSignals
  <2>2. PromiseOK(i)'
    BY <1>2 DEF PromiseOK
  <2>3. QED
    BY <2>1, <2>2
<1>9. QED
  BY <1>1, <1>2, <1>3, <1>5, <1>6, <1>7, <1>8, OwnerMove

\* cond_signal looks whether somebody waits.
LEMMA SignalStep ==
  ASSUME IInv, NEW i \in Phil, At(i, "signal"), SignalOrNot(i), UNCHANGED <<semVars, ready, count>>,
         UNCHANGED <<running, cv, ret, state_condvar, iter>>
  PROVE  IInv'
<1>0. /\ SemOK /\ VarsOK /\ QueueOK /\ CountersOK
      /\ PlaceOK(i) /\ PromiseOK(i)
  BY DEF IInv, Core, Rest
<1>1. i \in ready /\ pc[i] = "signal" /\ pc[i] \notin Outside
  BY DEF At, Outside
<1>2. cv[i] \in Phil /\ ret[i] \in {"tested", "testright", "leave_put"} /\ state_condvar[cv[i]] = "EATING"
  BY <1>0, <1>1 DEF VarsOK, PlaceOK, SignalPlaceOK, PromiseOK
<1>3. Owns(i)
  BY <1>0, <1>1, OwnsIs DEF Queued
<1>4. next_count = 0
  BY <1>1, <1>3, NoSignals
<1>5. CASE count[cv[i]] > 0
  <2>1. next_count' = 1 /\ GoTo(i, "signal_up")
    <3>1. count[cv[i]] \in 0..1
      BY <1>0, <1>2 DEF VarsOK
    <3>2. QED
      BY <1>4, <1>5, <3>1 DEF SignalOrNot
  <2>2. /\ pc' \in [Phil -> Places] /\ pc'[i] = "signal_up"
        /\ \A k \in Phil : k # i => pc'[k] = pc[k]
    BY <1>0, <2>1, Moved DEF Places, MonitorPlaces
  <2>3. count[cv[i]] = 1
    BY <1>0, <1>2, <1>5 DEF VarsOK
  <2>4. pc[cv[i]] \in {"wait_up", "wait_down", "wait_end"} /\ cv[i] # i
    BY <1>0, <1>1, <1>2, <2>3 DEF CountersOK
  <2>5. ~Owns(cv[i]) /\ pc[cv[i]] \in Outside \cup Queued
    BY <1>2, <1>3, <2>4, OwnerAlone
  <2>6. Waiting(cv[i])
    <3>1. CASE pc[cv[i]] = "wait_end"
      <4>1. Blocked(cv[i]) /\ Door(cv[i]) = cvsem(cv[i])
        BY <1>0, <1>2, <2>5, <3>1, OwnsIs DEF Outside, Door, DoorAt
      <4>2. cv[i] \in Waiters(cvsem(cv[i]))
        BY <1>0, <1>2, <4>1, OwnsIs
      <4>3. QED
        BY <3>1, <4>2 DEF Waiting
    <3>2. CASE pc[cv[i]] # "wait_end"
      BY <2>4, <2>5, <3>2 DEF Waiting, Outside, Queued
    <3>3. QED
      BY <3>1, <3>2
  <2>7. pc'[i] \notin Outside
    BY <2>2 DEF Outside
  <2>8. \A x \in Sem : value[x] = 0 /\ value'[x] = 0 /\ Waiters(x)' = Waiters(x)
    BY <1>1, <2>2, <2>7, OwnerStays
  <2>9. VarsOK'
    BY <1>0, <2>1, <2>2 DEF VarsOK
  <2>10. CountersOK'
    <3>1. \A k \in Phil : k # i => ~Signaller(k)
      BY <1>1, <1>3, NoSignals DEF Signaller
    <3>2. \A k \in Phil : Signaller(k)' <=> k = i
      BY <2>2, <3>1 DEF Signaller
    <3>3. \A k \in Phil : count[k] = 1 <=> pc'[k] \in {"wait_up", "wait_down", "wait_end"}
      BY <1>0, <1>1, <2>2 DEF CountersOK
    <3>4. QED
      BY <2>1, <3>2, <3>3 DEF CountersOK
  <2>11. PlaceOK(i)'
    <3>1. SignalPlaceOK(i)'
      BY <1>0, <1>1, <2>4 DEF PlaceOK, SignalPlaceOK, State
    <3>2. value'[cvsem(i)] = 0
      BY <2>8, SemNames
    <3>3. QED
      BY <2>2, <2>4, <3>1, <3>2 DEF PlaceOK
  <2>12. \A k \in Phil : PromiseOK(k)'
    <3>1. \A k \in Phil : k # i => PromiseOK(k)'
      BY <1>1, <1>3, <2>2, NoSignals
    <3>2. Waiting(cv[i])'
      BY <1>2, <2>2, <2>4, <2>6, <2>8, SemNames DEF Waiting
    <3>3. PromiseOK(i)'
      BY <1>2, <2>2, <3>2 DEF PromiseOK
    <3>4. QED
      BY <3>1, <3>3
  <2>13. QED
    BY <1>1, <2>2, <2>7, <2>9, <2>10, <2>11, <2>12, OwnerMove
<1>6. CASE ~(count[cv[i]] > 0)
  <2>1. next_count' = next_count /\ GoTo(i, ret[i])
    BY <1>6 DEF SignalOrNot
  <2>2. /\ pc' \in [Phil -> Places] /\ pc'[i] = ret[i]
        /\ \A k \in Phil : k # i => pc'[k] = pc[k]
    BY <1>0, <1>2, <2>1, Moved DEF Places
  <2>3. pc'[i] \notin Outside
    BY <1>2, <2>2 DEF Outside
  <2>4. \A x \in Sem : value[x] = 0 /\ value'[x] = 0 /\ Waiters(x)' = Waiters(x)
    BY <1>1, <2>2, <2>3, OwnerStays
  <2>5. VarsOK'
    BY <1>0, <2>1, <2>2 DEF VarsOK
  <2>6. CountersOK'
    <3>1. \A k \in Phil : /\ Signaller(k)' <=> Signaller(k)
                          /\ (pc'[k] \in {"wait_up", "wait_down", "wait_end"}
                                <=> pc[k] \in {"wait_up", "wait_down", "wait_end"})
      BY <1>1, <1>2, <2>2 DEF Signaller
    <3>2. QED
      BY <1>0, <2>1, <3>1, CountersKept DEF monVars
  <2>7. PlaceOK(i)'
    <3>1. value'[cvsem(i)] = 0
      BY <2>4, SemNames
    <3>2. \/ ret[i] = "tested" /\ state_condvar[i] = "EATING"
          \/ ret[i] \in {"testright", "leave_put"} /\ state_condvar[i] = "THINKING"
      BY <1>0, <1>1 DEF PlaceOK, SignalPlaceOK, State
    <3>3. QED
      BY <2>2, <3>1, <3>2 DEF PlaceOK, State
  <2>8. \A k \in Phil : PromiseOK(k)'
    <3>1. \A k \in Phil : k # i => PromiseOK(k)'
      BY <1>1, <1>3, <2>2, NoSignals
    <3>2. PromiseOK(i)'
      BY <1>2, <2>2 DEF PromiseOK
    <3>3. QED
      BY <3>1, <3>2
  <2>9. QED
    BY <1>1, <2>2, <2>3, <2>5, <2>6, <2>7, <2>8, OwnerMove
<1>7. QED
  BY <1>5, <1>6

\* The signaller is back in the monitor and returns.
LEMMA SignalEndStep ==
  ASSUME IInv, NEW i \in Phil, At(i, "signal_end"), next_count' = next_count - 1,
         GoTo(i, ret[i]), UNCHANGED <<semVars, ready, count>>,
         UNCHANGED <<running, cv, ret, state_condvar, iter>>
  PROVE  IInv'
<1>0. SemOK /\ VarsOK /\ QueueOK /\ CountersOK /\ PlaceOK(i)
  BY DEF IInv, Core, Rest
<1>1. i \in ready /\ pc[i] = "signal_end" /\ pc[i] \notin Outside
  BY DEF At, Outside
<1>2. ret[i] \in {"testright", "leave_put"} /\ state_condvar[i] = "THINKING"
  BY <1>0, <1>1 DEF PlaceOK, SignalPlaceOK, State
<1>3. Owns(i)
  BY <1>0, <1>1, OwnsIs
<1>4. /\ pc' \in [Phil -> Places] /\ pc'[i] = ret[i]
      /\ \A k \in Phil : k # i => pc'[k] = pc[k]
  BY <1>0, <1>2, Moved DEF Places
<1>5. pc'[i] \notin Outside
  BY <1>2, <1>4 DEF Outside
<1>6. \A x \in Sem : value[x] = 0 /\ value'[x] = 0 /\ Waiters(x)' = Waiters(x)
  BY <1>1, <1>4, <1>5, OwnerStays
<1>7. next_count' = 0
  BY <1>0, <1>1 DEF CountersOK, Signaller
<1>8. VarsOK'
  BY <1>0, <1>4, <1>7 DEF VarsOK
<1>9. CountersOK'
  <2>1. \A k \in Phil : k # i => ~Signaller(k)
    BY <1>1, <1>3, NoSignals DEF Signaller
  <2>2. \A k \in Phil : ~Signaller(k)'
    BY <1>2, <1>4, <2>1 DEF Signaller
  <2>3. \A k \in Phil : count[k] = 1 <=> pc'[k] \in {"wait_up", "wait_down", "wait_end"}
    BY <1>0, <1>1, <1>2, <1>4 DEF CountersOK
  <2>4. QED
    BY <1>7, <2>2, <2>3 DEF CountersOK
<1>10. PlaceOK(i)'
  <2>1. value'[cvsem(i)] = 0
    BY <1>6, SemNames
  <2>2. QED
    BY <1>2, <1>4, <2>1 DEF PlaceOK, State
<1>11. \A k \in Phil : PromiseOK(k)'
  <2>1. \A k \in Phil : k # i => PromiseOK(k)'
    BY <1>1, <1>3, <1>4, NoSignals
  <2>2. PromiseOK(i)'
    BY <1>2, <1>4 DEF PromiseOK
  <2>3. QED
    BY <2>1, <2>2
<1>12. QED
  BY <1>1, <1>4, <1>5, <1>8, <1>9, <1>10, <1>11, OwnerMove

\* cond_wait counts its thread.
LEMMA WaitStep ==
  ASSUME IInv, NEW i \in Phil, At(i, "wait"), count' = [count EXCEPT ![cv[i]] = @ + 1],
         GoTo(i, "wait_up"), UNCHANGED <<semVars, ready, next_count>>,
         UNCHANGED <<running, cv, ret, state_condvar, iter>>
  PROVE  IInv'
<1>0. SemOK /\ VarsOK /\ QueueOK /\ CountersOK /\ PlaceOK(i)
  BY DEF IInv, Core, Rest
<1>1. i \in ready /\ pc[i] = "wait" /\ pc[i] \notin Outside
  BY DEF At, Outside
<1>2. cv[i] = i /\ ret[i] = "leave_take" /\ state_condvar[i] = "HUNGRY"
  BY <1>0, <1>1 DEF PlaceOK, State
<1>3. Owns(i)
  BY <1>0, <1>1, OwnsIs DEF Queued
<1>4. /\ pc' \in [Phil -> Places] /\ pc'[i] = "wait_up"
      /\ \A k \in Phil : k # i => pc'[k] = pc[k]
  BY <1>0, Moved DEF Places, MonitorPlaces
<1>5. pc'[i] \notin Outside
  BY <1>4 DEF Outside
<1>6. \A x \in Sem : value[x] = 0 /\ value'[x] = 0 /\ Waiters(x)' = Waiters(x)
  BY <1>1, <1>4, <1>5, OwnerStays
<1>7. /\ count' \in [Phil -> 0..1] /\ count'[i] = 1
      /\ \A k \in Phil : k # i => count'[k] = count[k]
  <2>1. count[i] = 0
    BY <1>0, <1>1 DEF CountersOK, VarsOK
  <2>2. count' = [count EXCEPT ![i] = 1]
    BY <1>2, <2>1
  <2>3. QED
    BY <1>0, <2>2 DEF VarsOK
<1>8. VarsOK'
  BY <1>0, <1>4, <1>7 DEF VarsOK
<1>9. CountersOK'
  <2>1. \A k \in Phil : Signaller(k)' <=> Signaller(k)
    BY <1>1, <1>4 DEF Signaller
  <2>2. \A k \in Phil : count'[k] = 1 <=> pc'[k] \in {"wait_up", "wait_down", "wait_end"}
    BY <1>0, <1>4, <1>7 DEF CountersOK
  <2>3. QED
    BY <1>0, <2>1, <2>2 DEF CountersOK
<1>10. PlaceOK(i)'
  <2>1. value'[cvsem(i)] = 0
    BY <1>6, SemNames
  <2>2. QED
    BY <1>2, <1>4, <2>1 DEF PlaceOK, State
<1>11. \A k \in Phil : PromiseOK(k)'
  <2>1. \A k \in Phil : k # i => PromiseOK(k)'
    BY <1>1, <1>3, <1>4, NoSignals
  <2>2. PromiseOK(i)'
    BY <1>4 DEF PromiseOK
  <2>3. QED
    BY <2>1, <2>2
<1>12. QED
  BY <1>1, <1>4, <1>5, <1>8, <1>9, <1>10, <1>11, OwnerMove

\* A thread that has been let in again leaves cond_wait; its signaller still waits for it.
LEMMA WaitEndStep ==
  ASSUME IInv, NEW i \in Phil, At(i, "wait_end"), count' = [count EXCEPT ![cv[i]] = @ - 1],
         GoTo(i, ret[i]), UNCHANGED <<semVars, ready, next_count>>,
         UNCHANGED <<running, cv, ret, state_condvar, iter>>
  PROVE  IInv'
<1>0. SemOK /\ VarsOK /\ QueueOK /\ CountersOK /\ PlaceOK(i) /\ \A k \in Phil : PromiseOK(k)
  BY DEF IInv, Core, Rest
<1>1. i \in ready /\ pc[i] = "wait_end" /\ pc[i] \notin Outside
  BY DEF At, Outside
<1>2. cv[i] = i /\ ret[i] = "leave_take" /\ state_condvar[i] = "EATING"
  <2>1. i \notin Waiters(cvsem(i))
    BY <1>0, <1>1, SemNames, Unblocked
  <2>2. QED
    BY <1>0, <1>1, <2>1 DEF PlaceOK, State
<1>3. Owns(i)
  BY <1>0, <1>1, OwnsIs
<1>4. /\ pc' \in [Phil -> Places] /\ pc'[i] = "leave_take"
      /\ \A k \in Phil : k # i => pc'[k] = pc[k]
  BY <1>0, <1>2, Moved DEF Places
<1>5. pc'[i] \notin Outside
  BY <1>4 DEF Outside
<1>6. /\ Owns(i)'
      /\ \A x \in Sem : value[x] = 0 /\ value'[x] = 0 /\ Waiters(x)' = Waiters(x)
  BY <1>1, <1>4, <1>5, OwnerStays
<1>7. /\ count' \in [Phil -> 0..1] /\ count'[i] = 0
      /\ \A k \in Phil : k # i => count'[k] = count[k]
  <2>1. count[i] = 1
    BY <1>0, <1>1 DEF CountersOK
  <2>2. count' = [count EXCEPT ![i] = 0]
    BY <1>2, <2>1
  <2>3. QED
    BY <1>0, <2>2 DEF VarsOK
<1>8. VarsOK'
  BY <1>0, <1>4, <1>7 DEF VarsOK
<1>9. CountersOK'
  <2>1. \A k \in Phil : Signaller(k)' <=> Signaller(k)
    BY <1>1, <1>4 DEF Signaller
  <2>2. \A k \in Phil : count'[k] = 1 <=> pc'[k] \in {"wait_up", "wait_down", "wait_end"}
    BY <1>0, <1>4, <1>7 DEF CountersOK
  <2>3. QED
    BY <1>0, <2>1, <2>2 DEF CountersOK
<1>10. PlaceOK(i)'
  <2>1. value'[cvsem(i)] = 0
    BY <1>6, SemNames
  <2>2. QED
    BY <1>2, <1>4, <2>1 DEF PlaceOK, State
<1>11. ASSUME NEW k \in Phil
       PROVE  PromiseOK(k)'
  <2>1. CASE k # i
    <3>1. pc[k] \in Outside \cup Queued /\ (Signaller(k) => cv[k] = i)
      BY <1>3, <2>1, OwnerAlone
    <3>2. pc'[k] \notin {"signal", "signal_up"}
      BY <1>4, <2>1, <3>1 DEF Outside, Queued
    <3>3. Signaller(k) => Handed(k)'
      BY <1>4, <1>6, <3>1 DEF Handed
    <3>4. QED
      BY <1>4, <2>1, <3>2, <3>3 DEF PromiseOK, Signaller
  <2>2. CASE k = i
    BY <1>4, <2>2 DEF PromiseOK
  <2>3. QED
    BY <2>1, <2>2
<1>12. QED
  BY <1>1, <1>4, <1>5, <1>8, <1>9, <1>10, <1>11, OwnerMove

-----------------------------------------------------------------------------
(* The steps in the monitor that pass the token on. *)

\* What is left to show of a step of thread i that moves one semaphore x and nothing of the
\* table.
LEMMA TokenMove ==
  ASSUME IInv, NEW i \in Phil, NEW x \in Sem,
         UNCHANGED <<running, monVars, cv, ret, state_condvar, iter>>,
         pc' \in [Phil -> Places], ready' \subseteq Phil,
         \A k \in Phil : k # i => pc'[k] = pc[k],
         SemOK', QueueOK', TokenOK',
         \A y \in Sem : y # x => value'[y] = value[y] /\ Waiters(y)' = Waiters(y),
         \A k \in Phil : Signaller(k)' <=> Signaller(k),
         pc[i] \in {"wait_up", "wait_down", "wait_end"}
            <=> pc'[i] \in {"wait_up", "wait_down", "wait_end"},
         PlaceOK(i)', \A k \in Phil : x = cvsem(k) => PlaceOK(k)',
         \A k \in Phil : PromiseOK(k)',
         \/ pc[i] \notin {"test", "testleft", "testright",
                          "signal", "signal_up", "signal_down", "signal_end"}
         \/ /\ pc[i] \in {"signal", "signal_up", "signal_down", "signal_end"}
            /\ pc'[i] \in {"signal", "signal_up", "signal_down", "signal_end", ret[i]}
  PROVE  IInv'
<1>0. VarsOK /\ CountersOK /\ TableOK /\ \A k \in Phil : PlaceOK(k) /\ Remembered(k)
  BY DEF IInv, Core, Rest
<1>1. VarsOK'
  BY <1>0 DEF VarsOK, monVars
<1>2. CountersOK'
  <2>1. \A k \in Phil : /\ Signaller(k)' <=> Signaller(k)
                        /\ (pc'[k] \in {"wait_up", "wait_down", "wait_end"}
                              <=> pc[k] \in {"wait_up", "wait_down", "wait_end"})
    OBVIOUS
  <2>2. QED
    BY <1>0, <2>1, CountersKept
<1>3. \A k \in Phil : PlaceOK(k)'
  <2>1. TAKE k \in Phil
  <2>2. CASE k # i /\ x # cvsem(k)
    BY <1>0, <2>2, SemNames, PlaceKept
  <2>3. QED
    BY <2>2
<1>4. TableOK'
  BY <1>0 DEF TableOK
<1>5. \A k \in Phil : Remembered(k)'
  BY <1>0, MemoryKept
<1>6. QED
  BY <1>1, <1>2, <1>3, <1>4, <1>5 DEF IInv, Core, Rest

\* The owner gives the monitor up: to a signaller that waits for it, or to the mutex.
LEMMA LeaveStep ==
  ASSUME IInv, NEW i \in Phil, i \in ready, LeaveMonitor,
         UNCHANGED <<running, monVars, cv, ret, state_condvar, iter>>,
         \/ pc[i] = "leave_take" /\ GoTo(i, "eat")
         \/ pc[i] = "leave_put" /\ GoTo(i, "think")
         \/ pc[i] = "wait_up" /\ GoTo(i, "wait_down")
  PROVE  IInv'
<1>0. /\ SemOK /\ VarsOK /\ QueueOK /\ TokenOK /\ CountersOK
      /\ \A k \in Phil : PlaceOK(k) /\ PromiseOK(k)
  BY DEF IInv, Core, Rest
<1>1. /\ pc' \in [Phil -> Places]
      /\ \A k \in Phil : k # i => pc'[k] = pc[k]
      /\ \/ pc[i] = "leave_take" /\ pc'[i] = "eat"
         \/ pc[i] = "leave_put" /\ pc'[i] = "think"
         \/ pc[i] = "wait_up" /\ pc'[i] = "wait_down"
  BY <1>0, Moved DEF Places, MonitorPlaces
<1>2. Owns(i) /\ pc'[i] \in Outside /\ ~Signaller(i)
  BY <1>0, <1>1, OwnsIs DEF Outside, Queued, Signaller
<1>3. \A k \in Phil : Signaller(k)' <=> Signaller(k)
  BY <1>1 DEF Signaller
<1>4. ASSUME NEW x \in {mutex, next}, up(x), \A k \in Phil : PromiseOK(k)'
      PROVE  IInv'
  <2>1. x \in Sem /\ \A k \in Phil : x # cvsem(k)
    BY <1>4, SemNames
  <2>2. /\ SemOK' /\ QueueOK' /\ TokenOK'
        /\ \A y \in Sem : value[y] = 0
        /\ \A y \in Sem : y # x => value'[y] = 0 /\ Waiters(y)' = Waiters(y)
        /\ \/ ready' = ready
           \/ \E h \in Phil : ready' = ready \cup {h}
    BY <1>0, <1>1, <1>2, <1>4, <2>1, CoreUp
  <2>3. ready' \subseteq Phil
    BY <1>0, <2>2 DEF VarsOK
  <2>4. \A y \in Sem : y # x => value'[y] = value[y] /\ Waiters(y)' = Waiters(y)
    BY <2>2
  <2>5. PlaceOK(i)'
    <3>1. value'[cvsem(i)] = 0
      BY <2>1, <2>2, SemNames
    <3>2. PlaceOK(i)
      BY <1>0
    <3>3. QED
      BY <1>1, <3>1, <3>2 DEF PlaceOK, State
  <2>6. pc[i] \in {"wait_up", "wait_down", "wait_end"}
            <=> pc'[i] \in {"wait_up", "wait_down", "wait_end"}
    BY <1>1
  <2>7. pc[i] \notin {"test", "testleft", "testright",
                      "signal", "signal_up", "signal_down", "signal_end"}
    BY <1>1
  <2>8. QED
    BY <1>1, <1>3, <1>4, <2>1, <2>2, <2>3, <2>4, <2>5, <2>6, <2>7, TokenMove
<1>5. CASE next_count = 0
  <2>1. up(mutex)
    BY <1>5 DEF LeaveMonitor
  <2>2. ASSUME NEW k \in Phil
        PROVE  PromiseOK(k)'
    <3>1. ~Signaller(k)
      BY <1>0, <1>5 DEF CountersOK
    <3>2. pc'[k] \notin {"signal", "signal_up", "signal_down", "signal_end"}
      <4>1. CASE k = i
        BY <1>1, <4>1
      <4>2. CASE k # i
        BY <1>1, <1>2, <3>1, <4>2, OwnerAlone DEF Outside, Queued, Signaller
      <4>3. QED
        BY <4>1, <4>2
    <3>3. QED
      BY <3>2 DEF PromiseOK
  <2>3. QED
    BY <1>4, <2>1, <2>2
<1>6. CASE next_count = 1
  <2>1. up(next)
    BY <1>6 DEF LeaveMonitor
  <2>2. PICK g \in Phil : Signaller(g)
    BY <1>0, <1>6 DEF CountersOK
  <2>3. g # i /\ (pc[g] = "signal_down" \/ (pc[g] = "signal_end" /\ g \in Waiters(next)))
    <3>1. g # i
      BY <1>2, <2>2
    <3>2. pc[g] \in Outside \cup Queued /\ (pc[g] = "signal_down" \/ g \in Waiters(next))
      BY <1>2, <2>2, <3>1, OwnerAlone
    <3>3. QED
      BY <2>2, <3>1, <3>2 DEF Signaller, Outside, Queued
  <2>4. \/ Waiters(next) = {} /\ Waiters(next)' = {} /\ value'[next] = 1
        \/ \E h \in Waiters(next) : h \in Phil /\ Waiters(next)' = Waiters(next) \ {h}
    BY <1>0, <1>1, <1>2, <2>1, SemNames, CoreUp
  <2>5. ASSUME NEW k \in Phil
        PROVE  PromiseOK(k)'
    <3>1. CASE k = g
      <4>1. CASE Waiters(next) = {} /\ Waiters(next)' = {} /\ value'[next] = 1
        BY <1>1, <2>3, <3>1, <4>1 DEF PromiseOK
      <4>2. ASSUME NEW h \in Waiters(next), h \in Phil, Waiters(next)' = Waiters(next) \ {h}
            PROVE  PromiseOK(k)'
        <5>1. pc[h] = "signal_end"
          BY <1>0, <4>2, SemNames DEF QueueOK, Door, DoorAt, Queued
        <5>2. h = g
          BY <1>0, <2>2, <4>2, <5>1 DEF CountersOK, Signaller
        <5>3. pc'[g] = "signal_end" /\ g \notin Waiters(next)'
          BY <1>1, <2>3, <4>2, <5>1, <5>2
        <5>4. QED
          BY <3>1, <5>3 DEF PromiseOK
      <4>3. QED
        BY <2>4, <4>1, <4>2
    <3>2. CASE k # g
      <4>1. ~Signaller(k)
        BY <1>0, <2>2, <3>2 DEF CountersOK
      <4>2. pc'[k] \notin {"signal", "signal_up", "signal_down", "signal_end"}
        <5>1. CASE k = i
          BY <1>1, <5>1
        <5>2. CASE k # i
          BY <1>1, <1>2, <4>1, <5>2, OwnerAlone DEF Outside, Queued, Signaller
        <5>3. QED
          BY <5>1, <5>2
      <4>3. QED
        BY <4>2 DEF PromiseOK
    <3>3. QED
      BY <3>1, <3>2
  <2>6. QED
    BY <1>4, <2>1, <2>5
<1>7. QED
  <2>1. next_count \in 0..1
    BY <1>0 DEF VarsOK
  <2>2. QED
    BY <1>5, <1>6, <2>1

\* The signaller wakes the thread that waits, or leaves it a token for when it goes to sleep.
LEMMA SignalUpStep ==
  ASSUME IInv, NEW i \in Phil, At(i, "signal_up"), up(cvsem(cv[i])), GoTo(i, "signal_down"),
         UNCHANGED <<running, monVars, cv, ret, state_condvar, iter>>
  PROVE  IInv'
<1>0. /\ SemOK /\ VarsOK /\ QueueOK /\ TokenOK /\ CountersOK
      /\ \A k \in Phil : PlaceOK(k) /\ PromiseOK(k)
  BY DEF IInv, Core, Rest
<1>1. /\ i \in ready /\ pc[i] = "signal_up"
      /\ pc' \in [Phil -> Places] /\ pc'[i] = "signal_down"
      /\ \A k \in Phil : k # i => pc'[k] = pc[k]
  BY <1>0, Moved DEF At, Places, MonitorPlaces
<1> SUFFICES ASSUME NEW c \in Phil, c = cv[i]
             PROVE  IInv'
  BY <1>0 DEF VarsOK
<1>2. c \in Phil /\ c # i /\ state_condvar[c] = "EATING" /\ Waiting(c) /\ up(cvsem(c))
  BY <1>0, <1>1 DEF VarsOK, PlaceOK, PromiseOK
<1>3. c = cv[i] /\ cv'[i] = c
  OBVIOUS
<1>4. cvsem(c) \in Sem /\ cvsem(c) # next /\ cvsem(i) \in Sem /\ cvsem(i) # cvsem(c)
  BY <1>2, SemNames
<1>5. Owns(i) /\ pc'[i] \in Outside
  BY <1>0, <1>1, OwnsIs DEF Outside, Queued
<1>6. /\ SemOK' /\ QueueOK' /\ TokenOK'
      /\ \A y \in Sem : value[y] = 0
      /\ \A y \in Sem : y # cvsem(c) => value'[y] = 0 /\ Waiters(y)' = Waiters(y)
      /\ \/ Waiters(cvsem(c)) = {} /\ value'[cvsem(c)] = 1 /\ ready' = ready
         \/ \E h \in Waiters(cvsem(c)) : /\ h \in Phil /\ ready' = ready \cup {h}
                                         /\ value'[cvsem(c)] = 0 /\ Owns(h)'
  BY <1>0, <1>1, <1>2, <1>4, <1>5, CoreUp
<1>7. ready' \subseteq Phil
  BY <1>0, <1>6 DEF VarsOK
<1>8. \/ value'[cvsem(c)] = 1 /\ pc[c] = "wait_down"
      \/ value'[cvsem(c)] = 0 /\ pc[c] = "wait_end" /\ Owns(c)'
  <2>1. CASE Waiters(cvsem(c)) = {} /\ value'[cvsem(c)] = 1
    BY <1>2, <2>1 DEF Waiting
  <2>2. ASSUME NEW h \in Waiters(cvsem(c)), h \in Phil, value'[cvsem(c)] = 0, Owns(h)'
        PROVE  pc[c] = "wait_end" /\ Owns(c)'
    <3>1. pc[h] \in Queued /\ cvsem(c) = DoorAt(h, pc[h])
      BY <1>0, <1>4, <2>2 DEF QueueOK, Door
    <3>2. pc[h] = "wait_end" /\ h = c
      BY <1>2, <2>2, <3>1, SemNames DEF Queued, DoorAt
    <3>3. QED
      BY <2>2, <3>2
  <2>3. QED
    BY <1>6, <2>1, <2>2
<1>9. PlaceOK(i)'
  <2>1. value'[cvsem(i)] = 0
    BY <1>4, <1>6
  <2>2. PlaceOK(i)
    BY <1>0
  <2>3. QED
    BY <1>1, <2>1, <2>2 DEF PlaceOK, SignalPlaceOK, State
<1>10. PlaceOK(c)'
  <2>1. PlaceOK(c) /\ pc'[c] = pc[c]
    BY <1>0, <1>1, <1>2
  <2>2. QED
    BY <1>2, <1>8, <2>1 DEF PlaceOK, State
<1>11. \A k \in Phil : PromiseOK(k)'
  <2>1. \A k \in Phil : k # i => PromiseOK(k)'
    BY <1>1, <1>5, NoSignals
  <2>2. Handed(i)'
    BY <1>1, <1>2, <1>3, <1>8 DEF Handed
  <2>3. PromiseOK(i)'
    BY <1>1, <2>2 DEF PromiseOK
  <2>4. QED
    BY <2>1, <2>3
<1>12. \A k \in Phil : Signaller(k)' <=> Signaller(k)
  BY <1>1 DEF Signaller
<1>13. \A k \in Phil : cvsem(c) = cvsem(k) => PlaceOK(k)'
  BY <1>2, <1>10, SemNames
<1>14. \A y \in Sem : y # cvsem(c) => value'[y] = value[y] /\ Waiters(y)' = Waiters(y)
  BY <1>6
<1>15. QED
  BY <1>1, <1>4, <1>6, <1>7, <1>9, <1>11, <1>12, <1>13, <1>14, TokenMove

\* The signaller waits until the monitor is given back.
LEMMA SignalDownStep ==
  ASSUME IInv, NEW i \in Phil, At(i, "signal_down"), down(i, next), GoTo(i, "signal_end"),
         UNCHANGED <<running, monVars, cv, ret, state_condvar, iter>>
  PROVE  IInv'
<1>0. /\ SemOK /\ VarsOK /\ QueueOK /\ TokenOK /\ CountersOK
      /\ \A k \in Phil : PlaceOK(k) /\ PromiseOK(k)
  BY DEF IInv, Core, Rest
<1>1. /\ i \in ready /\ pc[i] = "signal_down"
      /\ pc' \in [Phil -> Places] /\ pc'[i] = "signal_end"
      /\ \A k \in Phil : k # i => pc'[k] = pc[k]
  BY <1>0, Moved DEF At, Places, MonitorPlaces
<1>2. next \in Sem /\ next = DoorAt(i, pc'[i]) /\ pc'[i] \in Queued /\ pc[i] \in Outside
  BY <1>1, SemNames DEF DoorAt, Queued, Outside
<1>3. /\ SemOK' /\ QueueOK' /\ TokenOK'
      /\ \A y \in Sem : y # next => value'[y] = value[y] /\ Waiters(y)' = Waiters(y)
      /\ \A k \in Phil : k # i => (Owns(k)' <=> Owns(k))
      /\ ready' \subseteq ready
      /\ \/ value[next] = 1 /\ Waiters(next)' = Waiters(next) /\ i \notin Waiters(next)
         \/ value[next] = 0
  BY <1>0, <1>1, <1>2, CoreDown
<1>4. ready' \subseteq Phil
  BY <1>0, <1>3 DEF VarsOK
<1>5. \A k \in Phil : Signaller(k)' <=> Signaller(k)
  BY <1>1 DEF Signaller
<1>6. PlaceOK(i)'
  <2>1. value'[cvsem(i)] = value[cvsem(i)] /\ PlaceOK(i)
    BY <1>0, <1>3, SemNames
  <2>2. QED
    BY <1>1, <2>1 DEF PlaceOK, SignalPlaceOK, State
<1>7. PromiseOK(i)'
  <2>1. cv[i] \in Phil /\ cv[i] # i /\ cv'[i] = cv[i]
    BY <1>0, <1>1 DEF VarsOK, PlaceOK
  <2>2. Handed(i) => Handed(i)'
    BY <1>1, <1>3, <2>1, SemNames DEF Handed
  <2>3. value[next] = 1 \/ Handed(i)
    BY <1>0, <1>1 DEF PromiseOK
  <2>4. i \in Waiters(next)' => Handed(i)'
    BY <1>3, <2>2, <2>3
  <2>5. QED
    BY <1>1, <2>4 DEF PromiseOK
<1>8. ASSUME NEW k \in Phil, k # i
      PROVE  PromiseOK(k)'
  <2>1. ~Signaller(k) /\ PromiseOK(k)
    BY <1>0, <1>1, <1>8 DEF CountersOK, Signaller
  <2>2. QED
    BY <1>1, <1>8, <2>1 DEF PromiseOK, Signaller
<1>9. \A k \in Phil : PromiseOK(k)' /\ next # cvsem(k)
  BY <1>7, <1>8, SemNames
<1>10. QED
  BY <1>1, <1>2, <1>3, <1>4, <1>5, <1>6, <1>9, TokenMove

\* The waiting thread takes the token that a signaller left, or falls asleep.
LEMMA WaitDownStep ==
  ASSUME IInv, NEW i \in Phil, At(i, "wait_down"), down(i, cvsem(cv[i])), GoTo(i, "wait_end"),
         UNCHANGED <<running, monVars, cv, ret, state_condvar, iter>>
  PROVE  IInv'
<1>0. /\ SemOK /\ VarsOK /\ QueueOK /\ TokenOK /\ CountersOK
      /\ \A k \in Phil : PlaceOK(k) /\ PromiseOK(k)
  BY DEF IInv, Core, Rest
<1>1. /\ i \in ready /\ pc[i] = "wait_down"
      /\ pc' \in [Phil -> Places] /\ pc'[i] = "wait_end"
      /\ \A k \in Phil : k # i => pc'[k] = pc[k]
  BY <1>0, Moved DEF At, Places, MonitorPlaces
<1>2. cv[i] = i /\ ret[i] = "leave_take" /\ down(i, cvsem(i))
      /\ (value[cvsem(i)] = 1 => state_condvar[i] = "EATING")
      /\ state_condvar[i] \in {"HUNGRY", "EATING"}
  BY <1>0, <1>1 DEF PlaceOK, State
<1>3. /\ cvsem(i) \in Sem /\ cvsem(i) # next /\ cvsem(i) = DoorAt(i, pc'[i])
      /\ pc'[i] \in Queued /\ pc[i] \in Outside
  BY <1>1, SemNames DEF DoorAt, Queued, Outside
<1>4. /\ SemOK' /\ QueueOK' /\ TokenOK'
      /\ \A y \in Sem : y # cvsem(i) => value'[y] = value[y] /\ Waiters(y)' = Waiters(y)
      /\ value'[cvsem(i)] = 0
      /\ Owns(i)' <=> value[cvsem(i)] = 1
      /\ \A k \in Phil : k # i => (Owns(k)' <=> Owns(k))
      /\ ready' \subseteq ready
      /\ \/ value[cvsem(i)] = 1
         \/ value[cvsem(i)] = 0 /\ Waiters(cvsem(i))' = Waiters(cvsem(i)) \cup {i}
  BY <1>0, <1>1, <1>2, <1>3, CoreDown
<1>5. ready' \subseteq Phil
  BY <1>0, <1>4 DEF VarsOK
<1>6. \A k \in Phil : Signaller(k)' <=> Signaller(k)
  BY <1>1 DEF Signaller
<1>7. PlaceOK(i)'
  BY <1>1, <1>2, <1>4 DEF PlaceOK, State
<1>8. \A k \in Phil : cvsem(i) = cvsem(k) => PlaceOK(k)'
  BY <1>7, SemNames
<1>9. ASSUME NEW k \in Phil
      PROVE  PromiseOK(k)'
  <2>0. PromiseOK(k) /\ cv[k] \in Phil /\ cv'[k] = cv[k]
    BY <1>0 DEF VarsOK
  <2>1. CASE k = i
    BY <1>1, <2>1 DEF PromiseOK
  <2>2. CASE k # i /\ cv[k] # i
    <3>1. /\ value'[next] = value[next] /\ Waiters(next)' = Waiters(next)
          /\ value'[cvsem(cv[k])] = value[cvsem(cv[k])]
          /\ Waiters(cvsem(cv[k]))' = Waiters(cvsem(cv[k]))
      BY <1>3, <1>4, <2>0, <2>2, SemNames
    <3>2. Owns(cv[k]) => Owns(cv[k])'
      BY <1>4, <2>0, <2>2
    <3>3. pc'[k] = pc[k] /\ pc'[cv[k]] = pc[cv[k]]
      BY <1>1, <2>0, <2>2
    <3>4. QED
      BY <2>0, <3>1, <3>2, <3>3, PromiseKept
  <2>3. CASE k # i /\ cv[k] = i
    <3>1. pc'[k] = pc[k] /\ value'[next] = value[next] /\ Waiters(next)' = Waiters(next)
      BY <1>1, <1>3, <1>4, <2>3, SemNames
    <3>2. Handed(k) => Handed(k)'
      <4>1. HAVE Handed(k)
      <4>2. value[cvsem(i)] = 1
        BY <1>1, <2>3, <4>1 DEF Handed
      <4>3. QED
        BY <1>1, <1>4, <2>0, <2>3, <4>2 DEF Handed
    <3>3. pc[k] = "signal_up" => Waiting(i)'
      <4>1. HAVE pc[k] = "signal_up"
      <4>2. Owns(k)
        BY <1>0, <4>1, OwnsIs DEF Outside, Queued
      <4>3. value[cvsem(i)] # 1
        BY <1>0, <1>3, <4>2 DEF TokenOK
      <4>4. QED
        BY <1>1, <1>4, <4>3 DEF Waiting
    <3>4. QED
      BY <2>0, <2>3, <3>1, <3>2, <3>3 DEF PromiseOK
  <2>4. QED
    BY <2>1, <2>2, <2>3
<1>10. QED
  BY <1>1, <1>3, <1>4, <1>5, <1>6, <1>7, <1>8, <1>9, TokenMove

-----------------------------------------------------------------------------
(* The theorems. *)

\* check_sync begins in a state of the invariant.
LEMMA Start ==
  ASSUME PhilAssumption, Init
  PROVE  IInv
<1>1. /\ value = [x \in Sem |-> IF x = mutex THEN 1 ELSE 0]
      /\ wait_queue = [x \in Sem |-> <<>>]
      /\ next_count = 0 /\ count = [k \in Phil |-> 0]
  BY DEF Init, monitor_init, sem_init, Sem
<1>2. /\ ready = Phil /\ running \in Phil
      /\ state_condvar = [k \in Phil |-> "THINKING"]
      /\ iter = [k \in Phil |-> 0]
      /\ pc = [k \in Phil |-> "think"]
      /\ cv = [k \in Phil |-> k]
      /\ ret = [k \in Phil |-> "think"]
  BY DEF Init
<1>3. \A x \in Sem : Waiters(x) = {}
  BY <1>1 DEF Waiters
<1>4. SemOK
  <2>1. value \in [Sem -> 0..1]
    BY <1>1
  <2>2. wait_queue \in [Sem -> Seq(Phil)]
    BY <1>1
  <2>3. \A x \in Sem : \A k, m \in DOMAIN wait_queue[x] :
           wait_queue[x][k] = wait_queue[x][m] => k = m
    BY <1>1
  <2>4. QED
    BY <1>3, <2>1, <2>2, <2>3 DEF SemOK
<1>5. VarsOK
  <2>1. "think" \in Places /\ 0 \in 0..TIMES
    BY DEF Places, PhilAssumption
  <2>2. QED
    BY <1>1, <1>2, <2>1 DEF VarsOK
<1>6. QueueOK
  BY <1>3 DEF QueueOK
<1>7. \A k \in Phil : ~Owns(k) /\ ~Signaller(k)
  BY <1>2 DEF Owns, Signaller
<1>8. TokenOK
  <2>1. \A x \in Sem : value[x] = 1 => x = mutex
    BY <1>1
  <2>2. QED
    BY <1>7, <2>1 DEF TokenOK
<1>9. CountersOK
  BY <1>1, <1>2, <1>7 DEF CountersOK
<1>10. TableOK
  BY <1>2 DEF TableOK
<1>11. ASSUME NEW k \in Phil
       PROVE  PlaceOK(k) /\ PromiseOK(k) /\ Remembered(k)
  <2>1. value[cvsem(k)] = 0 /\ pc[k] = "think" /\ state_condvar[k] = "THINKING"
    BY <1>1, <1>2, SemNames
  <2>2. PlaceOK(k)
    BY <2>1 DEF PlaceOK, State
  <2>3. PromiseOK(k)
    BY <2>1 DEF PromiseOK
  <2>4. Remembered(k)
    BY <2>1 DEF Remembered
  <2>5. QED
    BY <2>2, <2>3, <2>4
<1>12. QED
  BY <1>4, <1>5, <1>6, <1>8, <1>9, <1>10, <1>11 DEF IInv, Core, Rest

\* Every step of a thread keeps the invariant.
LEMMA ThreadStep ==
  ASSUME PhilAssumption, IInv, NEW i \in Phil, philosopher(i) \/ wake(i)
  PROVE  IInv'
<1>1. CASE think(i) \/ eat(i) \/ wake(i)
  BY <1>1, SleepStep
<1>2. CASE take(i) \/ put(i)
  BY <1>2, EnterStep
<1>3. CASE hungry(i)
  BY <1>3, HungryStep
<1>4. CASE putdown(i)
  BY <1>4, PutdownStep
<1>5. CASE test(i)
  <2>1. Tests(i, i, "tested")
    BY <1>5 DEF test, Tests, At
  <2>2. QED
    BY <2>1, TestStep
<1>6. CASE testleft(i)
  <2>1. Tests(i, LEFT(i), "testright")
    BY <1>6 DEF testleft, Tests, At
  <2>2. QED
    BY <2>1, Seats, TestStep
<1>7. CASE testright(i)
  <2>1. Tests(i, RIGHT(i), "leave_put")
    BY <1>7 DEF testright, Tests, At
  <2>2. QED
    BY <2>1, Seats, TestStep
<1>8. CASE tested(i)
  BY <1>8, TestedStep
<1>9. CASE leave_take(i) \/ leave_put(i)
  BY <1>9, LeaveStep DEF leave_take, leave_put, At
<1>10. CASE monitor(i)
  <2>1. UNCHANGED <<running, cv, ret, state_condvar, iter>>
    BY <1>10 DEF monitor
  <2>2. CASE cond_signal(i)
    <3>1. CASE /\ At(i, "signal") /\ SignalOrNot(i) /\ UNCHANGED <<semVars, ready, count>>
      BY <2>1, <3>1, SignalStep
    <3>2. CASE /\ At(i, "signal_up") /\ up(cvsem(cv[i])) /\ GoTo(i, "signal_down")
               /\ UNCHANGED monVars
      BY <2>1, <3>2, SignalUpStep
    <3>3. CASE /\ At(i, "signal_down") /\ down(i, next) /\ GoTo(i, "signal_end")
               /\ UNCHANGED monVars
      BY <2>1, <3>3, SignalDownStep
    <3>4. CASE /\ At(i, "signal_end") /\ next_count' = next_count - 1 /\ GoTo(i, ret[i])
               /\ UNCHANGED <<semVars, ready, count>>
      BY <2>1, <3>4, SignalEndStep
    <3>5. QED
      BY <2>2, <3>1, <3>2, <3>3, <3>4 DEF cond_signal
  <2>3. CASE cond_wait(i)
    <3>1. CASE /\ At(i, "wait") /\ count' = [count EXCEPT ![cv[i]] = @ + 1] /\ GoTo(i, "wait_up")
               /\ UNCHANGED <<semVars, ready, next_count>>
      BY <2>1, <3>1, WaitStep
    <3>2. CASE At(i, "wait_up") /\ LeaveMonitor /\ GoTo(i, "wait_down") /\ UNCHANGED monVars
      BY <2>1, <3>2, LeaveStep DEF At
    <3>3. CASE /\ At(i, "wait_down") /\ down(i, cvsem(cv[i])) /\ GoTo(i, "wait_end")
               /\ UNCHANGED monVars
      BY <2>1, <3>3, WaitDownStep
    <3>4. CASE /\ At(i, "wait_end") /\ count' = [count EXCEPT ![cv[i]] = @ - 1] /\ GoTo(i, ret[i])
               /\ UNCHANGED <<semVars, ready, next_count>>
      BY <2>1, <3>4, WaitEndStep
    <3>5. QED
      BY <2>3, <3>1, <3>2, <3>3, <3>4 DEF cond_wait
  <2>4. QED
    BY <1>10, <2>2, <2>3 DEF monitor
<1>11. QED
  BY <1>1, <1>2, <1>3, <1>4, <1>5, <1>6, <1>7, <1>8, <1>9, <1>10 DEF philosopher

\* The invariant holds in every state of the program.
THEOREM Invariance == ASSUME PhilAssumption PROVE Spec => []IInv
<1>1. Init => IInv
  BY Start
<1>2. IInv /\ [Next]_vars => IInv'
  BY SwitchStep, ThreadStep DEF Next, Done
<1>3. QED
  BY <1>1, <1>2, PTL DEF Spec

\* Only an EATING philosopher eats.
LEMMA EatersAreSet ==
  ASSUME IInv, NEW i \in Phil, Eating(i) \/ pc[i] = "leave_take"
  PROVE  state_condvar[i] = "EATING"
BY DEF IInv, Rest, Eating, PlaceOK, State

\* With the monitor free, nobody signals and nobody is about to test.
LEMMA FreeMonitor ==
  ASSUME IInv, value[mutex] = 1, NEW j \in Phil
  PROVE  pc[j] \notin {"test", "testleft", "testright",
                       "signal", "signal_up", "signal_down", "signal_end"}
<1>0. SemOK /\ VarsOK /\ QueueOK /\ TokenOK /\ PromiseOK(j)
  BY DEF IInv, Core, Rest
<1>1. \A x \in Sem : x # mutex => value[x] = 0
  BY <1>0, SemNames DEF TokenOK, SemOK
<1>2. \A k \in Phil : ~Owns(k)
  BY <1>0, SemNames DEF TokenOK
<1>3. ~Handed(j)
  <2>1. cv[j] \in Phil
    BY <1>0 DEF VarsOK
  <2>2. QED
    BY <1>1, <1>2, <2>1, SemNames DEF Handed
<1>4. pc[j] # "signal_down"
  BY <1>0, <1>1, <1>3, SemNames DEF PromiseOK
<1>5. pc[j] # "signal_end"
  <2> SUFFICES ASSUME pc[j] = "signal_end" PROVE FALSE
    OBVIOUS
  <2>1. Blocked(j) /\ Door(j) = next
    BY <1>0, <1>2, OwnsIs DEF Outside, Door, DoorAt
  <2>2. j \in Waiters(next)
    BY <1>0, <2>1, OwnsIs
  <2>3. QED
    BY <1>0, <1>3, <2>2 DEF PromiseOK
<1>6. QED
  BY <1>0, <1>2, <1>4, <1>5, OwnsIs DEF Outside, Queued

\* What is promised of the monitor and of the table follows.
LEMMA Promised ==
  ASSUME PhilAssumption, IInv
  PROVE  MonitorInv
<1>0. SemOK /\ VarsOK /\ QueueOK /\ TokenOK /\ TableOK /\ \A k \in Phil : PlaceOK(k) /\ Remembered(k)
  BY DEF IInv, Core, Rest
<1>1. TypeOK
  BY <1>0 DEF TypeOK, SemOK, VarsOK
<1>2. MonitorExclusive
  BY <1>0 DEF MonitorExclusive, TokenOK
<1>3. ConditionHolds
  <2> SUFFICES ASSUME NEW i \in Phil, pc[i] = "wait_end", ~Blocked(i)
               PROVE  state_condvar[i] = "EATING"
    BY DEF ConditionHolds
  <2>1. i \notin Waiters(cvsem(i))
    BY SemNames DEF Blocked
  <2>2. QED
    BY <1>0, <2>1 DEF PlaceOK, State
<1>4. ForksExclusive
  <2> SUFFICES ASSUME NEW i \in Phil, Eating(i)
               PROVE  ~Eating(LEFT(i)) /\ ~Eating(RIGHT(i))
    BY DEF ForksExclusive
  <2>1. state_condvar[LEFT(i)] # "EATING" /\ state_condvar[RIGHT(i)] # "EATING"
    BY <1>0, EatersAreSet DEF TableOK
  <2>2. QED
    BY <2>1, EatersAreSet, Seats
<1>5. NobodyForgotten
  <2> SUFFICES ASSUME value[mutex] = 1, NEW i \in Phil, state_condvar[i] = "HUNGRY"
               PROVE  state_condvar[LEFT(i)] = "EATING" \/ state_condvar[RIGHT(i)] = "EATING"
    BY DEF NobodyForgotten
  <2>1. pc[i] # "test"
    BY FreeMonitor
  <2>2. \A j \in Phil : ~WillTest(j, i)
    BY FreeMonitor DEF WillTest
  <2>3. QED
    BY <1>0, <2>1, <2>2 DEF Remembered
<1>6. QED
  BY <1>1, <1>2, <1>3, <1>4, <1>5 DEF MonitorInv

\* One thread owns the monitor at a time, whoever hands it to whom; a thread that comes back
\* from cond_wait finds its condition true without testing it again; neighbours never eat at
\* once; and whoever is hungry while the monitor is free has an eating neighbour.
THEOREM MonitorCorrect == ASSUME PhilAssumption PROVE Spec => []MonitorInv
<1>1. IInv => MonitorInv
  BY Promised
<1>2. QED
  BY <1>1, Invariance, PTL

-----------------------------------------------------------------------------
(* The threads implement the abstract table. *)

\* What Phase(k) and Meals(k) look at.
LEMMA SameSeat ==
  ASSUME NEW k \in Phil, pc'[k] = pc[k], state_condvar'[k] = state_condvar[k], iter'[k] = iter[k]
  PROVE  Phase(k)' = Phase(k) /\ Meals(k)' = Meals(k)
BY DEF Phase, Meals, Eating

\* A step that changes no phase and no count is a stutter of the table.
LEMMA Quiet ==
  ASSUME \A k \in Phil : Phase(k)' = Phase(k) /\ Meals(k)' = Meals(k)
  PROVE  [Table!Next]_<<[h \in Phil |-> Phase(h)], [h \in Phil |-> Meals(h)]>>
<1>1. [i \in Phil |-> Phase(i)]' = [i \in Phil |-> Phase(i)]
  OBVIOUS
<1>2. [i \in Phil |-> Meals(i)]' = [i \in Phil |-> Meals(i)]
  OBVIOUS
<1>3. QED
  BY <1>1, <1>2

\* The table's seats are the threads'.
LEMMA TableNames ==
  /\ Table!Phil = Phil
  /\ \A i : Table!LEFT(i) = LEFT(i) /\ Table!RIGHT(i) = RIGHT(i)
BY DEF Table!Phil, Table!LEFT, Table!RIGHT, Phil, LEFT, RIGHT

\* A thinking philosopher of the table gets hungry.
LEMMA GetsHungry ==
  ASSUME NEW i \in Phil, Phase(i) = "thinking", Phase(i)' = "hungry", Meals(i) < TIMES,
         \A k \in Phil : k # i => Phase(k)' = Phase(k),
         \A k \in Phil : Meals(k)' = Meals(k)
  PROVE  Table!Next
<1>1. [k \in Phil |-> Phase(k)]' = [[k \in Phil |-> Phase(k)] EXCEPT ![i] = "hungry"]
  OBVIOUS
<1>2. [k \in Phil |-> Meals(k)]' = [k \in Phil |-> Meals(k)]
  OBVIOUS
<1>3. Table!GetHungry(i)
  BY <1>1, <1>2 DEF Table!GetHungry
<1>4. QED
  BY <1>3, TableNames DEF Table!Next

\* A hungry philosopher of the table starts to eat.
LEMMA Eats ==
  ASSUME PhilAssumption, NEW i \in Phil, Phase(i) = "hungry", Phase(i)' = "eating",
         Phase(LEFT(i)) # "eating", Phase(RIGHT(i)) # "eating",
         \A k \in Phil : k # i => Phase(k)' = Phase(k),
         \A k \in Phil : Meals(k)' = Meals(k)
  PROVE  Table!Next
<1>1. [k \in Phil |-> Phase(k)]' = [[k \in Phil |-> Phase(k)] EXCEPT ![i] = "eating"]
  OBVIOUS
<1>2. [k \in Phil |-> Meals(k)]' = [k \in Phil |-> Meals(k)]
  OBVIOUS
<1>3. Table!Eat(i)
  BY <1>1, <1>2, TableNames, Seats DEF Table!Eat
<1>4. QED
  BY <1>3, TableNames DEF Table!Next

\* An eating philosopher of the table stops.
LEMMA Stops ==
  ASSUME NEW i \in Phil, Phase(i) = "eating", Phase(i)' = "thinking", Meals(i)' = Meals(i) + 1,
         \A k \in Phil : k # i => Phase(k)' = Phase(k) /\ Meals(k)' = Meals(k)
  PROVE  Table!Next
<1>1. [k \in Phil |-> Phase(k)]' = [[k \in Phil |-> Phase(k)] EXCEPT ![i] = "thinking"]
  OBVIOUS
<1>2. [k \in Phil |-> Meals(k)]' = [[k \in Phil |-> Meals(k)] EXCEPT ![i] = @ + 1]
  OBVIOUS
<1>3. Table!Stop(i)
  BY <1>1, <1>2 DEF Table!Stop
<1>4. QED
  BY <1>3, TableNames DEF Table!Next

\* schedule() shows on no phase.
LEMMA StutterStep ==
  ASSUME switch \/ UNCHANGED vars
  PROVE  [Table!Next]_<<[h \in Phil |-> Phase(h)], [h \in Phil |-> Meals(h)]>>
<1>1. pc' = pc /\ state_condvar' = state_condvar /\ iter' = iter
  BY DEF switch, vars
<1>2. \A k \in Phil : Phase(k)' = Phase(k) /\ Meals(k)' = Meals(k)
  BY <1>1 DEF Phase, Meals, Eating
<1>3. QED
  BY <1>2, Quiet

\* A thread that goes to sleep or wakes up.
LEMMA SleepMaps ==
  ASSUME PhilAssumption, IInv, NEW i \in Phil, think(i) \/ eat(i) \/ wake(i) \/ take(i) \/ put(i)
  PROVE  [Table!Next]_<<[h \in Phil |-> Phase(h)], [h \in Phil |-> Meals(h)]>>
<1>0. VarsOK /\ PlaceOK(i)
  BY DEF IInv, Core, Rest
<1>1. state_condvar' = state_condvar
  BY DEF think, eat, wake, take, put
<1>2. /\ \A k \in Phil : k # i => pc'[k] = pc[k] /\ iter'[k] = iter[k]
      /\ \/ pc[i] = "think" /\ pc'[i] = "take" /\ iter'[i] = iter[i] + 1
         \/ /\ iter'[i] = iter[i]
            /\ \/ pc[i] = "think" /\ pc'[i] = "quit"
               \/ pc[i] = "eat" /\ pc'[i] = "put"
               \/ pc[i] = "take" /\ pc'[i] = "hungry"
               \/ pc[i] = "put" /\ pc'[i] = "putdown"
               \/ pc'[i] = pc[i]
  <2>1. pc \in [Phil -> Places] /\ iter \in [Phil -> 0..TIMES]
    BY <1>0 DEF VarsOK
  <2>2. QED
    BY <2>1 DEF think, eat, wake, take, put, At, GoTo
<1>3. iter[i] \in Nat
  BY <1>0 DEF VarsOK, PhilAssumption
<1>4. Phase(i)' = Phase(i) /\ Meals(i)' = Meals(i)
  <2>1. Eating(i)' <=> Eating(i)
    BY <1>2 DEF Eating
  <2>2. pc[i] \in {"think", "take"} => state_condvar[i] = "THINKING"
    BY <1>0 DEF PlaceOK, State
  <2>3. Meals(i)' = Meals(i)
    <3>1. CASE pc[i] = "think" /\ pc'[i] = "take" /\ iter'[i] = iter[i] + 1
      BY <1>1, <1>3, <2>2, <3>1 DEF Meals
    <3>2. CASE /\ iter'[i] = iter[i]
               /\ pc'[i] \in {"take", "hungry"} <=> pc[i] \in {"take", "hungry"}
      BY <1>1, <3>2 DEF Meals
    <3>3. QED
      BY <1>2, <3>1, <3>2
  <2>4. QED
    BY <1>1, <2>1, <2>3 DEF Phase
<1>5. \A k \in Phil : k # i => Phase(k)' = Phase(k) /\ Meals(k)' = Meals(k)
  BY <1>1, <1>2, SameSeat
<1>6. QED
  BY <1>4, <1>5, Quiet

\* The places between which a thread neither eats nor begins a round.
Inside == MonitorPlaces \cup {"test", "tested", "leave_take", "testleft", "testright", "leave_put",
                              "think"}

\* A thread that neither wishes nor starts nor stops to eat.
LEMMA InsideMaps ==
  ASSUME IInv, NEW i \in Phil, iter' = iter,
         \A k \in Phil : k # i => pc'[k] = pc[k],
         pc[i] \in Inside, pc'[i] \in Inside,
         \A k \in Phil : \/ state_condvar'[k] = state_condvar[k]
                         \/ state_condvar[k] = "HUNGRY" /\ state_condvar'[k] = "EATING"
  PROVE  [Table!Next]_<<[h \in Phil |-> Phase(h)], [h \in Phil |-> Meals(h)]>>
<1>1. ASSUME NEW k \in Phil
      PROVE  Phase(k)' = Phase(k) /\ Meals(k)' = Meals(k)
  <2>1. /\ Eating(k)' <=> Eating(k)
        /\ pc'[k] \in {"take", "hungry"} <=> pc[k] \in {"take", "hungry"}
    BY DEF Inside, MonitorPlaces, Eating
  <2>2. state_condvar'[k] = "THINKING" <=> state_condvar[k] = "THINKING"
    OBVIOUS
  <2>3. QED
    BY <2>1, <2>2 DEF Phase, Meals
<1>2. QED
  BY <1>1, Quiet

\* A thinking philosopher gets hungry at the table.
LEMMA HungryMaps ==
  ASSUME PhilAssumption, IInv, NEW i \in Phil, hungry(i)
  PROVE  Table!Next
<1>0. VarsOK /\ PlaceOK(i)
  BY DEF IInv, Core, Rest
<1>1. pc[i] = "hungry" /\ iter' = iter
  BY DEF hungry, At
<1>2. pc'[i] = "test" /\ \A k \in Phil : k # i => pc'[k] = pc[k]
  BY <1>0, Moved DEF hungry, Places
<1>3. /\ state_condvar'[i] = "HUNGRY"
      /\ \A k \in Phil : k # i => state_condvar'[k] = state_condvar[k]
  BY <1>0, WasSet DEF hungry
<1>4. state_condvar[i] = "THINKING"
  BY <1>0, <1>1 DEF PlaceOK, State
<1>5. \A k \in Phil : k # i => Phase(k)' = Phase(k) /\ Meals(k)' = Meals(k)
  BY <1>1, <1>2, <1>3, SameSeat
<1>6. Phase(i) = "thinking" /\ Phase(i)' = "hungry"
  BY <1>1, <1>2, <1>3, <1>4 DEF Phase, Eating
<1>7. Meals(i)' = Meals(i) /\ Meals(i) < TIMES
  <2>1. iter[i] \in 0..TIMES /\ TIMES \in Nat
    BY <1>0 DEF VarsOK, PhilAssumption
  <2>2. Meals(i) = iter[i] - 1 /\ Meals(i)' = iter[i] - 1
    BY <1>1, <1>3 DEF Meals
  <2>3. QED
    BY <2>1, <2>2
<1>8. QED
  BY <1>5, <1>6, <1>7, GetsHungry

\* A philosopher that puts its forks down stops eating, once more fed.
LEMMA PutdownMaps ==
  ASSUME PhilAssumption, IInv, NEW i \in Phil, putdown(i)
  PROVE  Table!Next
<1>0. VarsOK /\ PlaceOK(i)
  BY DEF IInv, Core, Rest
<1>1. pc[i] = "putdown" /\ iter' = iter
  BY DEF putdown, At
<1>2. pc'[i] = "testleft" /\ \A k \in Phil : k # i => pc'[k] = pc[k]
  BY <1>0, Moved DEF putdown, Places
<1>3. /\ state_condvar'[i] = "THINKING"
      /\ \A k \in Phil : k # i => state_condvar'[k] = state_condvar[k]
  BY <1>0, WasSet DEF putdown
<1>4. state_condvar[i] = "EATING"
  BY <1>0, <1>1 DEF PlaceOK, State
<1>5. \A k \in Phil : k # i => Phase(k)' = Phase(k) /\ Meals(k)' = Meals(k)
  BY <1>1, <1>2, <1>3, SameSeat
<1>6. Phase(i) = "eating" /\ Phase(i)' = "thinking"
  BY <1>1, <1>2, <1>3 DEF Phase, Eating
<1>7. Meals(i)' = Meals(i) + 1
  <2>1. iter[i] \in Nat
    BY <1>0 DEF VarsOK, PhilAssumption
  <2>2. Meals(i) = iter[i] - 1 /\ Meals(i)' = iter[i]
    BY <1>1, <1>2, <1>3, <1>4 DEF Meals
  <2>3. QED
    BY <2>1, <2>2
<1>8. QED
  BY <1>5, <1>6, <1>7, Stops

\* A philosopher that leaves phi_take_forks_condvar starts to eat, and no neighbour does.
LEMMA LeaveMaps ==
  ASSUME PhilAssumption, IInv, NEW i \in Phil, leave_take(i)
  PROVE  Table!Next
<1>0. VarsOK /\ TableOK
  BY DEF IInv, Core, Rest
<1>1. pc[i] = "leave_take" /\ iter' = iter /\ state_condvar' = state_condvar
  BY DEF leave_take, At
<1>2. pc'[i] = "eat" /\ \A k \in Phil : k # i => pc'[k] = pc[k]
  BY <1>0, Moved DEF leave_take, Places
<1>3. state_condvar[i] = "EATING"
  BY <1>1, EatersAreSet
<1>4. Phase(LEFT(i)) # "eating" /\ Phase(RIGHT(i)) # "eating"
  BY <1>0, <1>3, EatersAreSet, Seats DEF TableOK, Phase
<1>5. \A k \in Phil : k # i => Phase(k)' = Phase(k) /\ Meals(k)' = Meals(k)
  BY <1>1, <1>2, SameSeat
<1>6. Phase(i) = "hungry" /\ Phase(i)' = "eating" /\ Meals(i)' = Meals(i)
  BY <1>1, <1>2, <1>3 DEF Phase, Eating, Meals
<1>7. QED
  BY <1>4, <1>5, <1>6, Eats

\* The other steps in the monitor.
LEMMA MonitorMaps ==
  ASSUME PhilAssumption, IInv, NEW i \in Phil,
         test(i) \/ testleft(i) \/ testright(i) \/ tested(i) \/ leave_put(i) \/ monitor(i)
  PROVE  [Table!Next]_<<[h \in Phil |-> Phase(h)], [h \in Phil |-> Meals(h)]>>
<1>0. VarsOK /\ PlaceOK(i)
  BY DEF IInv, Core, Rest
<1>1. CASE test(i) \/ testleft(i) \/ testright(i)
  <2>1. PICK j \in Phil, back \in {"tested", "testright", "leave_put"} : Tests(i, j, back)
    BY <1>1, Seats DEF test, testleft, testright, Tests, At
  <2>2. pc[i] \in Inside /\ iter' = iter
    BY <2>1 DEF Tests, Inside
  <2>3. /\ \A k \in Phil : k # i => pc'[k] = pc[k]
        /\ \A k \in Phil : k # j => state_condvar'[k] = state_condvar[k]
        /\ \/ MayEat(j) /\ state_condvar'[j] = "EATING" /\ pc'[i] = "signal"
           \/ state_condvar'[j] = state_condvar[j] /\ pc'[i] = back
    BY <1>0, <2>1, TestEffect
  <2>4. pc'[i] \in Inside
    BY <2>1, <2>3 DEF Inside, MonitorPlaces
  <2>5. \A k \in Phil : \/ state_condvar'[k] = state_condvar[k]
                        \/ state_condvar[k] = "HUNGRY" /\ state_condvar'[k] = "EATING"
    BY <2>3 DEF MayEat
  <2>6. QED
    BY <2>2, <2>3, <2>4, <2>5, InsideMaps
<1>2. CASE tested(i) \/ leave_put(i) \/ monitor(i)
  <2>1. iter' = iter /\ state_condvar' = state_condvar
    BY <1>2 DEF tested, leave_put, monitor
  <2>2. pc[i] \in Inside
    BY <1>2 DEF tested, leave_put, monitor, cond_signal, cond_wait, At, Inside, MonitorPlaces
  <2>3. \E place \in Inside : GoTo(i, place)
    <3>1. CASE tested(i) \/ leave_put(i)
      BY <3>1 DEF tested, leave_put, WaitIfHungry, Call, Inside, MonitorPlaces
    <3>2. CASE cond_signal(i)
      <4>1. pc[i] \in {"signal", "signal_end"} => ret[i] \in Inside
        BY <1>0 DEF PlaceOK, SignalPlaceOK, Inside
      <4>2. QED
        BY <3>2, <4>1 DEF cond_signal, SignalOrNot, At, Inside, MonitorPlaces
    <3>3. CASE cond_wait(i)
      <4>1. pc[i] = "wait_end" => ret[i] \in Inside
        BY <1>0 DEF PlaceOK, Inside
      <4>2. QED
        BY <3>3, <4>1 DEF cond_wait, At, Inside, MonitorPlaces
    <3>4. QED
      BY <1>2, <3>1, <3>2, <3>3 DEF monitor
  <2>4. pc'[i] \in Inside /\ \A k \in Phil : k # i => pc'[k] = pc[k]
    BY <1>0, <2>3 DEF GoTo, VarsOK
  <2>5. QED
    BY <2>1, <2>2, <2>4, InsideMaps
<1>3. QED
  BY <1>1, <1>2

\* The philosophers with the monitor implement the abstract table: forks are taken both at
\* once, never beside an eating neighbour, and every meal ends.
THEOREM Refinement == ASSUME PhilAssumption PROVE Spec => MonitorImplementsDining
<1>1. Init => Table!Init
  <2> SUFFICES ASSUME Init PROVE Table!Init
    OBVIOUS
  <2>1. /\ state_condvar = [i \in Phil |-> "THINKING"]
        /\ iter = [i \in Phil |-> 0] /\ pc = [i \in Phil |-> "think"]
    BY DEF Init
  <2>2. \A k \in Phil : Phase(k) = "thinking" /\ Meals(k) = 0
    BY <2>1 DEF Phase, Meals, Eating
  <2>3. QED
    BY <2>2, TableNames DEF Table!Init
<1>2. IInv /\ [Next]_vars => [Table!Next]_<<[h \in Phil |-> Phase(h)], [h \in Phil |-> Meals(h)]>>
  <2> SUFFICES ASSUME IInv, [Next]_vars
               PROVE  [Table!Next]_<<[h \in Phil |-> Phase(h)], [h \in Phil |-> Meals(h)]>>
    OBVIOUS
  <2>1. CASE switch \/ UNCHANGED vars
    BY <2>1, StutterStep
  <2>2. ASSUME NEW i \in Phil, philosopher(i) \/ wake(i)
        PROVE  [Table!Next]_<<[h \in Phil |-> Phase(h)], [h \in Phil |-> Meals(h)]>>
    <3>1. CASE think(i) \/ eat(i) \/ wake(i) \/ take(i) \/ put(i)
      BY <3>1, SleepMaps
    <3>2. CASE hungry(i)
      BY <3>2, HungryMaps
    <3>3. CASE putdown(i)
      BY <3>3, PutdownMaps
    <3>4. CASE leave_take(i)
      BY <3>4, LeaveMaps
    <3>5. CASE test(i) \/ testleft(i) \/ testright(i) \/ tested(i) \/ leave_put(i) \/ monitor(i)
      BY <3>5, MonitorMaps
    <3>6. QED
      BY <2>2, <3>1, <3>2, <3>3, <3>4, <3>5 DEF philosopher
  <2>3. QED
    BY <2>1, <2>2 DEF Next, Done
<1>3. QED
  BY <1>1, <1>2, Invariance, PTL DEF Spec, MonitorImplementsDining, Table!Spec
=============================================================================
