-------------------------------- MODULE Stdin --------------------------------
(***************************************************************************)
(* The keyboard buffer of dev_stdin.c: a ring written by the keyboard      *)
(* interrupt and read by processes, which sleep in its wait queue for as   *)
(* many characters as they asked for and may be killed there.              *)
(*                                                                         *)
(* Keys are numbered in the order they are typed, so that a character is   *)
(* told from every other one.                                              *)
(***************************************************************************)
EXTENDS Integers, Sequences, FiniteSets

CONSTANTS Reader,          \* the processes
          STDIN_BUFSIZE,
          MaxLen,          \* bound on the length of a read
          MaxKeys          \* bound on the keys typed

StdinAssumption == STDIN_BUFSIZE \in Nat \ {0} /\ {MaxLen, MaxKeys} \subseteq Nat

VARIABLES stdin_buffer, p_rpos, p_wpos,
          wait_queue,      \* the processes whose wait_t is linked, first to last
          wakeup_flags,    \* of the wait_t on each process's stack
          place,           \* "user", "asleep" or "woken" in a read, "gone"
          exiting,         \* processes with PF_EXITING set
          need,            \* characters the read of each process still wants
          got,             \* history: the characters each process was given
          typed, dropped   \* history: keys typed; keys that were overwritten

keyVars == <<stdin_buffer, p_rpos, p_wpos, wait_queue, wakeup_flags, place, exiting, need,
             got, typed, dropped>>

Slot(pos) == stdin_buffer[pos % STDIN_BUFSIZE]
Available == p_wpos - p_rpos
Least(a, b) == IF a < b THEN a ELSE b

\* wait_current_del takes the entry of p out of the queue, when it is still linked.
wait_in_queue(p) == \E i \in DOMAIN wait_queue : wait_queue[i] = p
Without(q, k) == [i \in 1..(Len(q) - 1) |-> q[IF i < k THEN i ELSE i + 1]]
Unlinked(p) ==
    IF wait_in_queue(p) THEN Without(wait_queue, CHOOSE k \in DOMAIN wait_queue : wait_queue[k] = p)
    ELSE wait_queue

-----------------------------------------------------------------------------

\* wakeup_queue unlinks everybody, runnable or not, and notes the reason.
wakeup_queue ==
    LET waiting == {wait_queue[i] : i \in DOMAIN wait_queue} IN
    /\ wait_queue' = <<>>
    /\ wakeup_flags' = [p \in Reader |-> IF p \in waiting THEN "WT_KBD" ELSE wakeup_flags[p]]
    /\ place' = [p \in Reader |-> IF p \in waiting THEN "woken" ELSE place[p]]

\* The writer is off by one.
Mutant_OneTooMany(pos) == IF pos - p_rpos <= STDIN_BUFSIZE THEN pos + 1 ELSE pos

\* The write position stays when the buffer is full.
AfterWrite(pos) == IF pos - p_rpos < STDIN_BUFSIZE THEN pos + 1 ELSE pos

dev_stdin_write ==
    /\ typed < MaxKeys
    /\ typed' = typed + 1
    /\ dropped' = IF Available < STDIN_BUFSIZE THEN dropped ELSE dropped \cup {Slot(p_wpos)}
    /\ stdin_buffer' = [stdin_buffer EXCEPT ![p_wpos % STDIN_BUFSIZE] = typed + 1]
    /\ p_wpos' = AfterWrite(p_wpos)
    /\ wakeup_queue
    /\ UNCHANGED <<p_rpos, exiting, need, got>>

\* The return to user mode, where a killed process exits.
Return(p) == place' = [place EXCEPT ![p] = IF p \in exiting THEN "gone" ELSE "user"]

\* The loop of dev_stdin_read from a point where no entry of p is linked,
\* with n characters still to read: take what there is, then return or sleep.
ReadOn(p, n) ==
    LET k == Least(n, Available) IN
    /\ got' = [got EXCEPT ![p] = @ \o [i \in 1..k |-> Slot(p_rpos + i - 1)]]
    /\ p_rpos' = p_rpos + k
    /\ need' = [need EXCEPT ![p] = n - k]
    /\ IF k = n
       THEN /\ Return(p)
            /\ wait_queue' = Unlinked(p)
            /\ UNCHANGED wakeup_flags
       ELSE /\ place' = [place EXCEPT ![p] = "asleep"]
            /\ wait_queue' = Append(Unlinked(p), p)
            /\ wakeup_flags' = [wakeup_flags EXCEPT ![p] = "WT_INTERRUPTED"]
    /\ UNCHANGED <<stdin_buffer, p_wpos, exiting, typed, dropped>>

dev_stdin_read(p) ==
    /\ place[p] = "user"
    /\ \E len \in 0..MaxLen : ReadOn(p, len)

\* wait_current_del is forgotten.
Mutant_KeepsEntry(p) ==
    /\ place[p] = "woken"
    /\ wakeup_flags[p] # "WT_KBD"
    /\ Return(p)
    /\ UNCHANGED <<stdin_buffer, p_rpos, p_wpos, wait_queue, wakeup_flags, exiting, need,
                   got, typed, dropped>>

\* schedule() returned and the entry is unlinked: the process was not woken
\* by a key and gives up with what it has.
interrupted(p) ==
    /\ place[p] = "woken"
    /\ wakeup_flags[p] # "WT_KBD"
    /\ wait_queue' = Unlinked(p)
    /\ Return(p)
    /\ UNCHANGED <<stdin_buffer, p_rpos, p_wpos, wakeup_flags, exiting, need, got,
                   typed, dropped>>

\* schedule() returned after a key: goto try_again.
try_again(p) ==
    /\ place[p] = "woken"
    /\ wakeup_flags[p] = "WT_KBD"
    /\ ReadOn(p, need[p])

\* A sleeping reader is woken and stays linked until it runs; anybody else is
\* only marked.
do_kill(p) ==
    /\ place[p] # "gone"
    /\ p \notin exiting
    /\ exiting' = exiting \cup {p}
    /\ place' = IF place[p] = "asleep" THEN [place EXCEPT ![p] = "woken"] ELSE place
    /\ UNCHANGED <<stdin_buffer, p_rpos, p_wpos, wait_queue, wakeup_flags, need, got,
                   typed, dropped>>

KeysNext == \/ dev_stdin_write
            \/ \E p \in Reader : \/ dev_stdin_read(p) \/ interrupted(p) \/ try_again(p)
                               \/ do_kill(p)

stdin_device_init == /\ stdin_buffer = [i \in 0..(STDIN_BUFSIZE - 1) |-> 0]
                     /\ p_rpos = 0 /\ p_wpos = 0
                     /\ wait_queue = <<>>
                     /\ wakeup_flags = [p \in Reader |-> "WT_INTERRUPTED"]
                     /\ place = [p \in Reader |-> "user"]
                     /\ exiting = {}
                     /\ need = [p \in Reader |-> 0]
                     /\ got = [p \in Reader |-> <<>>]
                     /\ typed = 0 /\ dropped = {}

KeysSpec == stdin_device_init /\ [][KeysNext]_keyVars

-----------------------------------------------------------------------------
Delivered == UNION {{got[p][i] : i \in DOMAIN got[p]} : p \in Reader}
Unread == [i \in 1..Available |-> Slot(p_rpos + i - 1)]

(* Types; the positions never run apart by more than the buffer. *)
KeysTypeOK == /\ stdin_buffer \in [0..(STDIN_BUFSIZE - 1) -> 0..MaxKeys]
              /\ p_rpos \in Nat /\ p_wpos \in p_rpos..(p_rpos + STDIN_BUFSIZE)
              /\ wait_queue \in Seq(Reader)
              /\ wakeup_flags \in [Reader -> {"WT_KBD", "WT_INTERRUPTED"}]
              /\ place \in [Reader -> {"user", "asleep", "woken", "gone"}]
              /\ exiting \subseteq Reader
              /\ need \in [Reader -> 0..MaxLen]
              /\ got \in [Reader -> Seq(1..MaxKeys)]
              /\ typed \in 0..MaxKeys /\ dropped \subseteq 1..MaxKeys

\* Every key is in exactly one place: still unread, delivered to one process
\* once, or overwritten by a later key while the buffer was full.
EveryKeyOnce ==
    /\ Cardinality(Delivered) + Cardinality(dropped) + Available = typed
    /\ \A p, q \in Reader : \A i \in DOMAIN got[p], j \in DOMAIN got[q] :
          got[p][i] = got[q][j] => p = q /\ i = j

\* No reader sleeps beside a character it could have.
NoSleepBesideKeys ==
    Available > 0 => \A p \in Reader : place[p] # "asleep"

\* The wait queue holds no entry of a read that has returned, and everybody
\* asleep is in it once, so that the next key wakes all of them.
QueueMatchesReaders ==
    /\ \A i, j \in DOMAIN wait_queue : wait_queue[i] = wait_queue[j] => i = j
    /\ \A p \in Reader :
          /\ place[p] = "asleep" => wait_in_queue(p)
          /\ wait_in_queue(p) => \/ place[p] = "asleep"
                                 \/ place[p] = "woken" /\ p \in exiting

\* A read ends short of what it asked for only because the process was killed.
ShortReadsAreKills ==
    [][\A p \in Reader : place[p] = "woken" /\ place'[p] \in {"user", "gone"} /\ need'[p] > 0
          => p \in exiting]_keyVars

\* Stronger than what the code keeps, and claimed by no run: a reader gets its
\* characters in the order they were typed.  A key that finds the buffer full is
\* written where the next read starts (dev_stdin.c:27-30), so it overtakes the others.
InTypingOrder ==
    \A p \in Reader : \A i, j \in DOMAIN got[p] : i < j => got[p][i] < got[p][j]

\* The ring and its wait queue implement the abstract keyboard: order is claimed
\* for as long as the buffer has room, and every overflow loses one unread key.
K == INSTANCE Keyboard WITH BufSize <- STDIN_BUFSIZE, Key <- 1..MaxKeys, unread <- Unread
ImplementsKeyboard == K!Spec

\* What holds of the buffer and of its readers between any two steps.
KeysInv == KeysTypeOK /\ EveryKeyOnce /\ NoSleepBesideKeys /\ QueueMatchesReaders
=============================================================================
