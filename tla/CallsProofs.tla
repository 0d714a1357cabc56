---------------------------- MODULE CallsProofs ----------------------------
(***************************************************************************)
(* Proofs about four parts of the system calls that share no state.        *)
(*                                                                         *)
(* LockOrder, for any number of processes and any inodes: every way        *)
(* through every function of the file systems keeps the order of the       *)
(* layers of semaphores and gives back what it takes.  Nobody waits in a   *)
(* circle then, and in a kernel that does not preempt itself nobody sleeps *)
(* with a semaphore.                                                       *)
(*                                                                         *)
(* GetPid, for every MAX_PID and MAX_PROCESS: get_pid returns a pid that   *)
(* no process has.                                                         *)
(*                                                                         *)
(* AddressSpace, for any number of processes, any programs and any sizes   *)
(* of pages, tables and user space: areas are sorted and disjoint and      *)
(* exit_mmap finds every page (SpacesCorrect), a fork is a copy            *)
(* (CopiesComplete), and a user address is accepted exactly if the areas   *)
(* allow it (ChecksCorrect).                                               *)
(*                                                                         *)
(* ProcLinks, for any finite set of processes: the sibling pointers encode *)
(* the lists of children at every step of fork, exit and wait              *)
(* (LinksCorrect) and implement the family tree (FamilyRefinement).        *)
(***************************************************************************)
EXTENDS LockOrder, GetPid, AddressSpace, ProcLinks, FiniteSetTheorems, FunctionTheorems, NaturalsInduction,
        WellFoundedInduction, SequenceTheorems, TLAPS

-----------------------------------------------------------------------------
(* Paths: what a sequence of steps does to the semaphores its process holds. *)

\* The functions by what they work on.
NodeFns == {"sfs_io", "sfs_truncfile", "sfs_fsync", "sfs_lookup_once", "sfs_reclaim",
            "vop_ref_dec", "vfs_close", "sfs_lookup"}
ProcFns == {"vfs_set_curdir", "user_memory", "sysfile_open", "sysfile_close", "sysfile_read",
            "sysfile_write", "sysfile_seek", "sysfile_fsync", "sysfile_getdirentry",
            "sysfile_chdir", "sysfile_getcwd", "do_execve"}
KernelFns == {"disk0_io", "sfs_rwblock", "sfs_load_inode", "sfs_sync", "sfs_namefile",
              "vfs_get_root", "vfs_get_bootfs", "get_device", "vfs_lookup", "vfs_open",
              "vfs_getcwd", "vfs_cleanup", "dev_stdin_read", "put_files"}

\* The calls, on the inodes and processes they are made for, and all steps.
Calls == {Call(f, n) : f \in NodeFns, n \in Nodes}
           \cup {Call(f, p) : f \in ProcFns, p \in Proc}
           \cup {Call(f, x) : f \in KernelFns, x \in Proc \cup {"kernel"}}
Steps == {Down(l) : l \in Locks} \cup {Up(l) : l \in Locks} \cup {Sleep} \cup Calls

\* The outermost layer of semaphores that a call may take.
Depth(s) ==
    IF s[1] = "disk0_io" THEN 5
    ELSE IF s[1] = "sfs_rwblock" THEN 4
    ELSE IF s[1] \in {"sfs_io", "sfs_truncfile", "sfs_fsync"} THEN 3
    ELSE IF s[1] \in {"sfs_load_inode", "sfs_lookup_once", "sfs_reclaim", "sfs_sync",
                      "vop_ref_dec", "vfs_close", "sfs_namefile", "sfs_lookup", "vfs_getcwd"}
         THEN 2
    ELSE 1

\* Every semaphore of H belongs to a layer outside the d-th.
Below(H, d) == \A h \in H : Rank(h) < d

\* A step that a process which has H may take, and what it has then.
Moves(s, H, K) ==
    \/ \E l \in Locks : s = Down(l) /\ Below(H, Rank(l)) /\ K = H \cup {l}
    \/ \E l \in Locks : s = Up(l) /\ l \in H /\ K = H \ {l}
    \/ s = Sleep /\ H = {} /\ K = {}
    \/ s \in Calls /\ Below(H, Depth(s)) /\ K = H

\* How often t has the step s; how many tokens of l it gives back beyond those it takes;
\* how many of them there are in H.
Count(t, s) == Cardinality({i \in DOMAIN t : t[i] = s})
Balance(t, l) == Count(t, Up(l)) - Count(t, Down(l))
Has(H, l) == IF l \in H THEN 1 ELSE 0

\* The steps t lead from H to K by moves.
Leads(t, H, K) ==
    /\ t \in Seq(Steps) /\ H \in SUBSET Locks /\ K \in SUBSET Locks
    /\ \E g \in [0..Len(t) -> SUBSET Locks] :
          /\ g[0] = H /\ g[Len(t)] = K
          /\ \A i \in 1..Len(t) : Moves(t[i], g[i - 1], g[i])
    /\ \A l \in Locks : Balance(t, l) = Has(H, l) - Has(K, l)

-----------------------------------------------------------------------------
(* Counting. *)

\* Every semaphore belongs to one of the five layers.
LEMMA RankRange == \A l \in Locks : Rank(l) \in 1..5
<1>1. TAKE l \in Locks
<1>2. CASE l \in {vdev_list_sem, bootfs_sem}
  BY <1>2 DEF Rank, vdev_list_sem, bootfs_sem
<1>3. CASE l = fs_sem
  BY <1>3 DEF Rank, fs_sem
<1>4. CASE l = io_sem
  BY <1>4 DEF Rank, io_sem
<1>5. CASE l = disk0_sem
  BY <1>5 DEF Rank, disk0_sem
<1>6. CASE \E n \in Nodes : l = sin_sem(n)
  BY <1>6 DEF Rank, sin_sem
<1>7. CASE \E p \in Proc : l = mm_sem(p) \/ l = files_sem(p)
  BY <1>7 DEF Rank, mm_sem, files_sem
<1>8. QED
  BY <1>2, <1>3, <1>4, <1>5, <1>6, <1>7 DEF Locks

\* A sequence has each step a finite number of times.
LEMMA CountType ==
  ASSUME NEW t \in Seq(Steps), NEW s
  PROVE  IsFiniteSet({i \in DOMAIN t : t[i] = s}) /\ Count(t, s) \in Nat
<1>1. Len(t) \in Nat /\ DOMAIN t = 1..Len(t)
  BY LenProperties
<1>2. IsFiniteSet(1..Len(t))
  BY <1>1, FS_Interval
<1>3. IsFiniteSet({i \in DOMAIN t : t[i] = s})
  BY <1>1, <1>2, FS_Subset
<1>4. QED
  BY <1>3, FS_CardinalityType DEF Count

\* The empty sequence has no steps.
LEMMA CountEmpty == \A s : Count(<<>>, s) = 0
<1>1. \A s : {i \in DOMAIN <<>> : <<>>[i] = s} = {}
  OBVIOUS
<1>2. QED
  BY <1>1, FS_EmptySet DEF Count

\* A sequence of one step has that one, once.
LEMMA CountOne ==
  ASSUME NEW x, NEW s
  PROVE  Count(<<x>>, s) = IF x = s THEN 1 ELSE 0
<1>1. {i \in DOMAIN <<x>> : <<x>>[i] = s} = IF x = s THEN {1} ELSE {}
  OBVIOUS
<1>2. QED
  BY <1>1, FS_EmptySet, FS_Singleton DEF Count

\* The steps of a sequence that follows another are the same, further on.
LEMMA CountConcat ==
  ASSUME NEW a \in Seq(Steps), NEW b \in Seq(Steps), NEW s
  PROVE  Count(a \o b, s) = Count(a, s) + Count(b, s)
<1> DEFINE A == {i \in DOMAIN a : a[i] = s}
           B == {i \in DOMAIN b : b[i] = s}
           C == {i \in DOMAIN (a \o b) : (a \o b)[i] = s}
           n == Len(a)
           D == {i \in C : i > n}
           f == [i \in B |-> i + n]
<1>1. /\ n \in Nat /\ Len(b) \in Nat /\ Len(a \o b) = n + Len(b)
      /\ DOMAIN a = 1..n /\ DOMAIN b = 1..Len(b) /\ DOMAIN (a \o b) = 1..(n + Len(b))
      /\ \A i \in 1..(n + Len(b)) : (a \o b)[i] = IF i <= n THEN a[i] ELSE b[i - n]
  BY ConcatProperties, LenProperties
<1>2. C = A \cup D /\ A \cap D = {}
  BY <1>1
<1>3. IsFiniteSet(A) /\ IsFiniteSet(B)
  BY CountType
<1>4. /\ f \in [B -> D]
      /\ \A i, j \in B : f[i] = f[j] => i = j
      /\ \A k \in D : \E i \in B : f[i] = k
  <2>1. \A i \in B : i + n \in D
    BY <1>1
  <2>2. \A k \in D : k - n \in B /\ f[k - n] = k
    BY <1>1
  <2>3. \A i, j \in B : i + n = j + n => i = j
    BY <1>1
  <2>4. QED
    BY <2>1, <2>2, <2>3
<1>5. IsFiniteSet(D) /\ Cardinality(D) = Cardinality(B)
  <2>1. ExistsBijection(B, D)
    <3> HIDE DEF f, B, D
    <3>1. f \in Bijection(B, D)
      BY <1>4, Fun_IsBij
    <3>2. QED
      BY <3>1, Fun_ExistsBij
  <2>2. QED
    BY <1>3, <2>1, FS_Bijection
<1>6. Cardinality(A \cup D) = Cardinality(A) + Cardinality(D)
  <2> HIDE DEF A, D
  <2>1. Cardinality(A) \in Nat /\ Cardinality(D) \in Nat
    BY <1>3, <1>5, FS_CardinalityType
  <2>2. Cardinality(A \cup D) = Cardinality(A) + Cardinality(D) - Cardinality(A \cap D)
    BY <1>3, <1>5, FS_Union
  <2>3. Cardinality(A \cap D) = 0
    BY <1>2, FS_EmptySet
  <2>4. QED
    BY <2>1, <2>2, <2>3
<1>7. QED
  BY <1>2, <1>5, <1>6 DEF Count

\* What two sequences take and give back adds up.
LEMMA BalanceConcat ==
  ASSUME NEW a \in Seq(Steps), NEW b \in Seq(Steps), NEW l
  PROVE  /\ Balance(a \o b, l) = Balance(a, l) + Balance(b, l)
         /\ Balance(a, l) \in Int /\ Balance(b, l) \in Int
<1>1. \A s : Count(a \o b, s) = Count(a, s) + Count(b, s)
  BY CountConcat
<1>2. \A s : Count(a, s) \in Nat /\ Count(b, s) \in Nat
  BY CountType
<1>3. QED
  BY <1>1, <1>2 DEF Balance

-----------------------------------------------------------------------------
(* Paths of one step, of two paths, and what is left of one. *)

\* Down, Up, Sleep and calls are different steps, also by their verbs.
LEMMA Verbs ==
  /\ \A l, m : Down(l) # Up(m) /\ Down(l) # Sleep /\ Up(l) # Sleep
  /\ \A l, m : (Down(l) = Down(m) => l = m) /\ (Up(l) = Up(m) => l = m)
  /\ \A s \in Calls : s # Sleep /\ s[1] \notin {"down", "up", "sleep"}
                      /\ \A l : s # Down(l) /\ s # Up(l)
BY DEF Down, Up, Sleep, Calls, Call, NodeFns, ProcFns, KernelFns

\* The empty sequence changes nothing.
LEMMA LeadsNowhere ==
  ASSUME NEW H \in SUBSET Locks
  PROVE  Leads(<<>>, H, H)
<1> DEFINE g == [i \in 0..0 |-> H]
<1>1. <<>> \in Seq(Steps) /\ Len(<<>>) = 0
  BY EmptySeq
<1>2. g \in [0..Len(<<>>) -> SUBSET Locks] /\ g[0] = H /\ g[Len(<<>>)] = H
  BY <1>1
<1>3. \A i \in 1..Len(<<>>) : Moves(<<>>[i], g[i - 1], g[i])
  BY <1>1
<1>4. \A l \in Locks : Balance(<<>>, l) = 0
  BY CountEmpty DEF Balance
<1>5. \A l \in Locks : Has(H, l) - Has(H, l) = 0
  BY DEF Has
<1>6. QED
  <2> HIDE DEF g
  <2> QED BY <1>1, <1>2, <1>3, <1>4, <1>5 DEF Leads

\* A move is a path of one step.
LEMMA LeadsOne ==
  ASSUME NEW s \in Steps, NEW H \in SUBSET Locks, NEW K \in SUBSET Locks, Moves(s, H, K)
  PROVE  Leads(<<s>>, H, K)
<1> DEFINE g == [i \in 0..1 |-> IF i = 0 THEN H ELSE K]
<1>1. <<s>> \in Seq(Steps) /\ Len(<<s>>) = 1 /\ <<s>>[1] = s
  OBVIOUS
<1>2. g \in [0..Len(<<s>>) -> SUBSET Locks] /\ g[0] = H /\ g[Len(<<s>>)] = K
  BY <1>1
<1>3. \A i \in 1..Len(<<s>>) : Moves(<<s>>[i], g[i - 1], g[i])
  BY <1>1, <1>2
<1>4. ASSUME NEW l \in Locks
      PROVE  Balance(<<s>>, l) = Has(H, l) - Has(K, l)
  <2>1. Balance(<<s>>, l) = (IF s = Up(l) THEN 1 ELSE 0) - (IF s = Down(l) THEN 1 ELSE 0)
    BY CountOne DEF Balance
  <2>2. CASE \E m \in Locks : s = Down(m) /\ Below(H, Rank(m)) /\ K = H \cup {m}
    <3>1. PICK m \in Locks : s = Down(m) /\ Below(H, Rank(m)) /\ K = H \cup {m}
      BY <2>2
    <3>2. m \notin H
      BY <3>1, RankRange DEF Below
    <3>3. QED
      BY <2>1, <3>1, <3>2, Verbs DEF Has
  <2>3. CASE \E m \in Locks : s = Up(m) /\ m \in H /\ K = H \ {m}
    BY <2>1, <2>3, Verbs DEF Has
  <2>4. CASE s = Sleep /\ H = {} /\ K = {}
    BY <2>1, <2>4, Verbs DEF Has
  <2>5. CASE s \in Calls /\ K = H
    BY <2>1, <2>5, Verbs DEF Has
  <2>6. QED
    BY <2>2, <2>3, <2>4, <2>5 DEF Moves
<1>5. QED
  <2> HIDE DEF g
  <2> QED BY <1>1, <1>2, <1>3, <1>4 DEF Leads

\* Two paths, where the second begins with what the first leads to.
LEMMA LeadsOn ==
  ASSUME NEW a, NEW b, NEW H, NEW J, NEW K, Leads(a, H, J), Leads(b, J, K)
  PROVE  Leads(a \o b, H, K)
<1> DEFINE n == Len(a)
           m == Len(b)
<1>1. a \in Seq(Steps) /\ b \in Seq(Steps) /\ n \in Nat /\ m \in Nat
  BY LenProperties DEF Leads
<1>2. /\ a \o b \in Seq(Steps) /\ Len(a \o b) = n + m
      /\ \A i \in 1..(n + m) : (a \o b)[i] = IF i <= n THEN a[i] ELSE b[i - n]
  BY <1>1, ConcatProperties
<1>3. PICK g \in [0..n -> SUBSET Locks] :
          g[0] = H /\ g[n] = J /\ \A i \in 1..n : Moves(a[i], g[i - 1], g[i])
  BY DEF Leads
<1>4. PICK h \in [0..m -> SUBSET Locks] :
          h[0] = J /\ h[m] = K /\ \A i \in 1..m : Moves(b[i], h[i - 1], h[i])
  BY DEF Leads
<1> DEFINE f == [i \in 0..(n + m) |-> IF i <= n THEN g[i] ELSE h[i - n]]
<1>5. f \in [0..Len(a \o b) -> SUBSET Locks]
  BY <1>1, <1>2, <1>3, <1>4
<1>6. f[0] = H /\ f[Len(a \o b)] = K
  <2>1. f[0] = g[0]
    BY <1>1
  <2>2. CASE m = 0
    <3>1. f[n + m] = g[n] /\ h[m] = h[0]
      BY <1>1, <2>2
    <3>2. QED
      BY <1>2, <1>3, <1>4, <2>1, <3>1
  <2>3. CASE m # 0
    <3>1. f[n + m] = h[m]
      BY <1>1, <2>3
    <3>2. QED
      BY <1>2, <1>3, <1>4, <2>1, <3>1
  <2>4. QED
    BY <2>2, <2>3
<1>7. ASSUME NEW i \in 1..Len(a \o b)
      PROVE  Moves((a \o b)[i], f[i - 1], f[i])
  <2>1. CASE i <= n
    <3>1. i \in 1..n /\ f[i] = g[i] /\ f[i - 1] = g[i - 1] /\ (a \o b)[i] = a[i]
      BY <1>1, <1>2, <2>1
    <3>2. QED
      BY <1>3, <3>1
  <2>2. CASE ~(i <= n)
    <3>1. i - n \in 1..m /\ f[i] = h[i - n] /\ (a \o b)[i] = b[i - n]
      BY <1>1, <1>2, <2>2
    <3>2. f[i - 1] = h[(i - n) - 1]
      <4>1. CASE i - 1 = n
        <5>1. f[i - 1] = g[n] /\ (i - n) - 1 = 0
          BY <1>1, <1>2, <4>1
        <5>2. QED
          BY <1>3, <1>4, <5>1
      <4>2. CASE i - 1 # n
        BY <1>1, <1>2, <2>2, <4>2
      <4>3. QED
        BY <4>1, <4>2
    <3>3. QED
      BY <1>4, <3>1, <3>2
  <2>3. QED
    BY <2>1, <2>2
<1>8. ASSUME NEW l \in Locks
      PROVE  Balance(a \o b, l) = Has(H, l) - Has(K, l)
  <2>1. Balance(a, l) = Has(H, l) - Has(J, l) /\ Balance(b, l) = Has(J, l) - Has(K, l)
    BY DEF Leads
  <2>2. Has(H, l) \in Int /\ Has(J, l) \in Int /\ Has(K, l) \in Int
    BY DEF Has
  <2>3. QED
    BY <1>1, <2>1, <2>2, BalanceConcat
<1>9. QED
  <2> HIDE DEF f
  <2> QED BY <1>2, <1>5, <1>6, <1>7, <1>8 DEF Leads

\* The first step of a path, and the path that is left.
LEMMA LeadsTail ==
  ASSUME NEW t, NEW H, NEW K, Leads(t, H, K), t # <<>>
  PROVE  \E J \in SUBSET Locks : /\ Moves(Head(t), H, J)
                                 /\ Leads(Tail(t), J, K)
<1>1. /\ t \in Seq(Steps) /\ Len(t) \in Nat \ {0} /\ Head(t) \in Steps /\ Tail(t) \in Seq(Steps)
      /\ Len(Tail(t)) = Len(t) - 1
      /\ \A i \in 1..Len(Tail(t)) : Tail(t)[i] = t[i + 1]
      /\ Head(t) = t[1]
  BY HeadTailProperties, EmptySeq DEF Leads
<1>2. PICK g \in [0..Len(t) -> SUBSET Locks] :
          g[0] = H /\ g[Len(t)] = K /\ \A i \in 1..Len(t) : Moves(t[i], g[i - 1], g[i])
  BY DEF Leads
<1>3. g[1] \in SUBSET Locks /\ Moves(Head(t), H, g[1]) /\ H \in SUBSET Locks
  <2>1. 1 \in 1..Len(t) /\ 1 \in 0..Len(t) /\ 1 - 1 = 0
    BY <1>1
  <2>2. QED
    BY <1>1, <1>2, <2>1 DEF Leads
<1> DEFINE h == [i \in 0..Len(Tail(t)) |-> g[i + 1]]
<1>4. h \in [0..Len(Tail(t)) -> SUBSET Locks] /\ h[0] = g[1] /\ h[Len(Tail(t))] = K
  BY <1>1, <1>2
<1>5. ASSUME NEW i \in 1..Len(Tail(t))
      PROVE  Moves(Tail(t)[i], h[i - 1], h[i])
  <2>1. i + 1 \in 1..Len(t) /\ Tail(t)[i] = t[i + 1] /\ h[i] = g[i + 1] /\ h[i - 1] = g[(i + 1) - 1]
    BY <1>1
  <2>2. QED
    BY <1>2, <2>1
<1>6. Leads(<<Head(t)>>, H, g[1])
  BY <1>1, <1>3, LeadsOne
<1>7. t = <<Head(t)>> \o Tail(t)
  <2>1. <<Head(t)>> \in Seq(Steps) /\ Len(<<Head(t)>>) = 1 /\ <<Head(t)>>[1] = Head(t)
    BY <1>1
  <2>2. /\ <<Head(t)>> \o Tail(t) \in Seq(Steps)
        /\ Len(<<Head(t)>> \o Tail(t)) = Len(t)
        /\ \A i \in 1..Len(t) : (<<Head(t)>> \o Tail(t))[i] =
              IF i <= 1 THEN Head(t) ELSE Tail(t)[i - 1]
    BY <1>1, <2>1, ConcatProperties
  <2>3. \A i \in 1..Len(t) : (<<Head(t)>> \o Tail(t))[i] = t[i]
    BY <1>1, <2>2
  <2>4. QED
    BY <1>1, <2>2, <2>3, SeqEqual
<1>8. ASSUME NEW l \in Locks
      PROVE  Balance(Tail(t), l) = Has(g[1], l) - Has(K, l)
  <2>1. Balance(<<Head(t)>>, l) = Has(H, l) - Has(g[1], l) /\ Balance(t, l) = Has(H, l) - Has(K, l)
    BY <1>6 DEF Leads
  <2>2. Has(H, l) \in Int /\ Has(g[1], l) \in Int /\ Has(K, l) \in Int
    BY DEF Has
  <2>3. /\ Balance(t, l) = Balance(<<Head(t)>>, l) + Balance(Tail(t), l)
        /\ Balance(Tail(t), l) \in Int
    <3>1. <<Head(t)>> \in Seq(Steps)
      BY <1>1
    <3>2. Balance(<<Head(t)>> \o Tail(t), l) = Balance(<<Head(t)>>, l) + Balance(Tail(t), l)
          /\ Balance(Tail(t), l) \in Int
      BY <1>1, <3>1, BalanceConcat
    <3>3. QED
      BY <1>7, <3>2
  <2>4. QED
    BY <2>1, <2>2, <2>3
<1>9. Leads(Tail(t), g[1], K)
  <2> HIDE DEF h
  <2> QED BY <1>1, <1>3, <1>4, <1>5, <1>8 DEF Leads
<1>10. QED
  BY <1>3, <1>9

-----------------------------------------------------------------------------
(* Balanced sequences: what functions do. *)

\* A process that holds semaphores outside layer d only can run t, and holds the same
\* afterwards.
Fine(t, d) == /\ t \in Seq(Steps)
              /\ \A H \in SUBSET Locks : Below(H, d) => Leads(t, H, H)

\* So do all the alternatives of B.
Good(B, d) == \A t \in B : Fine(t, d)

\* The layers of the semaphores.
LEMMA Layers ==
  /\ disk0_sem \in Locks /\ Rank(disk0_sem) = 5
  /\ io_sem \in Locks /\ Rank(io_sem) = 4
  /\ \A n \in Nodes : sin_sem(n) \in Locks /\ Rank(sin_sem(n)) = 3
  /\ fs_sem \in Locks /\ Rank(fs_sem) = 2
  /\ vdev_list_sem \in Locks /\ Rank(vdev_list_sem) = 1
  /\ bootfs_sem \in Locks /\ Rank(bootfs_sem) = 1
  /\ \A p \in Proc : mm_sem(p) \in Locks /\ Rank(mm_sem(p)) = 1
  /\ \A p \in Proc : files_sem(p) \in Locks /\ Rank(files_sem(p)) = 1
<1> USE DEF Locks, Rank
<1>1. /\ disk0_sem \in Locks /\ Rank(disk0_sem) = 5
      /\ io_sem \in Locks /\ Rank(io_sem) = 4
      /\ fs_sem \in Locks /\ Rank(fs_sem) = 2
  BY DEF disk0_sem, io_sem, fs_sem
<1>2. /\ vdev_list_sem \in Locks /\ Rank(vdev_list_sem) = 1
      /\ bootfs_sem \in Locks /\ Rank(bootfs_sem) = 1
  BY DEF vdev_list_sem, bootfs_sem
<1>3. \A n \in Nodes : sin_sem(n) \in Locks /\ Rank(sin_sem(n)) = 3
  BY DEF sin_sem
<1>4. \A p \in Proc : mm_sem(p) \in Locks /\ Rank(mm_sem(p)) = 1
  BY DEF mm_sem
<1>5. \A p \in Proc : files_sem(p) \in Locks /\ Rank(files_sem(p)) = 1
  BY DEF files_sem
<1>6. QED
  BY <1>1, <1>2, <1>3, <1>4, <1>5

\* Nothing to do is fine.
LEMMA FineNothing == \A d : Fine(<<>>, d)
BY LeadsNowhere, EmptySeq DEF Fine

\* One call, if it takes nothing further out than d.
LEMMA FineCall ==
  ASSUME NEW s \in Calls, NEW d \in 1..Depth(s)
  PROVE  Fine(<<s>>, d)
<1>1. s \in Steps /\ <<s>> \in Seq(Steps) /\ Depth(s) \in 1..5
  BY DEF Steps, Depth
<1>2. ASSUME NEW H \in SUBSET Locks, Below(H, d)
      PROVE  Leads(<<s>>, H, H)
  <2>1. Below(H, Depth(s))
    BY <1>1, <1>2, RankRange DEF Below
  <2>2. QED
    BY <1>1, <2>1, LeadsOne DEF Moves
<1>3. QED
  BY <1>1, <1>2 DEF Fine

\* A process goes to sleep only if it holds nothing.
LEMMA FineSleep == Fine(<<Sleep>>, 1)
<1>1. Sleep \in Steps /\ <<Sleep>> \in Seq(Steps)
  BY DEF Steps
<1>2. ASSUME NEW H \in SUBSET Locks, Below(H, 1)
      PROVE  Leads(<<Sleep>>, H, H)
  <2>1. H = {}
    BY <1>2, RankRange DEF Below
  <2>2. QED
    BY <1>1, <2>1, LeadsOne DEF Moves
<1>3. QED
  BY <1>1, <1>2 DEF Fine

\* One sequence after another.
LEMMA FineOn ==
  ASSUME NEW a, NEW b, NEW d, Fine(a, d), Fine(b, d)
  PROVE  Fine(a \o b, d)
BY LeadsOn, ConcatProperties DEF Fine

\* Two calls.
LEMMA FineTwo ==
  ASSUME NEW r, NEW s, NEW d, Fine(<<r>>, d), Fine(<<s>>, d)
  PROVE  Fine(<<r, s>>, d)
<1> DEFINE S == {r, s}
<1>1. /\ <<r, s>> \in Seq(S) /\ <<r>> \in Seq(S) /\ <<s>> \in Seq(S)
      /\ Len(<<r, s>>) = 2 /\ Len(<<r>>) = 1 /\ Len(<<s>>) = 1
      /\ <<r, s>>[1] = r /\ <<r, s>>[2] = s /\ <<r>>[1] = r /\ <<s>>[1] = s
  OBVIOUS
<1>2. <<r>> \o <<s>> = <<r, s>>
  <2> HIDE DEF S
  <2>1. /\ <<r>> \o <<s>> \in Seq(S) /\ Len(<<r>> \o <<s>>) = 2
        /\ \A i \in 1..2 : (<<r>> \o <<s>>)[i] = IF i <= 1 THEN <<r>>[i] ELSE <<s>>[i - 1]
    BY <1>1, ConcatProperties
  <2>2. \A i \in 1..2 : i = 1 \/ i = 2
    OBVIOUS
  <2>3. \A i \in 1..2 : (<<r>> \o <<s>>)[i] = <<r, s>>[i]
    BY <1>1, <2>1, <2>2
  <2>4. QED
    BY <1>1, <2>1, <2>3, SeqEqual
<1>3. QED
  BY <1>2, FineOn

\* Three calls.
LEMMA FineThree ==
  ASSUME NEW r, NEW s, NEW u, NEW d, Fine(<<r>>, d), Fine(<<s>>, d), Fine(<<u>>, d)
  PROVE  Fine(<<r, s, u>>, d)
<1>1. <<r, s, u>> = <<r, s>> \o <<u>>
  OBVIOUS
<1>2. QED
  BY <1>1, FineTwo, FineOn

\* A call that may be skipped.
LEMMA GoodMaybe ==
  ASSUME NEW s, NEW d, Fine(<<s>>, d)
  PROVE  Good(Maybe(s), d)
BY FineNothing DEF Good, Maybe

\* More alternatives.
LEMMA GoodUnion ==
  ASSUME NEW A, NEW B, NEW d, Good(A, d), Good(B, d)
  PROVE  Good(A \cup B, d)
BY DEF Good

\* The only alternative is to do nothing.
LEMMA GoodNothing == \A d : Good({<<>>}, d)
BY FineNothing DEF Good

\* Alternatives after a common beginning.
LEMMA GoodAfter ==
  ASSUME NEW a, NEW B, NEW d, Fine(a, d), Good(B, d)
  PROVE  Good({a \o b : b \in B}, d)
<1>1. ASSUME NEW b \in B
      PROVE  Fine(a \o b, d)
  <2>1. Fine(b, d)
    BY DEF Good
  <2>2. QED
    BY <2>1, FineOn
<1>2. QED
  BY <1>1 DEF Good

\* Any of A, then any of B.
Joined(A, B) == {a \o b : a \in A, b \in B}

\* Alternatives after alternatives.
LEMMA GoodOn ==
  ASSUME NEW A, NEW B, NEW d, Good(A, d), Good(B, d)
  PROVE  Good(Joined(A, B), d)
<1>1. SUFFICES ASSUME NEW t \in Joined(A, B)
               PROVE  Fine(t, d)
  BY DEF Good
<1>2. PICK a \in A, b \in B : t = a \o b
  BY DEF Joined
<1>3. Fine(a, d) /\ Fine(b, d)
  BY DEF Good
<1>4. QED
  BY <1>2, <1>3, FineOn

\* A section: what runs in it takes only semaphores of inner layers.
LEMMA GoodUnder ==
  ASSUME NEW l \in Locks, NEW d \in 1..Rank(l), NEW B, Good(B, Rank(l) + 1)
  PROVE  Good(Under(l, B), d)
<1>1. Down(l) \in Steps /\ Up(l) \in Steps
  BY DEF Steps
<1>2. ASSUME NEW b \in B
      PROVE  Fine(<<Down(l)>> \o b \o <<Up(l)>>, d)
  <2>1. b \in Seq(Steps) /\ Fine(b, Rank(l) + 1)
    BY DEF Good, Fine
  <2>2. <<Down(l)>> \o b \o <<Up(l)>> \in Seq(Steps)
    BY <1>1, <2>1
  <2>3. ASSUME NEW H \in SUBSET Locks, Below(H, d)
        PROVE  Leads(<<Down(l)>> \o b \o <<Up(l)>>, H, H)
    <3> DEFINE J == H \cup {l}
    <3>1. Below(H, Rank(l)) /\ Below(J, Rank(l) + 1) /\ l \notin H
      BY <2>3, RankRange DEF Below
    <3>2. Leads(<<Down(l)>>, H, J)
      <4>1. Moves(Down(l), H, J)
        BY <3>1 DEF Moves
      <4>2. QED
        BY <1>1, <4>1, LeadsOne
    <3>3. Leads(b, J, J)
      BY <2>1, <3>1 DEF Fine
    <3>4. Leads(<<Up(l)>>, J, H)
      <4>1. Moves(Up(l), J, H)
        BY <3>1 DEF Moves
      <4>2. QED
        BY <1>1, <4>1, LeadsOne
    <3>5. Leads(<<Down(l)>> \o b, H, J)
      BY <3>2, <3>3, LeadsOn
    <3>6. QED
      BY <3>4, <3>5, LeadsOn
  <2>4. QED
    BY <2>2, <2>3 DEF Fine
<1>3. QED
  BY <1>2 DEF Good, Under

\* The calls, by the layers that may be held around them.
FineTo(s, e) == \A d \in 1..e : Fine(<<s>>, d)

\* Each call is fine in every layer down to its own.
LEMMA FineCalls ==
  /\ FineTo(Run("disk0_io"), 5)
  /\ FineTo(Run("sfs_rwblock"), 4)
  /\ \A f \in {"sfs_io", "sfs_truncfile", "sfs_fsync"}, n \in Nodes : FineTo(Call(f, n), 3)
  /\ \A f \in {"sfs_load_inode", "sfs_sync", "sfs_namefile", "vfs_getcwd"} : FineTo(Run(f), 2)
  /\ \A f \in NodeFns, n \in Nodes : FineTo(Call(f, n), 2)
  /\ \A f \in KernelFns : Fine(<<Run(f)>>, 1)
  /\ \A f \in ProcFns, p \in Proc : Fine(<<Call(f, p)>>, 1)
<1> USE DEF Run, Call, Depth
<1>1. ASSUME NEW f \in KernelFns
      PROVE  FineTo(Run(f), Depth(<<f, "kernel">>))
  BY FineCall DEF Calls, FineTo
<1>2. ASSUME NEW f \in NodeFns, NEW n \in Nodes
      PROVE  FineTo(Call(f, n), Depth(<<f, n>>))
  BY FineCall DEF Calls, FineTo
<1>3. ASSUME NEW f \in ProcFns, NEW p \in Proc
      PROVE  Fine(<<Call(f, p)>>, 1)
  BY FineCall DEF Calls
<1>4. /\ FineTo(Run("disk0_io"), 5)
      /\ FineTo(Run("sfs_rwblock"), 4)
      /\ \A f \in {"sfs_load_inode", "sfs_sync", "sfs_namefile", "vfs_getcwd"} : FineTo(Run(f), 2)
  BY <1>1 DEF KernelFns
<1>5. /\ \A f \in {"sfs_io", "sfs_truncfile", "sfs_fsync"}, n \in Nodes : FineTo(Call(f, n), 3)
      /\ \A f \in NodeFns, n \in Nodes : FineTo(Call(f, n), 2)
  <2>1. ASSUME NEW f \in {"sfs_io", "sfs_truncfile", "sfs_fsync"}, NEW n \in Nodes
        PROVE  FineTo(Call(f, n), 3)
    <3>1. f \in NodeFns /\ Depth(<<f, n>>) = 3
      BY DEF NodeFns
    <3>2. QED
      BY <1>2, <3>1
  <2>2. ASSUME NEW f \in NodeFns, NEW n \in Nodes
        PROVE  FineTo(Call(f, n), 2)
    <3>1. Depth(<<f, n>>) \in {2, 3}
      BY DEF NodeFns
    <3>2. FineTo(Call(f, n), Depth(<<f, n>>))
      BY <1>2
    <3>3. QED
      BY <3>1, <3>2 DEF FineTo
  <2>3. QED
    BY <2>1, <2>2
<1>6. \A f \in KernelFns : Fine(<<Run(f)>>, 1)
  <2>1. \A f \in KernelFns : Depth(<<f, "kernel">>) \in 1..5
    OBVIOUS
  <2>2. QED
    BY <1>1, <2>1 DEF FineTo
<1>7. QED
  BY <1>3, <1>4, <1>5, <1>6

\* The same, call by call.
LEMMA InodeCalls ==
  ASSUME NEW n \in Nodes
  PROVE  /\ Fine(<<Call("sfs_truncfile", n)>>, 3) /\ Fine(<<Call("sfs_fsync", n)>>, 3)
         /\ \A f \in NodeFns : Fine(<<Call(f, n)>>, 2) /\ Fine(<<Call(f, n)>>, 1)
<1>1. FineTo(Call("sfs_truncfile", n), 3) /\ FineTo(Call("sfs_fsync", n), 3)
  BY FineCalls
<1>2. \A f \in NodeFns : FineTo(Call(f, n), 2)
  BY FineCalls
<1>3. QED
  BY <1>1, <1>2 DEF FineTo

\* And of the functions without an inode.
LEMMA KernelCalls ==
  /\ Fine(<<Run("disk0_io")>>, 5)
  /\ Fine(<<Run("sfs_rwblock")>>, 4) /\ Fine(<<Run("sfs_rwblock")>>, 3)
  /\ Fine(<<Run("sfs_rwblock")>>, 2)
  /\ \A f \in {"sfs_load_inode", "sfs_sync", "sfs_namefile", "vfs_getcwd"} : Fine(<<Run(f)>>, 2)
  /\ \A f \in KernelFns : Fine(<<Run(f)>>, 1)
  /\ \A f \in ProcFns, p \in Proc : Fine(<<Call(f, p)>>, 1)
BY FineCalls DEF FineTo

-----------------------------------------------------------------------------
(* The functions, from the disk up. *)

\* disk0_io takes disk0_sem.
LEMMA GoodDisk == Good(disk0_io, 5)
BY GoodUnder, GoodNothing, GoodUnion, Layers DEF disk0_io

\* sfs_rwblock takes io_sem, and disk0_sem in it.
LEMMA GoodBlock == Good(sfs_rwblock, 4)
<1> DEFINE B == {<<Run("disk0_io")>>, <<Run("disk0_io"), Run("disk0_io")>>}
<1>1. Good(B, 5)
  BY KernelCalls, InodeCalls, FineTwo DEF Good, NodeFns
<1>2. QED
  <2> HIDE DEF B
  <2>1. Good(Under(io_sem, B), 4)
    BY <1>1, GoodUnder, Layers
  <2>2. QED
    BY <2>1 DEF sfs_rwblock, B

\* The functions that work under an inode's semaphore.
LEMMA GoodInode ==
  ASSUME NEW n \in Nodes
  PROVE  Good(sfs_io(n), 3) /\ Good(sfs_truncfile(n), 3) /\ Good(sfs_fsync(n), 3)
<1> DEFINE some == Maybe(Run("sfs_rwblock"))
           two == {<<Run("sfs_rwblock"), Run("sfs_rwblock")>>}
<1>1. Good(some, 4) /\ Good(two, 4) /\ Good({<<>>}, 3)
  BY KernelCalls, InodeCalls, FineTwo, GoodMaybe, GoodNothing DEF Good, NodeFns
<1>2. QED
  <2> HIDE DEF some, two
  <2>1. Good(some \cup two, 4)
    BY <1>1, GoodUnion
  <2>2. Good(Under(sin_sem(n), some), 3) /\ Good(Under(sin_sem(n), some \cup two), 3)
    BY <1>1, <2>1, GoodUnder, Layers
  <2>3. Good(Under(sin_sem(n), some) \cup {<<>>}, 3)
    BY <1>1, <2>2, GoodUnion
  <2>4. QED
    BY <2>2, <2>3 DEF sfs_io, sfs_truncfile, sfs_fsync, some, two

\* The functions that work under the file system's semaphore.
LEMMA GoodSfs ==
  /\ Good(sfs_load_inode, 2)
  /\ \A n \in Nodes : Good(sfs_reclaim(n), 2) /\ Good(sfs_lookup_once(n), 2)
  /\ Good(sfs_sync, 2)
<1>1. Good(sfs_load_inode, 2)
  <2>1. Good(Maybe(Run("sfs_rwblock")), 3)
    BY KernelCalls, InodeCalls, GoodMaybe DEF NodeFns
  <2>2. QED
    BY <2>1, GoodUnder, Layers DEF sfs_load_inode
<1>2. ASSUME NEW n \in Nodes
      PROVE  Good(sfs_reclaim(n), 2)
  <2> DEFINE B == Joined(Maybe(Call("sfs_truncfile", n)), Maybe(Call("sfs_fsync", n)))
  <2>1. Good(Maybe(Call("sfs_truncfile", n)), 3) /\ Good(Maybe(Call("sfs_fsync", n)), 3)
    BY InodeCalls, GoodMaybe DEF NodeFns
  <2>2. Good(B, 3)
    BY <2>1, GoodOn
  <2> HIDE DEF B
  <2>3. Good({<<>>} \cup B, 3)
    BY <2>2, GoodNothing, GoodUnion
  <2>4. Good(Under(fs_sem, {<<>>} \cup B), 2)
    BY <2>3, GoodUnder, Layers
  <2>5. QED
    BY <2>4 DEF sfs_reclaim, B, Joined
<1>3. ASSUME NEW n \in Nodes
      PROVE  Good(sfs_lookup_once(n), 2)
  <2>1. Fine(<<Call("sfs_io", n)>>, 2) /\ Good(Maybe(Run("sfs_load_inode")), 2)
    BY KernelCalls, InodeCalls, GoodMaybe DEF NodeFns
  <2>2. QED
    BY <2>1, GoodAfter DEF sfs_lookup_once
<1>4. Good(sfs_sync, 2)
  <2> DEFINE B == {<<Call("sfs_fsync", m), Call("sfs_fsync", n)>> : m, n \in Nodes}
             C == Under(fs_sem, {<<>>} \cup B)
             D == {<<>>, <<Run("sfs_rwblock"), Run("sfs_rwblock")>>}
  <2>1. Good(B, 3)
    <3>1. ASSUME NEW m \in Nodes, NEW n \in Nodes
          PROVE  Fine(<<Call("sfs_fsync", m), Call("sfs_fsync", n)>>, 3)
      BY InodeCalls, FineTwo
    <3>2. QED
      BY <3>1 DEF Good
  <2>2. Good(D, 2)
    BY KernelCalls, InodeCalls, FineTwo, FineNothing DEF Good, NodeFns
  <2>3. Good(C, 2)
    <3> HIDE DEF B
    <3>1. Good({<<>>} \cup B, 3)
      BY <2>1, GoodNothing, GoodUnion
    <3>2. QED
      BY <3>1, GoodUnder, Layers
  <2>4. sfs_sync = Joined(C, D)
    BY DEF sfs_sync, Joined
  <2>5. QED
    <3> HIDE DEF C, D
    <3>1. Good(Joined(C, D), 2)
      BY <2>2, <2>3, GoodOn
    <3>2. QED
      BY <2>4, <3>1
<1>5. QED
  BY <1>1, <1>2, <1>3, <1>4

-----------------------------------------------------------------------------
(* The VFS. *)

\* Dropping inodes and closing descriptors: fs_sem, and sin_sem in it.
LEMMA GoodDrop ==
  /\ \A d \in 1..2 : Good(DropDir, d) /\ Good(DropNode, d) /\ Good(CloseNode, d)
  /\ \A n \in Nodes : Good(vop_ref_dec(n), 2) /\ Good(vfs_close(n), 2) /\ Good(sfs_lookup(n), 2)
<1>1. Dirs \subseteq Nodes
  BY DEF Nodes
<1>2. \A d \in 1..2 : Good(DropDir, d) /\ Good(DropNode, d) /\ Good(CloseNode, d)
  <2>1. ASSUME NEW n \in Nodes, NEW d \in 1..2
        PROVE  Fine(<<Call("vop_ref_dec", n)>>, d) /\ Fine(<<Call("vfs_close", n)>>, d)
    <3>1. d = 1 \/ d = 2
      OBVIOUS
    <3>2. QED
      BY <3>1, InodeCalls DEF NodeFns
  <2>2. QED
    BY <1>1, <2>1 DEF Good, DropDir, DropNode, CloseNode
<1>3. ASSUME NEW n \in Nodes
      PROVE  Good(vop_ref_dec(n), 2) /\ Good(vfs_close(n), 2) /\ Good(sfs_lookup(n), 2)
  <2>1. /\ Fine(<<Call("sfs_fsync", n)>>, 2) /\ Fine(<<Call("vop_ref_dec", n)>>, 2)
        /\ Fine(<<Call("sfs_lookup_once", n)>>, 2) /\ Fine(<<Call("sfs_reclaim", n)>>, 2)
    BY KernelCalls, InodeCalls DEF NodeFns
  <2>2. QED
    BY <2>1, FineTwo, GoodMaybe DEF Good, vop_ref_dec, vfs_close, sfs_lookup, GoOn
<1>4. QED
  BY <1>2, <1>3

\* The climb from a directory to the root.
LEMMA GoodNamefile == Good(sfs_namefile, 2)
<1> DEFINE B == {<<Call("sfs_io", n)>> : n \in Dirs}
           C == {<<Call("sfs_io", n)>> \o GoOn(n) : n \in Dirs}
<1>1. ASSUME NEW n \in Dirs
      PROVE  /\ Fine(<<Call("sfs_io", n)>>, 2) /\ Fine(GoOn(n), 2)
             /\ Fine(<<Call("sfs_io", n)>> \o GoOn(n), 2)
  <2>1. /\ Fine(<<Call("sfs_io", n)>>, 2) /\ Fine(<<Call("sfs_lookup_once", n)>>, 2)
        /\ Fine(<<Call("vop_ref_dec", n)>>, 2)
    BY InodeCalls DEF NodeFns, Nodes
  <2>2. Fine(GoOn(n), 2)
    BY <2>1, FineTwo DEF GoOn
  <2>3. QED
    BY <2>1, <2>2, FineOn
<1>2. Good(B, 2) /\ Good(C, 2)
  BY <1>1 DEF Good
<1>3. Good(Climb, 2)
  <2>1. Climb = {<<>>} \cup B \cup C
    BY DEF Climb
  <2> HIDE DEF B, C
  <2>2. QED
    BY <1>2, <2>1, GoodNothing, GoodUnion
<1>4. ASSUME NEW t \in sfs_namefile
      PROVE  Fine(t, 2)
  <2>1. PICK m \in Dirs, c \in Climb, x \in DropDir : t = (GoOn(m) \o c) \o x
    BY DEF sfs_namefile
  <2>2. Fine(GoOn(m), 2) /\ Fine(c, 2) /\ Fine(x, 2)
    <3>1. Good(DropDir, 2)
      BY GoodDrop
    <3>2. QED
      BY <1>1, <1>3, <3>1 DEF Good
  <2>3. Fine(GoOn(m) \o c, 2)
    BY <2>2, FineOn
  <2>4. QED
    BY <2>1, <2>2, <2>3, FineOn
<1>5. QED
  BY <1>4 DEF Good

\* The functions of vfs*.c on devices, roots and working directories.
LEMMA GoodVfs ==
  /\ Good(vfs_get_root, 1) /\ Good(vfs_get_bootfs, 1) /\ Good(get_device, 1)
  /\ Good(vfs_lookup, 1) /\ Good(vfs_getcwd, 2) /\ Good(vfs_cleanup, 1)
  /\ \A p \in Proc : Good(vfs_set_curdir(p), 1)
<1>1. Good(vfs_get_root, 1) /\ Good(vfs_cleanup, 1)
  <2>1. Good(Maybe(Run("sfs_load_inode")), 2) /\ Good(Maybe(Run("sfs_sync")), 2)
    BY KernelCalls, InodeCalls, GoodMaybe DEF NodeFns
  <2>2. QED
    BY <2>1, GoodUnder, Layers DEF vfs_get_root, vfs_cleanup
<1>2. Good(vfs_get_bootfs, 1)
  BY GoodUnder, GoodNothing, GoodUnion, Layers DEF vfs_get_bootfs
<1>3. Good(get_device, 1)
  <2> DEFINE A == {<<>>, <<Run("vfs_get_root")>>, <<Run("vfs_get_bootfs")>>}
             B == {<<Run("sfs_load_inode")>> \o drop : drop \in DropDir}
  <2>1. Good(A, 1)
    BY KernelCalls, InodeCalls, FineNothing DEF Good, KernelFns, NodeFns
  <2>2. Good(B, 1)
    <3>1. Fine(<<Run("sfs_load_inode")>>, 1) /\ Good(DropDir, 1)
      BY KernelCalls, GoodDrop DEF KernelFns
    <3>2. QED
      BY <3>1, GoodAfter
  <2>3. QED
    <3> HIDE DEF A, B
    <3>1. Good(A \cup B, 1)
      BY <2>1, <2>2, GoodUnion
    <3>2. QED
      BY <3>1 DEF get_device, A, B
<1>4. Good(vfs_lookup, 1)
  <2>1. Fine(<<Run("get_device")>>, 1)
    BY KernelCalls, InodeCalls DEF KernelFns, NodeFns
  <2>2. ASSUME NEW n \in Dirs
        PROVE  Fine(<<Run("get_device"), Call("sfs_lookup", n), Call("vop_ref_dec", n)>>, 1)
    <3>1. Fine(<<Call("sfs_lookup", n)>>, 1) /\ Fine(<<Call("vop_ref_dec", n)>>, 1)
      BY KernelCalls, InodeCalls DEF Nodes, NodeFns
    <3>2. QED
      BY <2>1, <3>1, FineThree
  <2>3. QED
    BY <2>1, <2>2 DEF Good, vfs_lookup
<1>5. Good(vfs_getcwd, 2)
  <2>1. Fine(<<Run("sfs_namefile")>>, 2) /\ Good(DropDir, 2)
    BY KernelCalls, InodeCalls, GoodDrop DEF NodeFns
  <2>2. Good({<<Run("sfs_namefile")>> \o drop : drop \in DropDir}, 2)
    BY <2>1, GoodAfter
  <2>3. QED
    BY <2>2, GoodNothing, GoodUnion DEF vfs_getcwd
<1>6. ASSUME NEW p \in Proc
      PROVE  Good(vfs_set_curdir(p), 1)
  <2>1. Good({<<>>} \cup DropDir, 2)
    BY GoodDrop, GoodNothing, GoodUnion
  <2>2. QED
    BY <2>1, GoodUnder, Layers DEF vfs_set_curdir
<1>7. QED
  BY <1>1, <1>2, <1>3, <1>4, <1>5, <1>6

\* An open may truncate, and close again.
LEMMA GoodOpen == Good(vfs_open, 1)
<1> DEFINE undos == {<<>>} \cup CloseNode
           T == {<<Call("sfs_truncfile", n)>> \o undo : n \in Files, undo \in undos}
           tails == {<<>>} \cup DropNode \cup T
<1>1. Good(undos, 1)
  BY GoodDrop, GoodNothing, GoodUnion
<1>2. Good(T, 1)
  <2> HIDE DEF undos
  <2>1. \A n \in Files : Fine(<<Call("sfs_truncfile", n)>>, 1)
    BY KernelCalls, InodeCalls DEF Nodes, NodeFns
  <2>2. ASSUME NEW t \in T
        PROVE  Fine(t, 1)
    <3>1. PICK n \in Files, undo \in undos : t = <<Call("sfs_truncfile", n)>> \o undo
      BY DEF undos
    <3>2. Fine(undo, 1) /\ Fine(<<Call("sfs_truncfile", n)>>, 1)
      BY <1>1, <2>1 DEF Good
    <3>3. QED
      BY <3>1, <3>2, FineOn
  <2>3. QED
    BY <2>2 DEF Good
<1>3. Good(tails, 1)
  <2> HIDE DEF T
  <2>1. Good(DropNode, 1)
    BY GoodDrop
  <2> QED BY <1>2, <2>1, GoodNothing, GoodUnion
<1>4. vfs_open = {<<Run("vfs_lookup")>> \o s : s \in tails}
  BY DEF vfs_open
<1>5. Fine(<<Run("vfs_lookup")>>, 1)
  BY KernelCalls, InodeCalls DEF KernelFns, NodeFns
<1>6. QED
  <2> HIDE DEF tails
  <2> QED BY <1>3, <1>4, <1>5, GoodAfter

-----------------------------------------------------------------------------
(* The system calls, which begin with nothing held. *)

\* The parts they are made of.
LEMMA Parts ==
  ASSUME NEW p \in Proc
  PROVE  /\ Fine(Copy(p), 1)
         /\ \A f \in ProcFns : Fine(<<Call(f, p)>>, 1)
         /\ \A f \in NodeFns, n \in Nodes : Fine(<<Call(f, n)>>, 1)
         /\ \A f \in KernelFns : Fine(<<Run(f)>>, 1)
         /\ Good(DropDir, 1) /\ Good(DropNode, 1) /\ Good(CloseNode, 1) /\ Good({<<>>}, 1)
         /\ Good({<<>>, Copy(p)}, 1)
<1>1. \A f \in ProcFns : Fine(<<Call(f, p)>>, 1)
  BY KernelCalls
<1>2. Fine(Copy(p), 1)
  BY <1>1 DEF Copy, ProcFns
<1>3. Good({<<>>, Copy(p)}, 1)
  BY <1>2, FineNothing DEF Good
<1>4. \A f \in NodeFns, n \in Nodes : Fine(<<Call(f, n)>>, 1)
  BY InodeCalls
<1>5. QED
  BY <1>1, <1>2, <1>3, <1>4, KernelCalls, GoodDrop, GoodNothing

\* mm_sem, with what getcwd does in it.
LEMMA GoodMemory ==
  ASSUME NEW p \in Proc
  PROVE  Good(user_memory(p), 1) /\ Good(sysfile_getcwd(p), 1)
<1>1. Good({<<>>}, 2) /\ Good(Maybe(Run("vfs_getcwd")), 2)
  BY KernelCalls, GoodNothing, GoodMaybe
<1>2. QED
  BY <1>1, GoodUnder, Layers DEF user_memory, sysfile_getcwd

\* A reader of the keyboard sleeps, so it may have nothing.
LEMMA GoodStdin == Good(dev_stdin_read, 1)
BY FineNothing, FineSleep DEF Good, dev_stdin_read

\* Reads and writes copy to or from user memory outside of the transfer.
LEMMA GoodRead ==
  ASSUME NEW p \in Proc
  PROVE  Good(sysfile_read(p), 1) /\ Good(sysfile_write(p), 1)
<1>1. \A n \in Files : Fine(<<Call("sfs_io", n)>>, 1)
  BY Parts DEF NodeFns, Nodes
<1>2. Good(sysfile_read(p), 1)
  <2> DEFINE R == {<<Run("dev_stdin_read")>>} \cup {<<Call("sfs_io", n)>> : n \in Files}
  <2>1. Good(R, 1)
    BY <1>1, Parts DEF Good, KernelFns
  <2>2. sysfile_read(p) = Joined(R, {<<>>, Copy(p)})
    BY DEF sysfile_read, Joined
  <2>3. Good({<<>>, Copy(p)}, 1)
    BY Parts
  <2> HIDE DEF R
  <2>4. QED
    BY <2>1, <2>2, <2>3, GoodOn
<1>3. Good(sysfile_write(p), 1)
  <2>1. ASSUME NEW n \in Files
        PROVE  Fine(Copy(p) \o <<Call("sfs_io", n)>>, 1)
    BY <1>1, Parts, FineOn
  <2>2. QED
    BY <2>1, Parts DEF Good, sysfile_write
<1>4. QED
  BY <1>2, <1>3

\* The end of a process drops its directory and closes its files.
LEMMA GoodPutFiles == Good(put_files, 1)
<1> DEFINE C == CloseNode \cup {<<>>}
<1>1. Good(DropDir, 1) /\ Good(C, 1)
  BY GoodDrop, GoodNothing, GoodUnion
<1>2. put_files = Joined(DropDir, C)
  BY DEF put_files, Joined
<1>3. QED
  <2> HIDE DEF C
  <2> QED BY <1>1, <1>2, GoodOn

\* open, close, seek and fsync.
LEMMA GoodOpenClose ==
  ASSUME NEW p \in Proc
  PROVE  /\ Good(sysfile_open(p), 1) /\ Good(sysfile_close(p), 1) /\ Good(sysfile_seek(p), 1)
         /\ Good(sysfile_fsync(p), 1)
<1>1. Good(sysfile_open(p), 1)
  <2>1. Fine(Copy(p) \o <<Run("vfs_open")>>, 1)
    BY Parts, FineOn DEF KernelFns
  <2>2. QED
    BY <2>1, Parts DEF Good, sysfile_open
<1>2. Good(sysfile_close(p), 1)
  BY Parts, GoodUnion DEF sysfile_close
<1>3. Good(sysfile_seek(p), 1)
  <2>1. \A n \in Files : Fine(<<Call("sfs_truncfile", n)>>, 1)
    BY Parts DEF NodeFns, Nodes
  <2>2. QED
    BY <2>1, FineNothing DEF Good, sysfile_seek
<1>4. Good(sysfile_fsync(p), 1)
  BY Parts DEF NodeFns, Good, sysfile_fsync
<1>5. QED
  BY <1>1, <1>2, <1>3, <1>4

\* getdirentry and chdir.
LEMMA GoodDirectories ==
  ASSUME NEW p \in Proc
  PROVE  Good(sysfile_getdirentry(p), 1) /\ Good(sysfile_chdir(p), 1)
<1>1. Good(sysfile_getdirentry(p), 1)
  <2> DEFINE out == {<<>>, Copy(p)}
             T(n) == {(Copy(p) \o <<Call("sfs_io", n)>>) \o o : o \in out}
  <2>1. Fine(Copy(p), 1) /\ Good(out, 1)
    BY Parts
  <2>2. ASSUME NEW n \in Dirs
        PROVE  Good(T(n), 1)
    <3>1. Fine(<<Call("sfs_io", n)>>, 1)
      BY Parts DEF NodeFns, Nodes
    <3>2. Fine(Copy(p) \o <<Call("sfs_io", n)>>, 1)
      BY <2>1, <3>1, FineOn
    <3> HIDE DEF out
    <3>3. QED
      BY <2>1, <3>2, GoodAfter
  <2>3. ASSUME NEW t \in sysfile_getdirentry(p)
        PROVE  t = Copy(p) \/ \E n \in Dirs : t \in T(n)
    <3>1. CASE t = Copy(p)
      BY <3>1
    <3>2. CASE t # Copy(p)
      <4>1. \E n \in Dirs, o \in out : t = Copy(p) \o <<Call("sfs_io", n)>> \o o
        BY <3>2 DEF sysfile_getdirentry
      <4>2. QED
        BY <4>1
    <3>3. QED
      BY <3>1, <3>2
  <2> HIDE DEF T
  <2>4. QED
    BY <2>1, <2>2, <2>3 DEF Good
<1>2. Good(sysfile_chdir(p), 1)
  <2> DEFINE go == <<Run("vfs_lookup"), Call("vfs_set_curdir", p)>>
  <2>1. Fine(<<Run("vfs_lookup")>>, 1) /\ Fine(<<Call("vfs_set_curdir", p)>>, 1) /\ Fine(Copy(p), 1)
    BY Parts DEF KernelFns, ProcFns
  <2>2. Fine(Copy(p) \o <<Run("vfs_lookup")>>, 1) /\ Fine(Copy(p) \o go, 1)
    BY <2>1, FineTwo, FineOn
  <2>3. Good({(Copy(p) \o go) \o drop : drop \in DropNode}, 1)
    <3> HIDE DEF go
    <3>1. QED
      BY <2>2, Parts, GoodAfter
  <2>4. Good({Copy(p) \o <<Run("vfs_lookup")>>}, 1)
    BY <2>2 DEF Good
  <2>5. QED
    BY <2>3, <2>4, GoodUnion DEF sysfile_chdir
<1>3. QED
  BY <1>1, <1>2

\* do_execve, on each of its paths.
LEMMA GoodExec ==
  ASSUME NEW p \in Proc
  PROVE  Good(do_execve(p), 1)
<1> DEFINE C == CloseNode \cup {<<>>}
           L == {<<Run("put_files")>>}
                  \cup {<<Call("sfs_io", n), Call("sysfile_close", p)>> : n \in Files}
           T == {Copy(p) \o close \o <<Call("sysfile_open", p)>> \o load : close \in C, load \in L}
<1>1. Good(C, 1)
  BY Parts, GoodUnion
<1>2. Good(L, 1)
  <2>1. ASSUME NEW n \in Files
        PROVE  Fine(<<Call("sfs_io", n), Call("sysfile_close", p)>>, 1)
    BY Parts, FineTwo DEF NodeFns, ProcFns, Nodes
  <2>2. QED
    BY <2>1, Parts DEF Good, KernelFns
<1>3. ASSUME NEW t \in T
      PROVE  Fine(t, 1)
  <2> HIDE DEF C, L
  <2>1. PICK c \in C, l \in L : t = ((Copy(p) \o c) \o <<Call("sysfile_open", p)>>) \o l
    OBVIOUS
  <2>2. Fine(Copy(p), 1) /\ Fine(c, 1) /\ Fine(<<Call("sysfile_open", p)>>, 1) /\ Fine(l, 1)
    <3>1. Fine(<<Call("sysfile_open", p)>>, 1) /\ Fine(Copy(p), 1)
      BY KernelCalls DEF ProcFns, Copy
    <3>2. QED
      BY <1>1, <1>2, <3>1 DEF Good
  <2>3. Fine(Copy(p) \o c, 1)
    BY <2>2, FineOn
  <2>4. Fine((Copy(p) \o c) \o <<Call("sysfile_open", p)>>, 1)
    BY <2>2, <2>3, FineOn
  <2>5. QED
    BY <2>1, <2>2, <2>4, FineOn
<1>4. do_execve(p) = {Copy(p)} \cup T
  BY DEF do_execve
<1>5. QED
  <2> HIDE DEF T
  <2> QED BY <1>3, <1>4, Parts DEF Good

-----------------------------------------------------------------------------
(* All functions. *)

\* Whatever function a step calls, every way through it keeps the order and gives back
\* what it takes.
LEMMA BodyGood ==
  ASSUME NEW s \in Calls
  PROVE  Good(Body(s), Depth(s))
<1>1. CASE \E f \in NodeFns, n \in Nodes : s = Call(f, n)
  <2>1. PICK n \in Nodes : s[2] = n /\ s[1] \in NodeFns
    BY <1>1 DEF Call
  <2>2. CASE s[1] = "sfs_io"
    BY <2>1, <2>2, GoodInode DEF Body, Depth
  <2>3. CASE s[1] = "sfs_truncfile"
    BY <2>1, <2>3, GoodInode DEF Body, Depth
  <2>4. CASE s[1] = "sfs_fsync"
    BY <2>1, <2>4, GoodInode DEF Body, Depth
  <2>5. CASE s[1] = "sfs_lookup_once"
    BY <2>1, <2>5, GoodSfs DEF Body, Depth
  <2>6. CASE s[1] = "sfs_reclaim"
    BY <2>1, <2>6, GoodSfs DEF Body, Depth
  <2>7. CASE s[1] = "vop_ref_dec"
    BY <2>1, <2>7, GoodDrop DEF Body, Depth
  <2>8. CASE s[1] = "vfs_close"
    BY <2>1, <2>8, GoodDrop DEF Body, Depth
  <2>9. CASE s[1] = "sfs_lookup"
    BY <2>1, <2>9, GoodDrop DEF Body, Depth
  <2>10. QED
    BY <2>1, <2>2, <2>3, <2>4, <2>5, <2>6, <2>7, <2>8, <2>9 DEF NodeFns
<1>2. CASE \E f \in ProcFns, p \in Proc : s = Call(f, p)
  <2>1. PICK p \in Proc : s[2] = p /\ s[1] \in ProcFns
    BY <1>2 DEF Call
  <2>2. Depth(s) = 1
    BY <2>1 DEF Depth, ProcFns
  <2>3. CASE s[1] = "vfs_set_curdir"
    BY <2>1, <2>2, <2>3, GoodVfs DEF Body
  <2>4. CASE s[1] = "user_memory"
    BY <2>1, <2>2, <2>4, GoodMemory DEF Body
  <2>5. CASE s[1] = "sysfile_open"
    BY <2>1, <2>2, <2>5, GoodOpenClose DEF Body
  <2>6. CASE s[1] = "sysfile_close"
    BY <2>1, <2>2, <2>6, GoodOpenClose DEF Body
  <2>7. CASE s[1] = "sysfile_read"
    BY <2>1, <2>2, <2>7, GoodRead DEF Body
  <2>8. CASE s[1] = "sysfile_write"
    BY <2>1, <2>2, <2>8, GoodRead DEF Body
  <2>9. CASE s[1] = "sysfile_seek"
    BY <2>1, <2>2, <2>9, GoodOpenClose DEF Body
  <2>10. CASE s[1] = "sysfile_fsync"
    BY <2>1, <2>2, <2>10, GoodOpenClose DEF Body
  <2>11. CASE s[1] = "sysfile_getdirentry"
    BY <2>1, <2>2, <2>11, GoodDirectories DEF Body
  <2>12. CASE s[1] = "sysfile_chdir"
    BY <2>1, <2>2, <2>12, GoodDirectories DEF Body
  <2>13. CASE s[1] = "sysfile_getcwd"
    BY <2>1, <2>2, <2>13, GoodMemory DEF Body
  <2>14. CASE s[1] = "do_execve"
    BY <2>1, <2>2, <2>14, GoodExec DEF Body
  <2>15. QED
    BY <2>1, <2>3, <2>4, <2>5, <2>6, <2>7, <2>8, <2>9, <2>10, <2>11, <2>12, <2>13, <2>14
       DEF ProcFns
<1>3. CASE \E f \in KernelFns, x \in Proc \cup {"kernel"} : s = Call(f, x)
  <2>1. s[1] \in KernelFns
    BY <1>3 DEF Call
  <2>2. CASE s[1] = "disk0_io"
    BY <2>2, GoodDisk DEF Body, Depth
  <2>3. CASE s[1] = "sfs_rwblock"
    BY <2>3, GoodBlock DEF Body, Depth
  <2>4. CASE s[1] = "sfs_load_inode"
    BY <2>4, GoodSfs DEF Body, Depth
  <2>5. CASE s[1] = "sfs_sync"
    BY <2>5, GoodSfs DEF Body, Depth
  <2>6. CASE s[1] = "sfs_namefile"
    BY <2>6, GoodNamefile DEF Body, Depth
  <2>7. CASE s[1] = "vfs_get_root"
    BY <2>7, GoodVfs DEF Body, Depth
  <2>8. CASE s[1] = "vfs_get_bootfs"
    BY <2>8, GoodVfs DEF Body, Depth
  <2>9. CASE s[1] = "get_device"
    BY <2>9, GoodVfs DEF Body, Depth
  <2>10. CASE s[1] = "vfs_lookup"
    BY <2>10, GoodVfs DEF Body, Depth
  <2>11. CASE s[1] = "vfs_open"
    BY <2>11, GoodOpen DEF Body, Depth
  <2>12. CASE s[1] = "vfs_getcwd"
    BY <2>12, GoodVfs DEF Body, Depth
  <2>13. CASE s[1] = "vfs_cleanup"
    BY <2>13, GoodVfs DEF Body, Depth
  <2>14. CASE s[1] = "dev_stdin_read"
    BY <2>14, GoodStdin DEF Body, Depth
  <2>15. CASE s[1] = "put_files"
    BY <2>15, GoodPutFiles DEF Body, Depth
  <2>16. QED
    BY <2>1, <2>2, <2>3, <2>4, <2>5, <2>6, <2>7, <2>8, <2>9, <2>10, <2>11, <2>12, <2>13,
       <2>14, <2>15 DEF KernelFns
<1>4. QED
  BY <1>1, <1>2, <1>3 DEF Calls

-----------------------------------------------------------------------------
(* The inductive invariant. *)

\* The semaphores a process will give back before its call ends: those it holds, and the
\* one that it waits for.
Owed(t) == {l \in Locks : Balance(t, l) > 0}
Pledged(p) == Owed(todo[p])

\* What is left of a call keeps the order and gives back what the process has.
PathOK == \A p \in Proc : Leads(todo[p], Pledged(p), {})

\* The processor, the ready processes and the calls made.
VarsOK == /\ ready \in SUBSET Proc /\ running \in Proc
          /\ calls \in [Proc -> 0..MaxCalls]
          /\ DOMAIN todo = Proc

\* Nobody is twice in a queue, and a semaphore with a queue has no token.
SemOK == /\ value \in [Locks -> {0, 1}]
         /\ wait_queue \in [Locks -> Seq(Proc)]
         /\ \A l \in Locks :
               /\ \A k, m \in DOMAIN wait_queue[l] :
                     wait_queue[l][k] = wait_queue[l][m] => k = m
               /\ Waiters(l) # {} => value[l] = 0

\* A process waits for one semaphore, which it will hold in order once it has it.
WaitOK == \A l \in Locks : \A p \in Waiters(l) :
             /\ p \notin ready /\ l \in Pledged(p)
             /\ Below(Pledged(p) \ {l}, Rank(l))
             /\ \A m \in Locks : p \in Waiters(m) => m = l

\* The token is with the semaphore, or with one process.
TokenOK == \A l \in Locks :
              \/ value[l] = 1 /\ \A p \in Proc : ~Holds(p, l)
              \/ /\ value[l] = 0
                 /\ \E p \in Proc : Holds(p, l) /\ \A q \in Proc : Holds(q, l) => q = p

\* Whoever is off the processor waits for a semaphore, or sleeps without one.
OffOK == \A p \in Proc \ ready :
            (\E l \in Locks : Waits(p, l)) \/ (todo[p] # <<>> /\ Head(todo[p]) = Sleep)

\* All of it together.
IInv == PathOK /\ VarsOK /\ SemOK /\ WaitOK /\ TokenOK /\ OffOK

-----------------------------------------------------------------------------
(* The queues. *)

\* Who waits behind a queue that grew, and behind one that lost its head.
LEMMA Appended ==
  ASSUME NEW q \in Seq(Proc), NEW p \in Proc
  PROVE  /\ Append(q, p) \in Seq(Proc)
         /\ {Append(q, p)[k] : k \in 1..Len(Append(q, p))} = {q[k] : k \in 1..Len(q)} \cup {p}
         /\ (/\ \A k, m \in DOMAIN q : q[k] = q[m] => k = m
             /\ p \notin {q[k] : k \in 1..Len(q)})
            => \A k, m \in DOMAIN Append(q, p) : Append(q, p)[k] = Append(q, p)[m] => k = m
<1>1. Append(q, p) \in Seq(Proc) /\ Len(Append(q, p)) = Len(q) + 1 /\ Len(q) \in Nat
  OBVIOUS
<1>2. \A k \in 1..Len(q) : Append(q, p)[k] = q[k]
  OBVIOUS
<1>3. Append(q, p)[Len(q) + 1] = p
  OBVIOUS
<1>4. DOMAIN q = 1..Len(q) /\ DOMAIN Append(q, p) = 1..(Len(q) + 1)
  BY <1>1
<1>5. \A k \in 1..(Len(q) + 1) : k \in 1..Len(q) \/ k = Len(q) + 1
  BY <1>1
<1>6. QED
  BY <1>1, <1>2, <1>3, <1>4, <1>5

\* The queue that lost its head.
LEMMA Served ==
  ASSUME NEW q \in Seq(Proc), q # <<>>,
         \A k, m \in DOMAIN q : q[k] = q[m] => k = m
  PROVE  /\ Tail(q) \in Seq(Proc)
         /\ Head(q) \in {q[k] : k \in 1..Len(q)}
         /\ {Tail(q)[k] : k \in 1..Len(Tail(q))} = {q[k] : k \in 1..Len(q)} \ {Head(q)}
         /\ \A k, m \in DOMAIN Tail(q) : Tail(q)[k] = Tail(q)[m] => k = m
<1>1. Tail(q) \in Seq(Proc) /\ Len(Tail(q)) = Len(q) - 1 /\ Len(q) \in Nat \ {0}
  OBVIOUS
<1>2. \A k \in 1..(Len(q) - 1) : Tail(q)[k] = q[k + 1]
  OBVIOUS
<1>3. Head(q) = q[1]
  OBVIOUS
<1>4. DOMAIN q = 1..Len(q) /\ DOMAIN Tail(q) = 1..(Len(q) - 1)
  BY <1>1
<1>5. \A k \in 1..Len(q) : k = 1 \/ (k - 1 \in 1..(Len(q) - 1) /\ q[k] = Tail(q)[k - 1])
  BY <1>1, <1>2
<1>6. \A k \in 1..(Len(q) - 1) : k + 1 \in 1..Len(q) /\ k + 1 # 1 /\ 1 \in 1..Len(q)
  BY <1>1
<1>7. {Tail(q)[k] : k \in 1..Len(Tail(q))} = {q[k] : k \in 1..Len(q)} \ {Head(q)}
  <2>1. ASSUME NEW k \in 1..(Len(q) - 1)
        PROVE  Tail(q)[k] \in {q[m] : m \in 1..Len(q)} \ {Head(q)}
    BY <1>2, <1>3, <1>4, <1>6
  <2>2. ASSUME NEW k \in 1..Len(q), q[k] # Head(q)
        PROVE  q[k] \in {Tail(q)[m] : m \in 1..(Len(q) - 1)}
    BY <2>2, <1>3, <1>5
  <2>3. QED
    BY <1>1, <2>1, <2>2
<1>8. \A k, m \in DOMAIN Tail(q) : Tail(q)[k] = Tail(q)[m] => k = m
  <2>1. TAKE k, m \in DOMAIN Tail(q)
  <2>2. HAVE Tail(q)[k] = Tail(q)[m]
  <2>3. q[k + 1] = q[m + 1]
    BY <1>2, <1>4, <2>2
  <2>4. k + 1 = m + 1
    BY <1>4, <1>6, <2>3
  <2>5. QED
    BY <1>1, <1>4, <2>4
<1>9. QED
  BY <1>1, <1>3, <1>7, <1>8

\* down takes the token or joins the queue.
LEMMA DownEffect ==
  ASSUME SemOK, NEW i \in Proc, NEW x \in Locks, i \notin Waiters(x), down(i, x)
  PROVE  /\ SemOK'
         /\ \A y \in Locks : y # x => value'[y] = value[y] /\ Waiters(y)' = Waiters(y)
         /\ value'[x] = 0
         /\ \/ value[x] = 1 /\ Waiters(x)' = Waiters(x) /\ ready' = ready
            \/ value[x] = 0 /\ Waiters(x)' = Waiters(x) \cup {i} /\ ready' = ready \ {i}
<1>1. CASE value[x] > 0
  <2>1. value[x] = 1 /\ Waiters(x) = {}
    BY <1>1 DEF SemOK
  <2>2. value' = [value EXCEPT ![x] = 0] /\ wait_queue' = wait_queue /\ ready' = ready
    BY <1>1, <2>1 DEF down, SemOK
  <2>3. \A y \in Locks : Waiters(y)' = Waiters(y)
    BY <2>2 DEF Waiters
  <2>4. value' \in [Locks -> {0, 1}] /\ value'[x] = 0 /\ \A y \in Locks : y # x => value'[y] = value[y]
    BY <2>2 DEF SemOK
  <2>5. SemOK'
    BY <2>2, <2>3, <2>4 DEF SemOK
  <2>6. QED
    BY <2>1, <2>2, <2>3, <2>4, <2>5
<1>2. CASE ~(value[x] > 0)
  <2>1. value[x] = 0
    BY <1>2 DEF SemOK
  <2>2. /\ value' = value /\ ready' = ready \ {i}
        /\ wait_queue' = [wait_queue EXCEPT ![x] = Append(wait_queue[x], i)]
    BY <1>2 DEF down
  <2>3. /\ wait_queue'[x] = Append(wait_queue[x], i)
        /\ \A y \in Locks : y # x => wait_queue'[y] = wait_queue[y]
    BY <2>2 DEF SemOK
  <2>4. wait_queue[x] \in Seq(Proc)
    BY DEF SemOK
  <2>5. /\ wait_queue'[x] \in Seq(Proc) /\ Waiters(x)' = Waiters(x) \cup {i}
        /\ \A k, m \in DOMAIN wait_queue'[x] : wait_queue'[x][k] = wait_queue'[x][m] => k = m
    BY <2>3, <2>4, Appended DEF Waiters, SemOK
  <2>6. \A y \in Locks : y # x => Waiters(y)' = Waiters(y)
    BY <2>3 DEF Waiters
  <2>7. wait_queue' \in [Locks -> Seq(Proc)]
    BY <2>2, <2>3, <2>5 DEF SemOK
  <2>8. SemOK'
    BY <2>1, <2>2, <2>3, <2>5, <2>6, <2>7 DEF SemOK
  <2>9. QED
    BY <2>1, <2>2, <2>5, <2>6, <2>8
<1>3. QED
  BY <1>1, <1>2

\* up hands the token to a waiter, or leaves it when there is none.
LEMMA UpEffect ==
  ASSUME SemOK, NEW x \in Locks, value[x] = 0, up(x)
  PROVE  /\ SemOK'
         /\ \A y \in Locks : y # x => value'[y] = value[y] /\ Waiters(y)' = Waiters(y)
         /\ \/ Waiters(x) = {} /\ Waiters(x)' = {} /\ value'[x] = 1 /\ ready' = ready
            \/ \E h \in Waiters(x) : /\ Waiters(x)' = Waiters(x) \ {h}
                                     /\ value'[x] = 0 /\ ready' = ready \cup {h}
<1>1. CASE wait_queue[x] = <<>>
  <2>1. value' = [value EXCEPT ![x] = 1] /\ wait_queue' = wait_queue /\ ready' = ready
    BY <1>1 DEF up
  <2>2. Waiters(x) = {}
    BY <1>1 DEF Waiters
  <2>3. \A y \in Locks : Waiters(y)' = Waiters(y)
    BY <2>1 DEF Waiters
  <2>4. value' \in [Locks -> {0, 1}] /\ value'[x] = 1 /\ \A y \in Locks : y # x => value'[y] = value[y]
    BY <2>1 DEF SemOK
  <2>5. SemOK'
    BY <2>1, <2>2, <2>3, <2>4 DEF SemOK
  <2>6. QED
    BY <2>1, <2>2, <2>3, <2>4, <2>5
<1>2. CASE wait_queue[x] # <<>>
  <2>1. /\ value' = value /\ ready' = ready \cup {Head(wait_queue[x])}
        /\ wait_queue' = [wait_queue EXCEPT ![x] = Tail(wait_queue[x])]
    BY <1>2 DEF up
  <2>2. /\ wait_queue'[x] = Tail(wait_queue[x])
        /\ \A y \in Locks : y # x => wait_queue'[y] = wait_queue[y]
    BY <2>1 DEF SemOK
  <2>3. wait_queue[x] \in Seq(Proc)
    BY DEF SemOK
  <2>4. /\ wait_queue'[x] \in Seq(Proc) /\ Head(wait_queue[x]) \in Waiters(x)
        /\ Waiters(x)' = Waiters(x) \ {Head(wait_queue[x])}
        /\ \A k, m \in DOMAIN wait_queue'[x] : wait_queue'[x][k] = wait_queue'[x][m] => k = m
    <3>1. \A k, m \in DOMAIN wait_queue[x] : wait_queue[x][k] = wait_queue[x][m] => k = m
      BY DEF SemOK
    <3> DEFINE q == wait_queue[x]
    <3>2. /\ Tail(q) \in Seq(Proc)
          /\ Head(q) \in {q[k] : k \in 1..Len(q)}
          /\ {Tail(q)[k] : k \in 1..Len(Tail(q))} = {q[k] : k \in 1..Len(q)} \ {Head(q)}
          /\ \A k, m \in DOMAIN Tail(q) : Tail(q)[k] = Tail(q)[m] => k = m
      <4> HIDE DEF q
      <4> q \in Seq(Proc) /\ q # <<>> /\ \A k, m \in DOMAIN q : q[k] = q[m] => k = m
        BY <1>2, <2>3, <3>1 DEF q
      <4> QED BY Served
    <3>3. Waiters(x) = {q[k] : k \in 1..Len(q)}
      BY DEF Waiters
    <3>4. Waiters(x)' = {Tail(q)[k] : k \in 1..Len(Tail(q))}
      BY <2>2 DEF Waiters
    <3>5. QED
      BY <2>2, <3>2, <3>3, <3>4
  <2>5. \A y \in Locks : y # x => Waiters(y)' = Waiters(y)
    BY <2>2 DEF Waiters
  <2>6. wait_queue' \in [Locks -> Seq(Proc)]
    BY <2>1, <2>2, <2>4 DEF SemOK
  <2>7. SemOK'
    BY <2>1, <2>2, <2>4, <2>5, <2>6 DEF SemOK
  <2>8. QED
    BY <2>1, <2>4, <2>5, <2>7
<1>3. QED
  BY <1>1, <1>2

\* Whoever leaves the semaphores alone keeps what is known of them.
LEMMA SameSem ==
  ASSUME SemOK, UNCHANGED semVars
  PROVE  /\ SemOK'
         /\ \A x \in Locks : value'[x] = value[x] /\ Waiters(x)' = Waiters(x)
<1>1. value' = value /\ wait_queue' = wait_queue
  BY DEF semVars
<1>2. \A x : Waiters(x)' = Waiters(x)
  BY <1>1 DEF Waiters
<1>3. QED
  BY <1>1, <1>2 DEF SemOK

\* Only processes are in the queues.
LEMMA QueuedIsProc ==
  ASSUME SemOK, NEW x \in Locks
  PROVE  Waiters(x) \subseteq Proc
<1>1. wait_queue[x] \in Seq(Proc)
  BY DEF SemOK
<1>2. \A k \in 1..Len(wait_queue[x]) : wait_queue[x][k] \in Proc
  BY <1>1
<1>3. QED
  BY <1>2 DEF Waiters

-----------------------------------------------------------------------------
(* What is left of a path tells what its process has. *)

\* A path to nothing begins with what it owes, one token of each.
LEMMA PathTells ==
  ASSUME NEW t, NEW H, Leads(t, H, {})
  PROVE  /\ Owed(t) = H /\ H \in SUBSET Locks /\ t \in Seq(Steps)
         /\ \A l \in Locks : /\ Balance(t, l) > 0 <=> l \in H
                             /\ ~(Balance(t, l) > 1)
<1>1. H \in SUBSET Locks /\ t \in Seq(Steps)
  BY DEF Leads
<1>2. \A l \in Locks : Balance(t, l) = Has(H, l) - Has({}, l)
  BY DEF Leads
<1>3. \A l \in Locks : Balance(t, l) = IF l \in H THEN 1 ELSE 0
  BY <1>2 DEF Has
<1>4. QED
  BY <1>1, <1>3 DEF Owed

\* A process holds what it will give back, but for what it waits for.
LEMMA HoldsIs ==
  ASSUME PathOK, NEW p \in Proc, NEW l \in Locks
  PROVE  Holds(p, l) <=> l \in Pledged(p) /\ ~Waits(p, l)
<1>1. Leads(todo[p], Pledged(p), {})
  BY DEF PathOK
<1>2. Owes(p, l) = Balance(todo[p], l)
  BY DEF Owes, Balance, Count
<1>3. (Balance(todo[p], l) > 0 <=> l \in Pledged(p)) /\ ~(Balance(todo[p], l) > 1)
  BY <1>1, PathTells
<1>4. QED
  BY <1>2, <1>3 DEF Holds

\* The same one step later.
LEMMA HoldsNext ==
  ASSUME PathOK', NEW p \in Proc, NEW l \in Locks
  PROVE  Holds(p, l)' <=> l \in Pledged(p)' /\ ~Waits(p, l)'
<1>1. Leads(todo'[p], Pledged(p)', {})
  BY DEF PathOK
<1>2. Owes(p, l)' = Balance(todo'[p], l)
  BY DEF Owes, Balance, Count
<1>3. Pledged(p)' = Owed(todo'[p])
  BY DEF Pledged
<1>4. (Balance(todo'[p], l) > 0 <=> l \in Pledged(p)') /\ ~(Balance(todo'[p], l) > 1)
  BY <1>1, <1>3, PathTells
<1>5. Holds(p, l)' <=> Owes(p, l)' > (IF Waits(p, l)' THEN 1 ELSE 0)
  BY DEF Holds
<1>6. QED
  BY <1>2, <1>4, <1>5

\* A process that is ready waits for nothing.
LEMMA ReadyWaitsNot ==
  ASSUME WaitOK, NEW p \in ready, NEW l \in Locks
  PROVE  p \notin Waiters(l)
BY DEF WaitOK

\* The next step of a call, and the rest of it.
LEMMA NextMove ==
  ASSUME PathOK, NEW p \in Proc, todo[p] # <<>>
  PROVE  \E J \in SUBSET Locks : /\ Moves(Head(todo[p]), Pledged(p), J)
                                 /\ Leads(Tail(todo[p]), J, {})
BY LeadsTail DEF PathOK

\* Nothing is pledged between calls.
LEMMA IdlePledges ==
  ASSUME NEW p, todo[p] = <<>>
  PROVE  Pledged(p) = {}
<1>1. \A l \in Locks : Balance(<<>>, l) = 0
  BY CountEmpty DEF Balance
<1>2. QED
  BY <1>1 DEF Pledged, Owed

-----------------------------------------------------------------------------
(* The steps that leave the semaphores, and what each process has, as they are. *)

\* Everything about the semaphores is kept then, if no waiter is made ready.
LEMMA SamePledges ==
  ASSUME IInv, UNCHANGED semVars,
         \A q \in Proc : Leads(todo'[q], Pledged(q), {}),
         \A l \in Locks : \A q \in Waiters(l) : q \notin ready'
  PROVE  PathOK' /\ SemOK' /\ WaitOK' /\ TokenOK' /\ \A q \in Proc : Pledged(q)' = Pledged(q)
<1>1. PathOK /\ SemOK /\ WaitOK /\ TokenOK
  BY DEF IInv
<1>2. SemOK' /\ \A l \in Locks : value'[l] = value[l] /\ Waiters(l)' = Waiters(l)
  BY <1>1, SameSem
<1>3. ASSUME NEW q \in Proc
      PROVE  Pledged(q)' = Pledged(q)
  <2>1. Owed(todo'[q]) = Pledged(q)
    BY PathTells
  <2>2. QED
    BY <2>1 DEF Pledged
<1>4. PathOK'
  BY <1>3 DEF PathOK
<1>5. WaitOK'
  <2>1. SUFFICES ASSUME NEW l \in Locks, NEW q \in Waiters(l)'
                 PROVE  /\ q \notin ready' /\ l \in Pledged(q)'
                        /\ Below(Pledged(q)' \ {l}, Rank(l))
                        /\ \A m \in Locks : q \in Waiters(m)' => m = l
    BY DEF WaitOK
  <2>2. q \in Waiters(l) /\ q \in Proc
    BY <1>1, <1>2, QueuedIsProc
  <2>3. /\ l \in Pledged(q) /\ Below(Pledged(q) \ {l}, Rank(l))
        /\ \A m \in Locks : q \in Waiters(m) => m = l
    BY <1>1, <2>2 DEF WaitOK
  <2>4. QED
    BY <1>2, <1>3, <2>2, <2>3
<1>6. TokenOK'
  <2>1. \A q \in Proc, l \in Locks : Holds(q, l)' <=> Holds(q, l)
    <3>1. TAKE q \in Proc, l \in Locks
    <3>2. Holds(q, l) <=> l \in Pledged(q) /\ ~Waits(q, l)
      BY <1>1, HoldsIs
    <3>3. Holds(q, l)' <=> l \in Pledged(q)' /\ ~Waits(q, l)'
      BY <1>4, HoldsNext
    <3>4. Waits(q, l)' <=> Waits(q, l)
      BY <1>2 DEF Waits
    <3>5. QED
      BY <1>3, <3>2, <3>3, <3>4
  <2>2. QED
    BY <1>1, <1>2, <2>1 DEF TokenOK
<1>7. QED
  BY <1>2, <1>3, <1>4, <1>5, <1>6

\* Begin: a system call, made by a process that has nothing.
LEMMA BeginStep ==
  ASSUME IInv, NEW p \in Proc, Begin(p)
  PROVE  IInv' /\ \A q \in Proc : Pledged(q)' = Pledged(q)
<1>1. PathOK /\ VarsOK /\ SemOK /\ WaitOK /\ OffOK /\ p \in ready /\ running = p
  BY DEF IInv, Begin, Runs
<1>2. PICK f \in Entries : todo' = [todo EXCEPT ![p] = <<Call(f, p)>>]
  BY DEF Begin
<1>3. todo[p] = <<>> /\ Pledged(p) = {} /\ UNCHANGED <<semVars, ready, running>>
  BY IdlePledges DEF Begin
<1>4. Call(f, p) \in Calls
  BY <1>2, LockAssumption DEF AllEntries, Calls, ProcFns, KernelFns
<1>5. Leads(<<Call(f, p)>>, {}, {})
  <2>1. Call(f, p) \in Steps /\ Below({}, Depth(Call(f, p)))
    BY <1>4 DEF Steps, Below
  <2>2. QED
    BY <1>4, <2>1, LeadsOne DEF Moves
<1>6. \A q \in Proc : Leads(todo'[q], Pledged(q), {})
  <2>1. todo'[p] = <<Call(f, p)>> /\ \A q \in Proc : q # p => todo'[q] = todo[q]
    BY <1>1, <1>2 DEF VarsOK
  <2>2. QED
    BY <1>1, <1>3, <1>5, <2>1 DEF PathOK
<1>7. PathOK' /\ SemOK' /\ WaitOK' /\ TokenOK' /\ \A q \in Proc : Pledged(q)' = Pledged(q)
  <2>1. \A l \in Locks : \A q \in Waiters(l) : q \notin ready'
    BY <1>1, <1>3 DEF WaitOK
  <2>2. QED
    BY <1>3, <1>6, <2>1, SamePledges
<1>8. VarsOK'
  <2>1. calls' = [calls EXCEPT ![p] = @ + 1] /\ calls[p] < MaxCalls
    BY DEF Begin
  <2>2. calls' \in [Proc -> 0..MaxCalls]
    BY <1>1, <2>1, LockAssumption DEF VarsOK
  <2>3. QED
    BY <1>1, <1>2, <1>3, <2>2 DEF VarsOK
<1>9. OffOK'
  <2>1. SUFFICES ASSUME NEW q \in Proc \ ready'
                 PROVE  \/ \E l \in Locks : Waits(q, l)'
                        \/ todo'[q] # <<>> /\ Head(todo'[q]) = Sleep
    BY DEF OffOK
  <2>2. q \in Proc \ ready /\ q # p
    BY <1>1, <1>3
  <2>3. todo'[q] = todo[q]
    BY <1>1, <1>2, <2>2 DEF VarsOK
  <2>4. \A l \in Locks : Waits(q, l)' <=> Waits(q, l)
    BY <1>1, <1>3, SameSem DEF Waits
  <2>5. QED
    BY <1>1, <2>2, <2>3, <2>4 DEF OffOK
<1>10. QED
  BY <1>7, <1>8, <1>9 DEF IInv

\* Enter: a call is replaced by one way through the function.
LEMMA EnterStep ==
  ASSUME IInv, NEW p \in Proc, Enter(p)
  PROVE  IInv' /\ \A q \in Proc : Pledged(q)' = Pledged(q)
<1>1. PathOK /\ VarsOK /\ SemOK /\ WaitOK /\ OffOK /\ p \in ready /\ todo[p] # <<>>
  BY DEF IInv, Enter, Runs
<1>2. PICK b \in Body(Head(todo[p])) : todo' = [todo EXCEPT ![p] = b \o Tail(todo[p])]
  BY DEF Enter
<1>3. UNCHANGED <<semVars, ready, running, calls>>
  BY DEF Enter
<1>4. PICK J \in SUBSET Locks : Moves(Head(todo[p]), Pledged(p), J) /\ Leads(Tail(todo[p]), J, {})
  BY <1>1, NextMove
<1>5. /\ Head(todo[p]) \in Calls /\ J = Pledged(p)
      /\ Below(Pledged(p), Depth(Head(todo[p])))
  <2>1. Head(todo[p])[1] \notin {"down", "up", "sleep"}
    BY DEF Enter
  <2>2. \A l : Down(l)[1] = "down" /\ Up(l)[1] = "up" /\ Sleep[1] = "sleep"
    BY DEF Down, Up, Sleep
  <2>3. QED
    BY <1>4, <2>1, <2>2 DEF Moves
<1>6. Leads(b \o Tail(todo[p]), Pledged(p), {})
  <2>1. Fine(b, Depth(Head(todo[p])))
    BY <1>5, BodyGood DEF Good
  <2>2. Pledged(p) \in SUBSET Locks
    BY <1>4, <1>5
  <2>3. Leads(b, Pledged(p), Pledged(p))
    BY <1>5, <2>1, <2>2 DEF Fine
  <2>4. QED
    BY <1>4, <1>5, <2>3, LeadsOn
<1>7. todo'[p] = b \o Tail(todo[p]) /\ \A q \in Proc : q # p => todo'[q] = todo[q]
  BY <1>1, <1>2 DEF VarsOK
<1>8. PathOK' /\ SemOK' /\ WaitOK' /\ TokenOK' /\ \A q \in Proc : Pledged(q)' = Pledged(q)
  <2>1. \A q \in Proc : Leads(todo'[q], Pledged(q), {})
    BY <1>1, <1>6, <1>7 DEF PathOK
  <2>2. \A l \in Locks : \A q \in Waiters(l) : q \notin ready'
    BY <1>1, <1>3 DEF WaitOK
  <2>3. QED
    BY <1>3, <2>1, <2>2, SamePledges
<1>9. VarsOK'
  BY <1>1, <1>2, <1>3 DEF VarsOK
<1>10. OffOK'
  <2>1. SUFFICES ASSUME NEW q \in Proc \ ready'
                 PROVE  \/ \E l \in Locks : Waits(q, l)'
                        \/ todo'[q] # <<>> /\ Head(todo'[q]) = Sleep
    BY DEF OffOK
  <2>2. q \in Proc \ ready /\ q # p
    BY <1>1, <1>3
  <2>3. \A l \in Locks : Waits(q, l)' <=> Waits(q, l)
    BY <1>1, <1>3, SameSem DEF Waits
  <2>4. QED
    BY <1>1, <1>7, <2>2, <2>3 DEF OffOK
<1>11. QED
  BY <1>8, <1>9, <1>10 DEF IInv

\* FallAsleep: a process that has nothing.
LEMMA FallAsleepStep ==
  ASSUME IInv, NEW p \in Proc, FallAsleep(p)
  PROVE  IInv' /\ Pledged(p) = {} /\ \A q \in Proc : Pledged(q)' = Pledged(q)
<1>1. PathOK /\ VarsOK /\ SemOK /\ WaitOK /\ OffOK /\ p \in ready /\ todo[p] # <<>>
  BY DEF IInv, FallAsleep, AtStep, Runs
<1>2. UNCHANGED <<semVars, running, todo, calls>> /\ ready' = ready \ {p}
  BY DEF FallAsleep
<1>3. PICK J \in SUBSET Locks : Moves(Head(todo[p]), Pledged(p), J) /\ Leads(Tail(todo[p]), J, {})
  BY <1>1, NextMove
<1>4. Head(todo[p]) = Sleep /\ Pledged(p) = {}
  <2>1. Head(todo[p])[1] = "sleep"
    BY DEF FallAsleep, AtStep
  <2>2. \A l : Down(l)[1] = "down" /\ Up(l)[1] = "up"
    BY DEF Down, Up
  <2>3. \A s \in Calls : s[1] # "sleep"
    BY Verbs
  <2>4. QED
    BY <1>3, <2>1, <2>2, <2>3 DEF Moves
<1>5. PathOK' /\ SemOK' /\ WaitOK' /\ TokenOK' /\ \A q \in Proc : Pledged(q)' = Pledged(q)
  <2>1. \A q \in Proc : Leads(todo'[q], Pledged(q), {})
    BY <1>1, <1>2 DEF PathOK
  <2>2. \A l \in Locks : \A q \in Waiters(l) : q \notin ready'
    BY <1>1, <1>2 DEF WaitOK
  <2>3. QED
    BY <1>2, <2>1, <2>2, SamePledges
<1>6. VarsOK'
  BY <1>1, <1>2 DEF VarsOK
<1>7. OffOK'
  <2>1. SUFFICES ASSUME NEW q \in Proc \ ready'
                 PROVE  \/ \E l \in Locks : Waits(q, l)'
                        \/ todo'[q] # <<>> /\ Head(todo'[q]) = Sleep
    BY DEF OffOK
  <2>2. q = p \/ q \in Proc \ ready
    BY <1>2
  <2>3. \A l \in Locks : Waits(q, l)' <=> Waits(q, l)
    BY <1>1, <1>2, SameSem DEF Waits
  <2>4. QED
    BY <1>1, <1>2, <1>4, <2>2, <2>3 DEF OffOK
<1>8. QED
  BY <1>4, <1>5, <1>6, <1>7 DEF IInv

\* WakeUp: of such a process, which therefore waits for no semaphore.
LEMMA WakeUpStep ==
  ASSUME IInv, NEW p \in Proc, WakeUp(p)
  PROVE  IInv' /\ \A q \in Proc : Pledged(q)' = Pledged(q)
<1>1. PathOK /\ VarsOK /\ SemOK /\ WaitOK /\ OffOK /\ todo[p] # <<>>
  BY DEF IInv, WakeUp
<1>2. /\ UNCHANGED <<semVars, running, calls>> /\ ready' = ready \cup {p}
      /\ todo' = [todo EXCEPT ![p] = Tail(todo[p])] /\ Head(todo[p]) = Sleep
  BY DEF WakeUp, Done
<1>3. PICK J \in SUBSET Locks : Moves(Head(todo[p]), Pledged(p), J) /\ Leads(Tail(todo[p]), J, {})
  BY <1>1, NextMove
<1>4. Pledged(p) = {} /\ J = {}
  BY <1>2, <1>3, Verbs DEF Moves
<1>5. todo'[p] = Tail(todo[p]) /\ \A q \in Proc : q # p => todo'[q] = todo[q]
  BY <1>1, <1>2 DEF VarsOK
<1>6. PathOK' /\ SemOK' /\ WaitOK' /\ TokenOK' /\ \A q \in Proc : Pledged(q)' = Pledged(q)
  <2>1. \A q \in Proc : Leads(todo'[q], Pledged(q), {})
    BY <1>1, <1>3, <1>4, <1>5 DEF PathOK
  <2>2. \A l \in Locks : \A q \in Waiters(l) : q \notin ready'
    BY <1>1, <1>2, <1>4 DEF WaitOK
  <2>3. QED
    BY <1>2, <2>1, <2>2, SamePledges
<1>7. VarsOK'
  BY <1>1, <1>2 DEF VarsOK
<1>8. OffOK'
  <2>1. SUFFICES ASSUME NEW q \in Proc \ ready'
                 PROVE  \/ \E l \in Locks : Waits(q, l)'
                        \/ todo'[q] # <<>> /\ Head(todo'[q]) = Sleep
    BY DEF OffOK
  <2>2. q # p /\ q \in Proc \ ready
    BY <1>2
  <2>3. \A l \in Locks : Waits(q, l)' <=> Waits(q, l)
    BY <1>1, <1>2, SameSem DEF Waits
  <2>4. QED
    BY <1>1, <1>5, <2>2, <2>3 DEF OffOK
<1>9. QED
  BY <1>6, <1>7, <1>8 DEF IInv

\* GiveUp: only the processor changes hands.
LEMMA GiveUpStep ==
  ASSUME IInv, GiveUp
  PROVE  IInv' /\ \A q \in Proc : Pledged(q)' = Pledged(q)
<1>1. PathOK /\ VarsOK /\ SemOK /\ WaitOK /\ OffOK
  BY DEF IInv
<1>2. UNCHANGED <<semVars, ready, todo, calls>> /\ running' \in ready
  BY DEF GiveUp, Switch
<1>3. PathOK' /\ SemOK' /\ WaitOK' /\ TokenOK' /\ \A q \in Proc : Pledged(q)' = Pledged(q)
  <2>1. \A q \in Proc : Leads(todo'[q], Pledged(q), {})
    BY <1>1, <1>2 DEF PathOK
  <2>2. \A l \in Locks : \A q \in Waiters(l) : q \notin ready'
    BY <1>1, <1>2 DEF WaitOK
  <2>3. QED
    BY <1>2, <2>1, <2>2, SamePledges
<1>4. VarsOK'
  BY <1>1, <1>2 DEF VarsOK
<1>5. OffOK'
  BY <1>1, <1>2, SameSem DEF OffOK, Waits
<1>6. QED
  BY <1>3, <1>4, <1>5 DEF IInv

\* Lock: what the process has and the new semaphore keep the order.
LEMMA LockStep ==
  ASSUME IInv, NEW p \in Proc, Lock(p)
  PROVE  /\ IInv'
         /\ \E l \in Locks :
               /\ l \notin Pledged(p) /\ Pledged(p)' = Pledged(p) \cup {l}
               /\ \A q \in Proc \ {p} : Pledged(q)' = Pledged(q)
               /\ running = p /\ p \in ready /\ down(p, l)
               /\ \A m \in Locks : m # l => Waiters(m)' = Waiters(m)
               /\ value[l] = 1 => Waiters(l)' = Waiters(l) /\ ready' = ready
<1>1. PathOK /\ VarsOK /\ SemOK /\ WaitOK /\ TokenOK /\ OffOK
  BY DEF IInv
<1>2. /\ p \in ready /\ running = p /\ todo[p] # <<>> /\ UNCHANGED <<running, calls>>
      /\ todo' = [todo EXCEPT ![p] = Tail(todo[p])] /\ down(p, Head(todo[p])[2])
      /\ Head(todo[p])[1] = "down"
  BY DEF Lock, AtStep, Runs, Done
<1> DEFINE H == Pledged(p)
<1>3. PICK J \in SUBSET Locks : Moves(Head(todo[p]), H, J) /\ Leads(Tail(todo[p]), J, {})
  BY <1>1, <1>2, NextMove
<1>4. PICK l \in Locks : Head(todo[p]) = Down(l) /\ Below(H, Rank(l)) /\ J = H \cup {l}
  <2>1. \A l : Up(l)[1] = "up" /\ Sleep[1] = "sleep"
    BY DEF Up, Sleep
  <2>2. \A s \in Calls : s[1] # "down"
    BY Verbs
  <2>3. QED
    BY <1>2, <1>3, <2>1, <2>2 DEF Moves
<1>5. down(p, l) /\ l \notin H /\ H \in SUBSET Locks
  BY <1>2, <1>4, RankRange DEF Down, Below, Pledged, Owed
<1>6. \A m \in Locks : p \notin Waiters(m)
  BY <1>1, <1>2, ReadyWaitsNot
<1>7. /\ SemOK'
      /\ \A y \in Locks : y # l => value'[y] = value[y] /\ Waiters(y)' = Waiters(y)
      /\ value'[l] = 0
      /\ \/ value[l] = 1 /\ Waiters(l)' = Waiters(l) /\ ready' = ready
         \/ value[l] = 0 /\ Waiters(l)' = Waiters(l) \cup {p} /\ ready' = ready \ {p}
  BY <1>1, <1>5, <1>6, DownEffect
<1>8. todo'[p] = Tail(todo[p]) /\ \A q \in Proc : q # p => todo'[q] = todo[q]
  BY <1>1, <1>2 DEF VarsOK
<1>9. Pledged(p)' = H \cup {l} /\ \A q \in Proc : q # p => Pledged(q)' = Pledged(q)
  <2>1. Owed(todo'[p]) = H \cup {l}
    BY <1>3, <1>4, <1>8, PathTells
  <2>2. QED
    BY <1>8, <2>1 DEF Pledged
<1>10. PathOK'
  <2>1. ASSUME NEW q \in Proc
        PROVE  Leads(todo'[q], Pledged(q)', {})
    BY <1>1, <1>3, <1>4, <1>8, <1>9 DEF PathOK
  <2>2. QED
    BY <2>1 DEF PathOK
<1>11. VarsOK'
  BY <1>1, <1>2, <1>7 DEF VarsOK
<1>12. WaitOK'
  <2>1. SUFFICES ASSUME NEW m \in Locks, NEW q \in Waiters(m)'
                 PROVE  /\ q \notin ready' /\ m \in Pledged(q)'
                        /\ Below(Pledged(q)' \ {m}, Rank(m))
                        /\ \A y \in Locks : q \in Waiters(y)' => y = m
    BY DEF WaitOK
  <2>2. CASE q = p
    <3>1. m = l /\ value[l] = 0 /\ ready' = ready \ {p}
      BY <1>6, <1>7, <2>2
    <3>2. (H \cup {l}) \ {l} = H
      BY <1>5
    <3>3. QED
      BY <1>4, <1>6, <1>7, <1>9, <2>2, <3>1, <3>2
  <2>3. CASE q # p
    <3>1. q \in Waiters(m) /\ q \in Proc
      BY <1>1, <1>7, <2>3, QueuedIsProc
    <3>2. /\ q \notin ready /\ m \in Pledged(q) /\ Below(Pledged(q) \ {m}, Rank(m))
          /\ \A y \in Locks : q \in Waiters(y) => y = m
      BY <1>1, <3>1 DEF WaitOK
    <3>3. QED
      BY <1>7, <1>9, <2>3, <3>1, <3>2
  <2>4. QED
    BY <2>2, <2>3
<1>13. \A q \in Proc, m \in Locks :
         /\ q # p \/ m # l => (Holds(q, m)' <=> Holds(q, m))
         /\ ~Holds(p, l) /\ (Holds(p, l)' <=> value[l] = 1)
  <2>1. TAKE q \in Proc, m \in Locks
  <2>2. Holds(q, m) <=> m \in Pledged(q) /\ ~Waits(q, m)
    BY <1>1, HoldsIs
  <2>3. Holds(q, m)' <=> m \in Pledged(q)' /\ ~Waits(q, m)'
    BY <1>10, HoldsNext
  <2>4. q # p \/ m # l => (m \in Pledged(q)' <=> m \in Pledged(q))
    BY <1>9
  <2>5. q # p \/ m # l => (Waits(q, m)' <=> Waits(q, m))
    BY <1>7 DEF Waits
  <2>6. ~Holds(p, l)
    BY <1>1, <1>5, HoldsIs
  <2>7. Holds(p, l)' <=> ~Waits(p, l)'
    <3>1. l \in Pledged(p)'
      BY <1>9
    <3>2. QED
      BY <1>10, <3>1, HoldsNext
  <2>8. Waits(p, l)' <=> value[l] = 0
    BY <1>6, <1>7 DEF Waits
  <2>9. value[l] \in {0, 1}
    BY <1>1 DEF SemOK
  <2>10. QED
    BY <2>2, <2>3, <2>4, <2>5, <2>6, <2>7, <2>8, <2>9
<1>14. TokenOK'
  <2>1. SUFFICES ASSUME NEW m \in Locks
                 PROVE  \/ value'[m] = 1 /\ \A q \in Proc : ~Holds(q, m)'
                        \/ /\ value'[m] = 0
                           /\ \E q \in Proc : Holds(q, m)' /\ \A r \in Proc : Holds(r, m)' => r = q
    BY DEF TokenOK
  <2>2. CASE m # l
    BY <1>1, <1>7, <1>13, <2>2 DEF TokenOK
  <2>3. CASE m = l /\ value[l] = 1
    BY <1>1, <1>7, <1>13, <2>3 DEF TokenOK
  <2>4. CASE m = l /\ value[l] = 0
    BY <1>1, <1>7, <1>13, <2>4 DEF TokenOK
  <2>5. QED
    BY <1>7, <2>2, <2>3, <2>4
<1>15. OffOK'
  <2>1. SUFFICES ASSUME NEW q \in Proc \ ready'
                 PROVE  \/ \E m \in Locks : Waits(q, m)'
                        \/ todo'[q] # <<>> /\ Head(todo'[q]) = Sleep
    BY DEF OffOK
  <2>2. CASE q = p
    BY <1>2, <1>7, <2>2 DEF Waits
  <2>3. CASE q # p
    <3>1. q \in Proc \ ready /\ todo'[q] = todo[q]
      BY <1>7, <1>8, <2>3
    <3>2. \A m \in Locks : Waits(q, m) => Waits(q, m)'
      BY <1>7 DEF Waits
    <3>3. QED
      BY <1>1, <3>1, <3>2 DEF OffOK
  <2>4. QED
    BY <2>2, <2>3
<1>16. QED
  <2>1. \A m \in Locks : m # l => Waiters(m)' = Waiters(m)
    BY <1>7
  <2>2. value[l] = 1 => Waiters(l)' = Waiters(l) /\ ready' = ready
    BY <1>7
  <2>3. IInv'
    BY <1>7, <1>10, <1>11, <1>12, <1>14, <1>15 DEF IInv
  <2>4. QED
    BY <1>2, <1>5, <1>9, <2>1, <2>2, <2>3

\* Unlock: the token goes to the head of the queue, or stays with the semaphore.
LEMMA UnlockStep ==
  ASSUME IInv, NEW p \in Proc, Unlock(p)
  PROVE  /\ IInv'
         /\ running = p /\ ready \subseteq ready'
         /\ \A q \in Proc \ {p} : Pledged(q)' = Pledged(q)
         /\ \A m \in Locks : Waiters(m)' \subseteq Waiters(m)
<1>1. PathOK /\ VarsOK /\ SemOK /\ WaitOK /\ TokenOK /\ OffOK
  BY DEF IInv
<1>2. /\ p \in ready /\ running = p /\ todo[p] # <<>> /\ UNCHANGED <<running, calls>>
      /\ todo' = [todo EXCEPT ![p] = Tail(todo[p])] /\ up(Head(todo[p])[2])
      /\ Head(todo[p])[1] = "up"
  BY DEF Unlock, AtStep, Runs, Done
<1> DEFINE H == Pledged(p)
<1>3. PICK J \in SUBSET Locks : Moves(Head(todo[p]), H, J) /\ Leads(Tail(todo[p]), J, {})
  BY <1>1, <1>2, NextMove
<1>4. PICK l \in Locks : Head(todo[p]) = Up(l) /\ l \in H /\ J = H \ {l}
  <2>1. \A l : Down(l)[1] = "down" /\ Sleep[1] = "sleep"
    BY DEF Down, Sleep
  <2>2. \A s \in Calls : s[1] # "up"
    BY Verbs
  <2>3. QED
    BY <1>2, <1>3, <2>1, <2>2 DEF Moves
<1>5. up(l)
  BY <1>2, <1>4 DEF Up
<1>6. \A m \in Locks : p \notin Waiters(m)
  BY <1>1, <1>2, ReadyWaitsNot
<1>7. Holds(p, l) /\ value[l] = 0 /\ \A q \in Proc : Holds(q, l) => q = p
  <2>1. Holds(p, l)
    BY <1>1, <1>4, <1>6, HoldsIs DEF Waits
  <2>2. QED
    BY <1>1, <2>1 DEF TokenOK
<1>8. /\ SemOK'
      /\ \A y \in Locks : y # l => value'[y] = value[y] /\ Waiters(y)' = Waiters(y)
      /\ \/ Waiters(l) = {} /\ Waiters(l)' = {} /\ value'[l] = 1 /\ ready' = ready
         \/ \E h \in Waiters(l) : /\ Waiters(l)' = Waiters(l) \ {h}
                                  /\ value'[l] = 0 /\ ready' = ready \cup {h}
  BY <1>1, <1>5, <1>7, UpEffect
<1>9. todo'[p] = Tail(todo[p]) /\ \A q \in Proc : q # p => todo'[q] = todo[q]
  BY <1>1, <1>2 DEF VarsOK
<1>10. Pledged(p)' = H \ {l} /\ \A q \in Proc : q # p => Pledged(q)' = Pledged(q)
  <2>1. Owed(todo'[p]) = H \ {l}
    BY <1>3, <1>4, <1>9, PathTells
  <2>2. QED
    BY <1>9, <2>1 DEF Pledged
<1>11. PathOK'
  <2>1. ASSUME NEW q \in Proc
        PROVE  Leads(todo'[q], Pledged(q)', {})
    BY <1>1, <1>3, <1>4, <1>9, <1>10 DEF PathOK
  <2>2. QED
    BY <2>1 DEF PathOK
<1>12. \A m \in Locks : Waiters(m)' \subseteq Waiters(m)
  BY <1>8
<1>13. Waiters(l) \subseteq Proc
  BY <1>1, QueuedIsProc
<1>14. VarsOK'
  <2>1. ready' \subseteq Proc
    BY <1>1, <1>8, <1>13 DEF VarsOK
  <2>2. QED
    BY <1>1, <1>2, <2>1 DEF VarsOK
<1>15. WaitOK'
  <2>1. SUFFICES ASSUME NEW m \in Locks, NEW q \in Waiters(m)'
                 PROVE  /\ q \notin ready' /\ m \in Pledged(q)'
                        /\ Below(Pledged(q)' \ {m}, Rank(m))
                        /\ \A y \in Locks : q \in Waiters(y)' => y = m
    BY DEF WaitOK
  <2>2. q \in Waiters(m) /\ q \in Proc /\ q # p
    BY <1>1, <1>6, <1>12, QueuedIsProc
  <2>3. /\ q \notin ready /\ m \in Pledged(q) /\ Below(Pledged(q) \ {m}, Rank(m))
        /\ \A y \in Locks : q \in Waiters(y) => y = m
    BY <1>1, <2>2 DEF WaitOK
  <2>4. q \notin ready'
    <3>1. CASE ready' = ready
      BY <2>3, <3>1
    <3>2. ASSUME NEW h \in Waiters(l), Waiters(l)' = Waiters(l) \ {h}, ready' = ready \cup {h}
          PROVE  q \notin ready'
      <4>1. q # h
        <5>1. q = h => m = l
          BY <2>3, <3>2
        <5>2. QED
          BY <3>2, <5>1
      <4>2. QED
        BY <2>3, <3>2, <4>1
    <3>3. QED
      BY <1>8, <3>1, <3>2
  <2>5. QED
    BY <1>10, <1>12, <2>2, <2>3, <2>4
<1>16. \A q \in Proc, m \in Locks :
         /\ Holds(q, m) <=> m \in Pledged(q) /\ q \notin Waiters(m)
         /\ Holds(q, m)' <=> m \in Pledged(q)' /\ q \notin Waiters(m)'
  <2>1. TAKE q \in Proc, m \in Locks
  <2>2. Holds(q, m) <=> m \in Pledged(q) /\ ~Waits(q, m)
    BY <1>1, HoldsIs
  <2>3. Holds(q, m)' <=> m \in Pledged(q)' /\ ~Waits(q, m)'
    BY <1>11, HoldsNext
  <2>4. QED
    BY <2>2, <2>3 DEF Waits
<1>17. TokenOK'
  <2>1. SUFFICES ASSUME NEW m \in Locks
                 PROVE  \/ value'[m] = 1 /\ \A q \in Proc : ~Holds(q, m)'
                        \/ /\ value'[m] = 0
                           /\ \E q \in Proc : Holds(q, m)' /\ \A r \in Proc : Holds(r, m)' => r = q
    BY DEF TokenOK
  <2>2. CASE m # l
    <3>1. value'[m] = value[m] /\ Waiters(m)' = Waiters(m)
      BY <1>8, <2>2
    <3>2. \A q \in Proc : m \in Pledged(q)' <=> m \in Pledged(q)
      BY <1>10, <2>2
    <3>3. \A q \in Proc : Holds(q, m)' <=> Holds(q, m)
      BY <1>16, <3>1, <3>2
    <3>4. QED
      BY <1>1, <3>1, <3>3 DEF TokenOK
  <2>3. CASE m = l
    <3>1. ~Holds(p, l)'
      BY <1>10, <1>16
    <3>2. \A q \in Proc : q # p => (l \in Pledged(q)' <=> l \in Pledged(q)) /\ ~Holds(q, l)
      BY <1>7, <1>10
    <3>3. CASE Waiters(l) = {} /\ Waiters(l)' = {} /\ value'[l] = 1
      BY <1>16, <2>3, <3>1, <3>2, <3>3
    <3>4. ASSUME NEW h \in Waiters(l), Waiters(l)' = Waiters(l) \ {h}, value'[l] = 0
          PROVE  Holds(h, l)' /\ \A r \in Proc : Holds(r, l)' => r = h
      <4>1. h \in Proc /\ h # p /\ l \in Pledged(h)
        BY <1>1, <1>6, <1>13 DEF WaitOK
      <4>2. Holds(h, l)'
        BY <1>16, <3>2, <3>4, <4>1
      <4>3. ASSUME NEW r \in Proc, r # h
            PROVE  ~Holds(r, l)'
        BY <1>16, <3>1, <3>2, <3>4, <4>3
      <4>4. QED
        BY <4>2, <4>3
    <3>5. QED
      BY <1>8, <1>13, <2>3, <3>3, <3>4
  <2>4. QED
    BY <2>2, <2>3
<1>18. OffOK'
  <2>1. SUFFICES ASSUME NEW q \in Proc \ ready'
                 PROVE  \/ \E m \in Locks : Waits(q, m)'
                        \/ todo'[q] # <<>> /\ Head(todo'[q]) = Sleep
    BY DEF OffOK
  <2>2. q # p /\ q \in Proc \ ready /\ todo'[q] = todo[q]
    BY <1>2, <1>8, <1>9
  <2>3. \A m \in Locks : Waits(q, m) => Waits(q, m)'
    BY <1>8 DEF Waits
  <2>4. QED
    BY <1>1, <2>2, <2>3 DEF OffOK
<1>19. QED
  <2>1. ready \subseteq ready'
    BY <1>8
  <2>2. IInv'
    BY <1>8, <1>11, <1>14, <1>15, <1>17, <1>18 DEF IInv
  <2>3. QED
    BY <1>2, <1>10, <1>12, <2>1, <2>2

-----------------------------------------------------------------------------
(* The invariant, and what it says. *)

\* The invariant holds at the start,
LEMMA Start == Init => IInv
<1>1. SUFFICES ASSUME Init
               PROVE  IInv
  OBVIOUS
<1>2. /\ value = [l \in Locks |-> 1] /\ wait_queue = [l \in Locks |-> <<>>]
      /\ ready = Proc /\ running \in Proc /\ todo = [p \in Proc |-> <<>>]
      /\ calls = [p \in Proc |-> 0]
  <2>1. sem_init([l \in Locks |-> 1])
    BY <1>1 DEF Init
  <2>2. QED
    BY <1>1, <2>1 DEF Init, sem_init
<1>3. \A l \in Locks : Waiters(l) = {}
  BY <1>2 DEF Waiters
<1>4. \A p \in Proc : todo[p] = <<>> /\ Pledged(p) = {}
  BY <1>2, IdlePledges
<1>5. PathOK
  BY <1>4, LeadsNowhere DEF PathOK
<1>6. VarsOK
  BY <1>2, LockAssumption DEF VarsOK
<1>7. SemOK
  BY <1>2, <1>3 DEF SemOK
<1>8. WaitOK
  BY <1>3 DEF WaitOK
<1>9. TokenOK
  <2>1. \A p \in Proc, l \in Locks : ~Holds(p, l)
    BY <1>4, <1>5, HoldsIs
  <2>2. QED
    BY <1>2, <2>1 DEF TokenOK
<1>10. OffOK
  BY <1>2 DEF OffOK
<1>11. QED
  BY <1>5, <1>6, <1>7, <1>8, <1>9, <1>10 DEF IInv

\* through a step in which nothing changes,
LEMMA Stutter ==
  ASSUME IInv, UNCHANGED vars
  PROVE  IInv' /\ \A q \in Proc : Pledged(q)' = Pledged(q)
<1>1. PathOK /\ VarsOK /\ WaitOK /\ OffOK /\ SemOK
  BY DEF IInv
<1>2. UNCHANGED <<semVars, ready, running, todo, calls>>
  BY DEF vars, semVars
<1>3. PathOK' /\ SemOK' /\ WaitOK' /\ TokenOK' /\ \A q \in Proc : Pledged(q)' = Pledged(q)
  <2>1. \A q \in Proc : Leads(todo'[q], Pledged(q), {})
    BY <1>1, <1>2 DEF PathOK
  <2>2. \A l \in Locks : \A q \in Waiters(l) : q \notin ready'
    BY <1>1, <1>2 DEF WaitOK
  <2>3. QED
    BY <1>2, <2>1, <2>2, SamePledges
<1>4. VarsOK' /\ OffOK'
  BY <1>1, <1>2, SameSem DEF VarsOK, OffOK, Waits
<1>5. QED
  BY <1>3, <1>4 DEF IInv

\* and through every step.
LEMMA Kept == IInv /\ [Next]_vars => IInv'
<1>1. SUFFICES ASSUME IInv, [Next]_vars
               PROVE  IInv'
  OBVIOUS
<1>2. CASE UNCHANGED vars
  BY <1>1, <1>2, Stutter
<1>3. CASE GiveUp
  BY <1>1, <1>3, GiveUpStep
<1>4. ASSUME NEW p \in Proc, Step(p)
      PROVE  IInv'
  BY <1>1, <1>4, BeginStep, EnterStep, LockStep, UnlockStep, FallAsleepStep, WakeUpStep DEF Step
<1>5. QED
  BY <1>1, <1>2, <1>3, <1>4 DEF Next

\* In every run of any number of processes over any inodes, whether the kernel is preemptive
\* or not, what is left of each system call (the nested lock_sfs_fs, lock_sin, lock_sfs_io
\* and lock_disk0 sections with their error paths) keeps the order and gives back what the
\* process has taken; a token is with its semaphore or with one process; and whoever is off
\* the processor waits for one semaphore, inside of all it has, or sleeps with none.
THEOREM Invariance == Spec => []IInv
<1>1. QED
  BY Start, Kept, PTL DEF Spec

\* Each process goes down only on semaphores of inner layers: no way through any of the
\* functions of sysfile.c, vfs*.c and sfs_inode.c takes fs_sem under an inode's semaphore, or
\* an inode's under another's or under io_sem.
THEOREM OrderCorrect == Spec => []OrderKept
<1>1. IInv => OrderKept
  <2>1. SUFFICES ASSUME IInv, NEW p \in Proc, NEW l \in Locks,
                        Waits(p, l) \/ (todo[p] # <<>> /\ Head(todo[p]) = Down(l)),
                        NEW h \in Held(p)
                 PROVE  Rank(h) < Rank(l)
    BY DEF OrderKept
  <2>2. PathOK /\ WaitOK
    BY <2>1 DEF IInv
  <2>3. h \in Pledged(p) /\ ~Waits(p, h) /\ h \in Locks
    BY <2>2, HoldsIs DEF Held
  <2>4. CASE Waits(p, l)
    <3>1. Below(Pledged(p) \ {l}, Rank(l)) /\ h # l
      BY <2>2, <2>3, <2>4 DEF WaitOK, Waits
    <3>2. QED
      BY <2>3, <3>1 DEF Below
  <2>5. CASE todo[p] # <<>> /\ Head(todo[p]) = Down(l)
    <3>1. PICK J \in SUBSET Locks : Moves(Down(l), Pledged(p), J)
      BY <2>2, <2>5, NextMove
    <3>2. Below(Pledged(p), Rank(l))
      BY <3>1, Verbs DEF Moves
    <3>3. QED
      BY <2>3, <3>2 DEF Below
  <2>6. QED
    BY <2>1, <2>4, <2>5
<1>2. QED
  BY <1>1, Invariance, PTL

\* A non-empty set of numbers between 1 and 5 has a greatest element.
LEMMA Greatest ==
  ASSUME NEW R \in SUBSET (1..5), R # {}
  PROVE  \E m \in R : \A r \in R : r <= m
<1>1. CASE 5 \in R
  BY <1>1
<1>2. CASE 5 \notin R /\ 4 \in R
  BY <1>2
<1>3. CASE 5 \notin R /\ 4 \notin R /\ 3 \in R
  BY <1>3
<1>4. CASE 5 \notin R /\ 4 \notin R /\ 3 \notin R /\ 2 \in R
  BY <1>4
<1>5. CASE 5 \notin R /\ 4 \notin R /\ 3 \notin R /\ 2 \notin R
  <2>1. \A r \in R : r = 1
    BY <1>5
  <2>2. PICK r \in R : TRUE
    OBVIOUS
  <2>3. QED
    BY <2>1, <2>2
<1>6. QED
  BY <1>1, <1>2, <1>3, <1>4, <1>5

\* In a circle, take a semaphore of the innermost layer that is waited for: its
\* holder waits in an inner one still.  So the order of lock_sfs_fs, lock_sin, lock_sfs_io and
\* lock_disk0 that OrderKept states of each process by itself keeps any number of them
\* from blocking each other for ever.
THEOREM OrderExcludesCircles == OrderKept => NoCircularWait
<1>1. SUFFICES ASSUME OrderKept,
                      NEW S \in (SUBSET Proc) \ {{}},
                      \A p \in S : \E l \in Locks : Waits(p, l) /\ \E q \in S : Holds(q, l)
               PROVE  FALSE
  BY DEF NoCircularWait
<1> DEFINE Wanted == {l \in Locks : \E p, q \in S : Waits(p, l) /\ Holds(q, l)}
           Ranks == {Rank(l) : l \in Wanted}
<1>2. \A p \in S : p \in Proc
  BY <1>1
<1>3. \A p \in S : \E l \in Wanted : Waits(p, l)
  BY <1>1
<1>4. Ranks # {} /\ Ranks \in SUBSET (1..5)
  BY <1>1, <1>3, RankRange
<1>5. PICK m \in Ranks : \A r \in Ranks : r <= m
  <2>1. HIDE DEF Ranks
  <2>2. QED
    BY <1>4, Greatest
<1>6. PICK l0 \in Wanted : m = Rank(l0)
  BY <1>5
<1>7. PICK q \in S : Holds(q, l0)
  BY <1>6
<1>8. PICK l1 \in Wanted : Waits(q, l1)
  BY <1>3
<1>9. l0 \in Held(q)
  BY <1>7 DEF Held
<1>10. Rank(l0) < Rank(l1)
  <2>1. q \in Proc /\ l1 \in Locks
    BY <1>2
  <2>2. \A h \in Held(q) : Rank(h) < Rank(l1)
    BY <1>1, <1>8, <2>1, Zenon DEF OrderKept
  <2>3. QED
    BY <1>9, <2>2
<1>11. Rank(l1) <= Rank(l0)
  BY <1>5, <1>6
<1>12. Rank(l0) \in 1..5 /\ Rank(l1) \in 1..5
  BY RankRange
<1>13. QED
  BY <1>10, <1>11, <1>12

\* Types, and that nobody waits for two semaphores.
THEOREM TypeCorrect == Spec => []TypeOK
<1>1. IInv => TypeOK
  <2>1. SUFFICES ASSUME IInv
                 PROVE  TypeOK
    OBVIOUS
  <2>2. VarsOK /\ SemOK /\ WaitOK
    BY <2>1 DEF IInv
  <2>3. \A l \in Locks : Waiters(l) \subseteq Proc \ ready
    BY <2>2, QueuedIsProc DEF WaitOK
  <2>4. ASSUME NEW p \in Proc
        PROVE  Cardinality({l \in Locks : Waits(p, l)}) <= 1
    <3> DEFINE W == {l \in Locks : Waits(p, l)}
    <3>1. CASE W = {}
      BY <3>1, FS_EmptySet
    <3>2. CASE W # {}
      <4>1. PICK l \in W : TRUE
        BY <3>2
      <4>2. \A m \in W : m = l
        BY <2>2, <4>1 DEF WaitOK, Waits
      <4>3. W = {l}
        BY <4>1, <4>2
      <4>4. QED
        BY <4>3, FS_Singleton
    <3>3. QED
      BY <3>1, <3>2
  <2>5. QED
    BY <2>2, <2>3, <2>4 DEF TypeOK, VarsOK, SemOK
<1>2. QED
  BY <1>1, Invariance, PTL

\* What every path through every call takes (lock_sin and unlock_sin and the others, with
\* the error paths of sfs_load_inode and sfs_reclaim) it gives back exactly once, also when
\* __up hands the token to a waiter.
THEOREM TokensCorrect == Spec => []TokensAccounted
<1>1. IInv => TokensAccounted
  <2>1. SUFFICES ASSUME IInv, NEW l \in Locks
                 PROVE  value[l] + Cardinality({p \in Proc : Holds(p, l)}) = 1
    BY DEF TokensAccounted
  <2> DEFINE W == {p \in Proc : Holds(p, l)}
  <2>2. \/ value[l] = 1 /\ \A p \in Proc : ~Holds(p, l)
        \/ /\ value[l] = 0
           /\ \E p \in Proc : Holds(p, l) /\ \A q \in Proc : Holds(q, l) => q = p
    BY <2>1 DEF IInv, TokenOK
  <2>3. CASE value[l] = 1 /\ \A p \in Proc : ~Holds(p, l)
    <3>1. W = {}
      BY <2>3
    <3>2. Cardinality(W) = 0
      BY <3>1, FS_EmptySet
    <3>3. QED
      BY <2>3, <3>2
  <2>4. ASSUME value[l] = 0, NEW p \in Proc, Holds(p, l), \A q \in Proc : Holds(q, l) => q = p
        PROVE  value[l] + Cardinality(W) = 1
    <3>1. W = {p}
      BY <2>4
    <3>2. Cardinality(W) = 1
      <4> HIDE DEF W
      <4> QED BY <3>1, FS_Singleton
    <3>3. QED
      BY <2>4, <3>2
  <2>5. QED
    BY <2>2, <2>3, <2>4
<1>2. QED
  BY <1>1, Invariance, PTL

\* So no number of processes ever wait for each other in a circle for the semaphores of the
\* file systems.
THEOREM NeverCircular == Spec => []NoCircularWait
BY OrderCorrect, OrderExcludesCircles, PTL

-----------------------------------------------------------------------------
(* A kernel that switches only where a process sleeps. *)

\* Only the process that has the processor has semaphores, and not once it is off.
CalmInv == /\ \A l \in Locks : Waiters(l) = {}
           /\ \A p \in Proc : Pledged(p) # {} => p = running /\ p \in ready

\* Without preemption that is kept.
LEMMA CalmKept ==
  ASSUME ~Preemptive, IInv, CalmInv, [Next]_vars
  PROVE  CalmInv'
<1>1. PathOK /\ VarsOK /\ SemOK /\ WaitOK /\ TokenOK
  BY DEF IInv
<1>2. ASSUME UNCHANGED semVars, \A q \in Proc : Pledged(q)' = Pledged(q),
             \A p \in Proc : Pledged(p) # {} => p = running' /\ p \in ready'
      PROVE  CalmInv'
  <2>1. \A l \in Locks : Waiters(l)' = Waiters(l)
    BY <1>1, <1>2, SameSem
  <2>2. QED
    BY <1>2, <2>1 DEF CalmInv
<1>3. CASE UNCHANGED vars
  <2>1. UNCHANGED semVars /\ UNCHANGED <<ready, running>>
    BY <1>3 DEF vars, semVars
  <2>2. \A q \in Proc : Pledged(q)' = Pledged(q)
    BY <1>3, Stutter
  <2>3. QED
    BY <1>2, <2>1, <2>2 DEF CalmInv
<1>4. CASE GiveUp
  <2>1. UNCHANGED semVars /\ ready' = ready /\ \A q \in Proc : Pledged(q)' = Pledged(q)
    BY <1>4, GiveUpStep DEF GiveUp
  <2>2. running \notin ready \/ todo[running] = <<>>
    BY <1>4 DEF GiveUp, Switch
  <2>3. Pledged(running) = {}
    <3>1. CASE todo[running] = <<>>
      BY <3>1, IdlePledges
    <3>2. CASE running \notin ready
      BY <1>1, <3>2 DEF CalmInv, VarsOK
    <3>3. QED
      BY <2>2, <3>1, <3>2
  <2>4. \A p \in Proc : Pledged(p) = {}
    BY <2>3 DEF CalmInv
  <2>5. QED
    BY <1>2, <2>1, <2>4
<1>5. ASSUME NEW p \in Proc, Step(p)
      PROVE  CalmInv'
  <2>1. CASE Begin(p)
    <3>1. UNCHANGED <<semVars, ready, running>> /\ \A q \in Proc : Pledged(q)' = Pledged(q)
      BY <2>1, BeginStep DEF Begin
    <3>2. QED
      BY <1>2, <3>1 DEF CalmInv
  <2>2. CASE Enter(p)
    <3>1. UNCHANGED <<semVars, ready, running>> /\ \A q \in Proc : Pledged(q)' = Pledged(q)
      BY <2>2, EnterStep DEF Enter
    <3>2. QED
      BY <1>2, <3>1 DEF CalmInv
  <2>3. CASE Lock(p)
    <3>1. PICK l \in Locks :
              /\ l \notin Pledged(p) /\ Pledged(p)' = Pledged(p) \cup {l}
              /\ \A q \in Proc \ {p} : Pledged(q)' = Pledged(q)
              /\ running = p /\ p \in ready /\ down(p, l)
              /\ \A m \in Locks : m # l => Waiters(m)' = Waiters(m)
              /\ value[l] = 1 => Waiters(l)' = Waiters(l) /\ ready' = ready
      BY <2>3, LockStep
    <3>2. value[l] = 1
      <4>1. \A q \in Proc : Holds(q, l) => l \in Pledged(q)
        BY <1>1, HoldsIs
      <4>2. \A q \in Proc : ~Holds(q, l)
        BY <3>1, <4>1 DEF CalmInv
      <4>3. QED
        BY <1>1, <4>2 DEF TokenOK
    <3>3. running' = running
      BY <2>3 DEF Lock
    <3>4. \A m \in Locks : Waiters(m)' = {}
      BY <3>1, <3>2 DEF CalmInv
    <3>5. \A q \in Proc : q # p => Pledged(q)' = {}
      BY <3>1 DEF CalmInv
    <3>6. QED
      BY <3>1, <3>2, <3>3, <3>4, <3>5 DEF CalmInv
  <2>4. CASE Unlock(p)
    <3>1. /\ running = p /\ ready \subseteq ready'
          /\ \A q \in Proc \ {p} : Pledged(q)' = Pledged(q)
          /\ \A m \in Locks : Waiters(m)' \subseteq Waiters(m)
      BY <2>4, UnlockStep
    <3>2. running' = running /\ p \in ready
      BY <2>4 DEF Unlock, AtStep, Runs
    <3>3. \A m \in Locks : Waiters(m)' = {}
      BY <3>1 DEF CalmInv
    <3>4. \A q \in Proc : q # p => Pledged(q)' = {}
      BY <3>1 DEF CalmInv
    <3>5. QED
      BY <3>1, <3>2, <3>3, <3>4 DEF CalmInv
  <2>5. CASE FallAsleep(p)
    <3>1. /\ UNCHANGED <<semVars, running>> /\ ready' = ready \ {p} /\ Pledged(p) = {}
          /\ \A q \in Proc : Pledged(q)' = Pledged(q)
      BY <2>5, FallAsleepStep DEF FallAsleep
    <3>2. QED
      BY <1>2, <3>1 DEF CalmInv
  <2>6. CASE WakeUp(p)
    <3>1. /\ UNCHANGED <<semVars, running>> /\ ready' = ready \cup {p}
          /\ \A q \in Proc : Pledged(q)' = Pledged(q)
      BY <2>6, WakeUpStep DEF WakeUp
    <3>2. QED
      BY <1>2, <3>1 DEF CalmInv
  <2>7. QED
    BY <1>5, <2>1, <2>2, <2>3, <2>4, <2>5, <2>6 DEF Step
<1>6. QED
  BY <1>3, <1>4, <1>5 DEF Next

\* In a kernel that takes the processor from a process only where it blocks or is in user
\* code, as this one (trap calls schedule only on the way back to user code), nobody ever
\* sleeps with a semaphore of the file systems: dev_stdin_read runs under none of them, and
\* no down of theirs ever has to wait.
THEOREM CalmKernel ==
  ASSUME ~Preemptive
  PROVE  Spec => [](SleepsUnlocked /\ \A l \in Locks : Waiters(l) = {})
<1>1. Init => CalmInv
  <2>1. SUFFICES ASSUME Init
                 PROVE  CalmInv
    OBVIOUS
  <2>2. wait_queue = [l \in Locks |-> <<>>] /\ todo = [p \in Proc |-> <<>>]
    BY <2>1 DEF Init, sem_init
  <2>3. \A l \in Locks : Waiters(l) = {}
    BY <2>2 DEF Waiters
  <2>4. \A p \in Proc : Pledged(p) = {}
    BY <2>2, IdlePledges
  <2>5. QED
    BY <2>3, <2>4 DEF CalmInv
<1>2. IInv /\ CalmInv /\ [Next]_vars => CalmInv'
  BY CalmKept
<1>3. IInv /\ CalmInv => SleepsUnlocked /\ \A l \in Locks : Waiters(l) = {}
  <2>1. SUFFICES ASSUME IInv, CalmInv, NEW p \in Proc \ ready, NEW l \in Held(p)
                 PROVE  FALSE
    BY DEF SleepsUnlocked, CalmInv
  <2>2. l \in Pledged(p)
    BY <2>1, HoldsIs DEF IInv, Held
  <2>3. QED
    BY <2>1, <2>2 DEF CalmInv
<1>4. Spec => []CalmInv
  BY <1>1, <1>2, Invariance, PTL DEF Spec
<1>5. QED
  BY <1>3, <1>4, Invariance, PTL

-----------------------------------------------------------------------------
(* get_pid: its window and the scans that renew it.                        *)

\* The pids that the running scan has passed lie outside the window, and the
\* window is not empty while it is in use.
ScanOK ==
    /\ phase = "out" => \A pid \in pids : pid <= last_pid \/ pid >= next_safe
    /\ phase \in {"scan", "found"} =>
          /\ last_pid < next_safe
          /\ \A pid \in pids : pid < last_pid \/ pid >= next_safe \/ pid \in ahead
    /\ phase # "scan" => ahead = {}

PidIInv == PidTypeOK /\ ScanOK

\* The first call finds no pid in use.
LEMMA InitInv == PidInit => PidIInv
BY PidAssumption DEF PidInit, PidIInv, PidTypeOK, ScanOK

\* A call that stays inside the window, or that starts a scan.
LEMMA GetPidStep == PidIInv /\ get_pid => PidIInv'
<1> SUFFICES ASSUME PidIInv, get_pid PROVE PidIInv'
  OBVIOUS
<1> USE PidAssumption
<1>1. CASE Rescan(last_pid + 1)
  <2>1. /\ last_pid' = IF last_pid + 1 >= MAX_PID THEN 1 ELSE last_pid + 1
        /\ next_safe' = MAX_PID /\ ahead' = pids /\ phase' = "scan" /\ pids' = pids
    BY <1>1 DEF get_pid, After
  <2>2. last_pid' \in 1..MAX_PID /\ last_pid' < next_safe'
    BY <2>1 DEF PidIInv, PidTypeOK
  <2> QED
    BY <2>1, <2>2 DEF PidIInv, PidTypeOK, ScanOK
<1>2. CASE ~Rescan(last_pid + 1)
  <2>1. /\ last_pid + 1 < MAX_PID /\ last_pid + 1 < next_safe
        /\ last_pid' = last_pid + 1 /\ phase' = "found"
        /\ next_safe' = next_safe /\ ahead' = ahead /\ pids' = pids
    BY <1>2 DEF get_pid, After, Rescan, PidIInv, PidTypeOK
  <2>2. /\ ahead = {}
        /\ \A pid \in pids : pid \in Int /\ (pid <= last_pid \/ pid >= next_safe)
    BY DEF get_pid, PidIInv, PidTypeOK, ScanOK
  <2> QED
    BY <2>1, <2>2 DEF PidIInv, PidTypeOK, ScanOK
<1> QED
  BY <1>1, <1>2

\* One process of the list looked at: the window shrinks, or the pid moves on.
LEMMA ScanStep == ASSUME NEW pid \in pids, PidIInv, scan(pid) PROVE PidIInv'
<1> USE PidAssumption
<1>1. /\ phase = "scan" /\ phase' = "scan" /\ pids' = pids /\ pid \in ahead
      /\ last_pid < next_safe
      /\ \A q \in pids : q \in Int /\ (q < last_pid \/ q >= next_safe \/ q \in ahead)
  BY DEF scan, PidIInv, PidTypeOK, ScanOK
<1>2. CASE pid = last_pid /\ last_pid + 1 >= next_safe
  <2>1. /\ last_pid' = IF last_pid + 1 >= MAX_PID THEN 1 ELSE last_pid + 1
        /\ next_safe' = MAX_PID /\ ahead' = pids
    BY <1>2 DEF scan, After
  <2>2. last_pid' \in 1..MAX_PID /\ last_pid' < next_safe'
    BY <2>1 DEF PidIInv, PidTypeOK
  <2> QED
    BY <1>1, <2>1, <2>2 DEF PidIInv, PidTypeOK, ScanOK
<1>3. CASE pid = last_pid /\ ~(last_pid + 1 >= next_safe)
  <2>1. /\ last_pid' = last_pid + 1 /\ ahead' = ahead \ {pid} /\ next_safe' = next_safe
        /\ last_pid + 1 < next_safe
    BY <1>3 DEF scan, PidIInv, PidTypeOK
  <2>2. \A q \in pids : q < last_pid' \/ q >= next_safe' \/ q \in ahead'
    BY <1>1, <1>3, <2>1 DEF PidIInv, PidTypeOK
  <2> QED
    BY <1>1, <2>1, <2>2 DEF PidIInv, PidTypeOK, ScanOK
<1>4. CASE pid # last_pid
  <2>1. /\ last_pid' = last_pid /\ ahead' = ahead \ {pid}
        /\ next_safe' = IF pid > last_pid /\ next_safe > pid THEN pid ELSE next_safe
    BY <1>4 DEF scan, Bounded
  <2>2. /\ next_safe' \in 1..MAX_PID /\ last_pid' < next_safe' /\ next_safe' <= next_safe
        /\ pid < last_pid' \/ pid >= next_safe'
    BY <1>1, <1>4, <2>1 DEF PidIInv, PidTypeOK
  <2>3. \A q \in pids : q < last_pid' \/ q >= next_safe' \/ q \in ahead'
    BY <1>1, <2>1, <2>2 DEF PidIInv, PidTypeOK
  <2> QED
    BY <1>1, <2>1, <2>2, <2>3 DEF PidIInv, PidTypeOK, ScanOK
<1> QED
  BY <1>2, <1>3, <1>4

\* The end of a scan, and creations and deaths in between.
LEMMA OtherSteps == PidIInv /\ (scan_end \/ link \/ \E pid \in pids : reap(pid)) => PidIInv'
<1> SUFFICES ASSUME PidIInv PROVE scan_end \/ link \/ (\E pid \in pids : reap(pid)) => PidIInv'
  OBVIOUS
<1>1. ASSUME scan_end PROVE PidIInv'
  BY <1>1 DEF scan_end, PidIInv, PidTypeOK, ScanOK
<1>2. ASSUME link PROVE PidIInv'
  <2>1. last_pid \in 1..(MAX_PID - 1) /\ pids' = pids \cup {last_pid}
    BY <1>2, PidAssumption DEF link, PidIInv, PidTypeOK, ScanOK
  <2>2. phase' = "out" /\ UNCHANGED <<last_pid, next_safe, ahead>> /\ ahead = {}
    BY <1>2 DEF link, PidIInv, ScanOK
  <2>3. \A pid \in pids' : pid <= last_pid' \/ pid >= next_safe'
    BY <1>2, <2>1, <2>2 DEF link, PidIInv, PidTypeOK, ScanOK
  <2> QED
    BY <2>1, <2>2, <2>3 DEF PidIInv, PidTypeOK, ScanOK
<1>3. ASSUME NEW pid \in pids, reap(pid) PROVE PidIInv'
  BY <1>3 DEF reap, PidIInv, PidTypeOK, ScanOK
<1> QED
  BY <1>1, <1>2, <1>3

\* Every step keeps the invariant.
LEMMA StepInv == PidIInv /\ [PidNext]_pidVars => PidIInv'
<1>1. PidIInv /\ UNCHANGED pidVars => PidIInv'
  BY DEF pidVars, PidIInv, PidTypeOK, ScanOK
<1> QED
  BY <1>1, GetPidStep, ScanStep, OtherSteps DEF PidNext

\* It holds throughout.
LEMMA PidInvariance == PidSpec => []PidIInv
BY InitInv, StepInv, PTL DEF PidSpec

\* Every pid fits below MAX_PID and 0 stays idleproc's.
THEOREM PidTypeCorrect == PidSpec => []PidTypeOK
<1>1. PidIInv => PidTypeOK
  BY DEF PidIInv
<1> QED
  BY <1>1, PidInvariance, PTL

\* No process holds a pid of the window that calls hand out unchecked.
THEOREM WindowCorrect == PidSpec => []WindowFree
<1>1. PidIInv => WindowFree
  BY DEF PidIInv, ScanOK, WindowFree
<1> QED
  BY <1>1, PidInvariance, PTL

\* The pid that get_pid returns is nobody else's.
THEOREM UniqueCorrect == PidSpec => []PidUnique
<1>1. PidIInv => PidUnique
  BY PidAssumption DEF PidIInv, PidTypeOK, ScanOK, PidUnique
<1> QED
  BY <1>1, PidInvariance, PTL

-----------------------------------------------------------------------------
(***************************************************************************)
(* Numbers.                                                                *)
(***************************************************************************)

(* A set of numbers that is not empty has a least element, which Min is.    *)
LEMMA MinFacts ==
    ASSUME NEW S, S \subseteq Nat, S # {}
    PROVE  Min(S) \in S /\ \A x \in S : Min(S) <= x
<1> DEFINE R == {ss \in Nat \X Nat : ss[1] < ss[2]}
<1>1. IsWellFoundedOn(R, Nat)
  BY NatLessThanWellFounded, Zenon DEF OpToRel
<1>2. PICK m \in S : \A y \in S : ~ (<<y, m>> \in R)
  BY <1>1, WFMin
<1>3. ASSUME NEW y \in S PROVE m <= y
  <2>1. <<y, m>> \notin R
    BY <1>2, <1>3, Zenon
  <2> QED
    BY <2>1
<1> QED
  BY <1>2, <1>3 DEF Min

(* What passes from each number to the next one holds of all of them.       *)
LEMMA Upward ==
    ASSUME NEW n \in Nat, NEW B, 0 \in B, \A i \in 1..n : i - 1 \in B => i \in B
    PROVE  \A i \in 0..n : i \in B
<1> DEFINE Out == {i \in 0..n : i \notin B}
<1>1. SUFFICES ASSUME Out # {} PROVE FALSE
  OBVIOUS
<1>2. Out \subseteq Nat
  OBVIOUS
<1>m. PICK m : m = Min(Out)
  OBVIOUS
<1>3. m \in Out /\ \A x \in Out : m <= x
  BY <1>1, <1>2, <1>m, MinFacts
<1>4. m \in 1..n /\ m \notin B /\ m - 1 \in 0..n /\ ~(m <= m - 1)
  BY <1>3
<1> QED
  BY <1>3, <1>4

(* What \div returns.                                                       *)
LEMMA Division ==
    ASSUME NEW a \in Nat, NEW n \in Nat \ {0}
    PROVE  /\ a \div n \in Nat /\ n * (a \div n) <= a /\ a < n * (a \div n) + n
OBVIOUS

(* Factors can be cancelled.                                                *)
LEMMA Cancel ==
    ASSUME NEW n \in Nat \ {0}, NEW a \in Nat, NEW b \in Nat, n * a < n * b
    PROVE  a < b
<1>1. CASE b <= a
  <2>1. PICK d \in Nat : a = b + d
    <3>1. a - b \in Nat /\ a = b + (a - b)
      BY <1>1
    <3> QED
      BY <3>1
  <2>2. n * a = n * b + n * d /\ n * d >= 0 /\ n * b \in Nat
    BY <2>1
  <2> QED
    BY <2>2
<1> QED
  BY <1>1

(* The only quotient.                                                       *)
LEMMA Quotient ==
    ASSUME NEW a \in Nat, NEW n \in Nat \ {0}, NEW q \in Nat, n * q <= a, a < n * q + n
    PROVE  a \div n = q
<1>r. PICK r : r = a \div n
  OBVIOUS
<1>1. r \in Nat /\ n * r <= a /\ a < n * r + n
  BY <1>r, Division
<1>2. n * r \in Nat /\ n * q \in Nat /\ n * (q + 1) = n * q + n /\ n * (r + 1) = n * r + n
  BY <1>1
<1>3. n * r < n * (q + 1) /\ n * q < n * (r + 1)
  BY <1>1, <1>2
<1>4. r < q + 1 /\ q < r + 1
  <2>1. q + 1 \in Nat /\ r + 1 \in Nat
    BY <1>1
  <2> QED
    BY <1>1, <1>3, <2>1, Cancel
<1> QED
  BY <1>1, <1>4, <1>r

(* \div keeps the order.                                                    *)
LEMMA DivMonotone ==
    ASSUME NEW a \in Nat, NEW b \in Nat, NEW n \in Nat \ {0}, a <= b
    PROVE  a \div n <= b \div n
<1>p. PICK p, q : p = a \div n /\ q = b \div n
  OBVIOUS
<1>1. p \in Nat /\ q \in Nat /\ n * p <= a /\ b < n * q + n
  BY <1>p, Division
<1>2. n * p \in Nat /\ n * q \in Nat /\ n * (q + 1) = n * q + n
  BY <1>1
<1>3. n * p < n * (q + 1) /\ q + 1 \in Nat
  BY <1>1, <1>2
<1>4. p < q + 1
  BY <1>1, <1>3, Cancel
<1> QED
  BY <1>1, <1>4, <1>p

(* A number below a multiple, in quotients.                                 *)
LEMMA DivLess ==
    ASSUME NEW a \in Nat, NEW b \in Nat, NEW n \in Nat \ {0}
    PROVE  /\ a \div n < b <=> a < b * n
           /\ b <= a \div n <=> b * n <= a
<1>q. PICK q : q = a \div n
  OBVIOUS
<1>1. q \in Nat /\ n * q <= a /\ a < n * q + n
  BY <1>q, Division
<1>2. n * q \in Nat /\ n * b \in Nat /\ n * b = b * n /\ n * (q + 1) = n * q + n /\ q + 1 \in Nat
  BY <1>1
<1>3. ASSUME q < b PROVE a < b * n
  <2>1. PICK d \in Nat : b = q + 1 + d
    <3>1. b - q - 1 \in Nat /\ b = q + 1 + (b - q - 1)
      BY <1>1, <1>3
    <3> QED
      BY <3>1
  <2>2. n * b = n * q + n + n * d /\ n * d \in Nat
    BY <1>1, <2>1
  <2> QED
    BY <1>1, <1>2, <2>2
<1>4. ASSUME a < b * n PROVE q < b
  <2>1. n * q < n * b
    BY <1>1, <1>2, <1>4
  <2> QED
    BY <1>1, <2>1, Cancel
<1>5. b * n \in Nat
  BY <1>2
<1> QED
  BY <1>1, <1>3, <1>4, <1>5, <1>q

(* Dividing twice is dividing by the product.                               *)
LEMMA DivOfDiv ==
    ASSUME NEW a \in Nat, NEW n \in Nat \ {0}, NEW k \in Nat \ {0}
    PROVE  (a \div n) \div k = a \div (n * k)
<1>p. PICK u, q : u = a \div n /\ q = u \div k
  OBVIOUS
<1>1. u \in Nat /\ n * u <= a /\ a < n * u + n
  BY <1>p, Division
<1>2. q \in Nat /\ k * q <= u /\ u < k * q + k
  BY <1>p, <1>1, Division
<1>3. n * k \in Nat \ {0} /\ n * u \in Nat /\ k * q \in Nat
  BY <1>1, <1>2
<1>4. n * (k * q) <= n * u
  <2>1. PICK d \in Nat : u = k * q + d
    <3>1. u - k * q \in Nat /\ u = k * q + (u - k * q)
      BY <1>1, <1>2, <1>3
    <3> QED
      BY <3>1
  <2>2. n * (k * q + d) = n * (k * q) + n * d /\ n * d \in Nat /\ n * (k * q) \in Nat
    BY <1>3
  <2> QED
    BY <2>1, <2>2
<1>5. n * (u + 1) <= n * (k * q + k)
  <2>1. PICK d \in Nat : k * q + k = u + 1 + d
    <3>1. k * q + k - u - 1 \in Nat /\ k * q + k = u + 1 + (k * q + k - u - 1)
      BY <1>1, <1>2, <1>3
    <3> QED
      BY <3>1
  <2>2. n * (u + 1 + d) = n * (u + 1) + n * d /\ n * d \in Nat /\ n * (u + 1) \in Nat
    BY <1>1
  <2> QED
    BY <2>1, <2>2
<1>6. n * (k * q) = (n * k) * q /\ n * (k * q + k) = (n * k) * q + n * k /\ n * (u + 1) = n * u + n
  BY <1>1, <1>2, <1>3
<1>7. (n * k) * q \in Nat
  BY <1>2, <1>3
<1>8. (n * k) * q <= a
  BY <1>1, <1>3, <1>4, <1>6, <1>7
<1>9. a < (n * k) * q + n * k
  BY <1>1, <1>3, <1>5, <1>6, <1>7
<1>10. a \div (n * k) = q
  BY <1>2, <1>3, <1>8, <1>9, Quotient
<1> QED
  BY <1>10, <1>p

-----------------------------------------------------------------------------
(***************************************************************************)
(* Pages, tables and directories.                                          *)
(***************************************************************************)

LEMMA Numbers ==
    /\ PGSIZE \in Nat \ {0} /\ PTSIZE \in Nat \ {0} /\ NPDEENTRY \in Nat \ {0} /\ PDSIZE \in Nat \ {0}
    /\ PDSIZE = PTSIZE * NPDEENTRY
    /\ USERTOP \in Nat \ {0} /\ USERBASE \in Nat /\ USTACKPAGE \in 1..USERTOP /\ StackMapped \in 0..USTACKPAGE
    /\ NULL \notin Mm /\ NULL \notin Areas
<1>1. /\ PGSIZE \in Nat \ {0} /\ NPTEENTRY \in Nat \ {0} /\ NPDEENTRY \in Nat \ {0} /\ Directories \in Nat \ {0}
  BY AddressSpaceAssumption
<1>2. PTSIZE * NPDEENTRY \in Nat \ {0}
  BY <1>1 DEF PTSIZE
<1>3. Directories * PDSIZE \in Nat \ {0}
  BY <1>1, <1>2 DEF PDSIZE
<1> QED
  BY <1>1, <1>2, <1>3, AddressSpaceAssumption DEF PTSIZE, PDSIZE, USERTOP

(* The directory of the table of a page is the directory of the page.       *)
LEMMA TableFacts ==
    ASSUME NEW p \in Nat
    PROVE  PT(p) \in Nat /\ PD(p) \in Nat /\ DirOf(PT(p)) = PD(p)
BY Numbers, Division, DivOfDiv DEF PT, PD, DirOf

(* A higher page has no lower table,                                        *)
LEMMA TablesMonotone ==
    ASSUME NEW p \in Nat, NEW q \in Nat, p <= q
    PROVE  PT(p) <= PT(q)
BY Numbers, DivMonotone DEF PT

(* and a higher table no lower directory.                                   *)
LEMMA DirMonotone ==
    ASSUME NEW t \in Nat, NEW u \in Nat, t <= u
    PROVE  DirOf(t) \in Nat /\ DirOf(u) \in Nat /\ DirOf(t) <= DirOf(u)
BY Numbers, Division, DivMonotone DEF DirOf

(* Where a loop over pages goes on, and what it leaves out.                 *)
LEMMA NextPageFacts ==
    ASSUME NEW m, NEW p \in Nat
    PROVE  /\ NextPage(m, p) \in Nat /\ NextPage(m, p) > p
           /\ Reached(m, p) => NextPage(m, p) = p + 1
           /\ ~Reached(m, p) => \A x \in Nat : p <= x /\ x < NextPage(m, p) => ~Reached(m, x)
<1>n. PICK n : n = PTSIZE
  OBVIOUS
<1>0. n \in Nat \ {0}
  BY <1>n, Numbers
<1>1. CASE Reached(m, p)
  BY <1>1 DEF NextPage
<1>2. CASE ~Reached(m, p)
  <2>t. PICK t : t = p \div n
    OBVIOUS
  <2>1. t \in Nat /\ n * t <= p /\ p < n * t + n
    BY <1>0, <2>t, Division
  <2>2. n * t \in Nat /\ n * (t + 1) = n * t + n /\ n * (t + 1) = (t + 1) * n /\ n * (t + 1) + n = n * t + n + n
    BY <1>0, <2>1
  <2>3. (p + n) \div n = t + 1
    <3>1. t + 1 \in Nat /\ p + n \in Nat /\ n * (t + 1) <= p + n /\ p + n < n * (t + 1) + n
      BY <1>0, <2>1, <2>2
    <3> QED
      BY <1>0, <3>1, Quotient
  <2>4. NextPage(m, p) = n * t + n
    BY <1>2, <1>n, <2>2, <2>3 DEF NextPage, ROUNDDOWN
  <2>5. ASSUME NEW x \in Nat, p <= x, x < NextPage(m, p) PROVE PT(x) = PT(p)
    <3>1. n * t <= x /\ x < n * t + n
      BY <2>1, <2>2, <2>4, <2>5, <1>0
    <3> QED
      BY <1>0, <1>n, <2>1, <2>t, <3>1, Quotient DEF PT
  <2>6. ASSUME NEW x \in Nat, p <= x, x < NextPage(m, p) PROVE ~Reached(m, x)
    BY <1>2, <2>5, <2>6 DEF Reached
  <2> QED
    BY <1>0, <1>2, <2>1, <2>2, <2>4, <2>6
<1> QED
  BY <1>1, <1>2

(* The areas of a program's segments.                                       *)
LEMMA SegmentFacts ==
    ASSUME NEW s \in Header
    PROVE  /\ FirstPage(s) \in Nat /\ EndPage(s) \in Nat
           /\ FirstPage(s) < EndPage(s) => LoopEnd(s) \in Nat /\ LoopEnd(s) <= EndPage(s)
<1>n. PICK n, a, b : n = PGSIZE /\ a = s.va /\ b = s.va + s.memsz
  OBVIOUS
<1>1. n \in Nat \ {0} /\ a \in Nat /\ b \in Nat
  BY <1>n, Numbers DEF Header
<1>2. ASSUME NEW x \in Nat PROVE ROUNDDOWN(x, n) \div n = x \div n /\ x \div n \in Nat
  <2>q. PICK q : q = x \div n
    OBVIOUS
  <2>1. q \in Nat /\ q * n = n * q /\ n * q \in Nat /\ n * q < n * q + n
    BY <1>1, <2>q, Division
  <2>2. (n * q) \div n = q
    BY <1>1, <2>1, Quotient
  <2> QED
    BY <2>q, <2>1, <2>2 DEF ROUNDDOWN
<1>3. FirstPage(s) = a \div n /\ FirstPage(s) \in Nat
  BY <1>1, <1>2, <1>n DEF FirstPage
<1>4. b + n - 1 \in Nat /\ EndPage(s) = (b + n - 1) \div n /\ EndPage(s) \in Nat
  BY <1>1, <1>2, <1>n DEF EndPage, ROUNDUP
<1>5. ASSUME FirstPage(s) < EndPage(s) PROVE LoopEnd(s) = EndPage(s)
  <2>1. b # 0
    <3>1. SUFFICES ASSUME b = 0 PROVE FALSE
      OBVIOUS
    <3>2. n * 0 <= n - 1 /\ n - 1 < n * 0 + n /\ n - 1 \in Nat
      BY <1>1
    <3>3. (n - 1) \div n = 0
      BY <1>1, <3>2, Quotient
    <3> QED
      BY <1>1, <1>3, <1>4, <1>5, <3>1, <3>3
  <2>c. PICK c : c = b - 1
    OBVIOUS
  <2>2. c \in Nat /\ b + n - 1 = c + n
    BY <1>1, <2>1, <2>c
  <2>q. PICK q : q = c \div n
    OBVIOUS
  <2>3. q \in Nat /\ n * q <= c /\ c < n * q + n
    BY <1>1, <2>2, <2>q, Division
  <2>4. n * (q + 1) = n * q + n /\ n * q \in Nat /\ q + 1 \in Nat
    BY <1>1, <2>3
  <2>5. n * (q + 1) <= c + n /\ c + n < n * (q + 1) + n /\ c + n \in Nat
    BY <1>1, <2>2, <2>3, <2>4
  <2>6. (c + n) \div n = q + 1
    BY <1>1, <2>4, <2>5, Quotient
  <2>7. LoopEnd(s) = c \div n + 1
    <3>1. s.va \in Nat /\ s.memsz \in Nat
      BY DEF Header
    <3>2. s.va + s.memsz - 1 = c
      BY <1>n, <2>c, <3>1
    <3> QED
      BY <1>n, <3>2, Zenon DEF LoopEnd
  <2> QED
    BY <1>4, <2>2, <2>6, <2>7, <2>q
<1> QED
  BY <1>3, <1>4, <1>5

-----------------------------------------------------------------------------
(***************************************************************************)
(* Lists of areas.                                                         *)
(***************************************************************************)

(* The list of an address space: user areas, each behind the one before.    *)
Ordered(list) ==
    /\ list \in Seq(Areas)
    /\ \A i \in DOMAIN list : USER_ACCESS(list[i].vm_start, list[i].vm_end)
    /\ \A i, j \in DOMAIN list : i < j => list[i].vm_end <= list[j].vm_start

(* The fields of an area.                                                   *)
LEMMA AreaTypes ==
    ASSUME NEW v \in Areas
    PROVE  /\ v.vm_start \in Nat /\ v.vm_end \in Nat /\ v.write \in BOOLEAN /\ v.stack \in BOOLEAN
           /\ v.vm_start <= USERTOP /\ v.vm_end <= USERTOP /\ v # NULL
BY Numbers DEF Areas

(* Ordered areas are apart, whichever two of them.                          *)
LEMMA OrderedFacts ==
    ASSUME NEW list, Ordered(list)
    PROVE  /\ Len(list) \in Nat /\ DOMAIN list = 1..Len(list)
           /\ \A i \in 1..Len(list) : /\ list[i] \in Areas /\ list[i] \in Range(list)
                                      /\ USERBASE <= list[i].vm_start /\ list[i].vm_start < list[i].vm_end
                                      /\ list[i].vm_end <= USERTOP
           /\ \A i, j \in 1..Len(list) : i < j => list[i].vm_end <= list[j].vm_start
           /\ \A v \in Range(list) : v \in Areas /\ \E i \in 1..Len(list) : v = list[i]
<1>1. Len(list) \in Nat /\ DOMAIN list = 1..Len(list) /\ \A i \in 1..Len(list) : list[i] \in Areas
  BY DEF Ordered
<1> QED
  BY <1>1 DEF Ordered, Range, USER_ACCESS

(* No page is in two areas.                                                 *)
LEMMA OneArea ==
    ASSUME NEW list, Ordered(list), NEW v \in Range(list), NEW w \in Range(list), NEW p \in Nat,
           In(v, p), In(w, p)
    PROVE  v = w
<1>1. PICK i, j \in 1..Len(list) : v = list[i] /\ w = list[j]
  BY OrderedFacts
<1>2. list[i] \in Areas /\ list[j] \in Areas
  BY OrderedFacts
<1>3. /\ list[i].vm_start <= p /\ p < list[i].vm_end /\ list[j].vm_start <= p /\ p < list[j].vm_end
      /\ list[i].vm_start \in Nat /\ list[j].vm_start \in Nat /\ list[i].vm_end \in Nat /\ list[j].vm_end \in Nat
  BY <1>1, <1>2, AreaTypes DEF In
<1>4. i < j => list[i].vm_end <= list[j].vm_start
  BY OrderedFacts
<1>5. j < i => list[j].vm_end <= list[i].vm_start
  BY OrderedFacts
<1>6. i = j
  BY <1>3, <1>4, <1>5
<1> QED
  BY <1>1, <1>6

(* find_vma finds the area of a page, wherever the cache points.            *)
LEMMA FindFacts ==
    ASSUME NEW list, Ordered(list), NEW cache \in Range(list) \cup {NULL}, NEW p \in Nat
    PROVE  LET found == find_vma(list, cache, p) IN
           \/ found = NULL /\ \A v \in Range(list) : ~In(v, p)
           \/ /\ found \in Range(list) /\ found # NULL /\ In(found, p)
              /\ \A v \in Range(list) : In(v, p) => v = found
<1>1. \A v \in Range(list) : v \in Areas /\ v # NULL
  BY OrderedFacts, AreaTypes
<1>2. CASE cache # NULL /\ In(cache, p)
  <2>1. find_vma(list, cache, p) = cache /\ cache \in Range(list)
    BY <1>2 DEF find_vma
  <2>2. \A v \in Range(list) : In(v, p) => v = cache
    BY <1>2, <2>1, OneArea
  <2> QED
    BY <1>2, <2>1, <2>2
<1>3. CASE ~(cache # NULL /\ In(cache, p))
  <2>h. PICK hits : hits = {i \in DOMAIN list : In(list[i], p)}
    OBVIOUS
  <2>1. find_vma(list, cache, p) = IF hits = {} THEN NULL ELSE list[Min(hits)]
    BY <1>3, <2>h DEF find_vma
  <2>2. CASE hits = {}
    BY <2>1, <2>2, <2>h DEF Range
  <2>3. CASE hits # {}
    <3>1. hits \subseteq Nat
      BY <2>h, OrderedFacts
    <3>2. Min(hits) \in hits
      BY <2>3, <3>1, MinFacts
    <3>3. list[Min(hits)] \in Range(list) /\ In(list[Min(hits)], p)
      BY <2>h, <3>2 DEF Range
    <3>4. \A v \in Range(list) : In(v, p) => v = list[Min(hits)]
      BY <3>3, OneArea
    <3> QED
      BY <1>1, <2>1, <2>3, <3>3, <3>4
  <2> QED
    BY <2>2, <2>3
<1> QED
  BY <1>2, <1>3

(* Where the loop of insert_vma_struct stops.                               *)
LEMMA PositionFacts ==
    ASSUME NEW list, Ordered(list), NEW vma \in Areas
    PROVE  /\ Position(list, vma) \in 0..Len(list)
           /\ \A i \in 1..Position(list, vma) : list[i].vm_start <= vma.vm_start
           /\ \A i \in (Position(list, vma) + 1)..Len(list) : list[i].vm_start > vma.vm_start
<1>l. PICK later : later = {i \in DOMAIN list : list[i].vm_start > vma.vm_start}
  OBVIOUS
<1>1. Len(list) \in Nat /\ DOMAIN list = 1..Len(list)
  BY OrderedFacts
<1>2. \A i \in 1..Len(list) : list[i].vm_start \in Nat /\ list[i].vm_end \in Nat /\ list[i].vm_start < list[i].vm_end
  BY OrderedFacts, AreaTypes
<1>3. vma.vm_start \in Nat
  BY AreaTypes
<1>4. CASE later = {}
  <2>1. Position(list, vma) = Len(list)
    BY <1>4, <1>l DEF Position
  <2> QED
    BY <1>1, <1>2, <1>3, <1>4, <1>l, <2>1
<1>5. CASE later # {}
  <2>m. PICK m : m = Min(later)
    OBVIOUS
  <2>1. m \in later /\ \A i \in later : m <= i
    BY <1>1, <1>5, <1>l, <2>m, MinFacts
  <2>2. Position(list, vma) = m - 1
    BY <1>5, <1>l, <2>m DEF Position
  <2>3. m \in 1..Len(list) /\ list[m].vm_start > vma.vm_start
    BY <1>1, <1>l, <2>1
  <2>4. ASSUME NEW i \in 1..(m - 1) PROVE list[i].vm_start <= vma.vm_start
    <3>1. i \in 1..Len(list) /\ i \notin later
      BY <1>1, <2>1, <2>3
    <3> QED
      BY <1>1, <1>2, <1>3, <1>l, <3>1
  <2>5. ASSUME NEW i \in m..Len(list) PROVE list[i].vm_start > vma.vm_start
    <3>1. i \in 1..Len(list) /\ (m < i => list[m].vm_end <= list[i].vm_start)
      BY <2>3, OrderedFacts
    <3> QED
      BY <1>2, <1>3, <2>3, <3>1
  <2> QED
    BY <1>1, <2>2, <2>3, <2>4, <2>5
<1> QED
  BY <1>4, <1>5

(* What insert_vma_struct leaves when its assertions hold.                  *)
LEMMA InsertFacts ==
    ASSUME NEW list, Ordered(list), NEW vma \in Areas, USER_ACCESS(vma.vm_start, vma.vm_end),
           ~Overlaps(list, vma)
    PROVE  /\ Ordered(insert_vma_struct(list, vma))
           /\ Range(insert_vma_struct(list, vma)) = Range(list) \cup {vma}
<1>k. PICK k, n, new : k = Position(list, vma) /\ n = Len(list) /\ new = insert_vma_struct(list, vma)
  OBVIOUS
<1>1. n \in Nat /\ DOMAIN list = 1..n /\ k \in 0..n /\ list \in Seq(Areas)
  BY <1>k, OrderedFacts, PositionFacts DEF Ordered
<1>2. /\ \A i \in 1..k : list[i].vm_start <= vma.vm_start
      /\ \A i \in (k + 1)..n : list[i].vm_start > vma.vm_start
  BY <1>k, PositionFacts
<1>3. new = SubSeq(list, 1, k) \o <<vma>> \o SubSeq(list, k + 1, n)
  <2>1. (k + 1) - 1 = k
    BY <1>1
  <2>2. new = SubSeq(list, 1, (k + 1) - 1) \o <<vma>> \o SubSeq(list, k + 1, n)
    BY <1>k, Zenon DEF insert_vma_struct, InsertAt
  <2> QED
    BY <2>1, <2>2, Zenon
<1>4. /\ SubSeq(list, 1, k) \in Seq(Areas) /\ Len(SubSeq(list, 1, k)) = k
      /\ \A i \in 1..k : SubSeq(list, 1, k)[i] = list[i]
  BY <1>1
<1>5. /\ SubSeq(list, k + 1, n) \in Seq(Areas) /\ Len(SubSeq(list, k + 1, n)) = n - k
      /\ \A i \in 1..(n - k) : SubSeq(list, k + 1, n)[i] = list[k + i]
  BY <1>1
<1>f. PICK front, back : front = SubSeq(list, 1, k) /\ back = SubSeq(list, k + 1, n)
  OBVIOUS
<1>6. new \in Seq(Areas) /\ Len(new) = n + 1
  BY <1>1, <1>3, <1>4, <1>5
<1>7. \A i \in 1..k : new[i] = list[i]
  BY <1>1, <1>3, <1>4, <1>5
<1>8. new[k + 1] = vma
  BY <1>1, <1>3, <1>4, <1>5
<1>9. \A i \in (k + 2)..(n + 1) : new[i] = list[i - 1]
  <2>1. ASSUME NEW i \in (k + 2)..(n + 1) PROVE new[i] = list[i - 1]
    <3>p. PICK pre : pre = front \o <<vma>>
      OBVIOUS
    <3>a. pre \in Seq(Areas) /\ Len(pre) = k + 1 /\ back \in Seq(Areas) /\ Len(back) = n - k
      <4>1. front \in Seq(Areas) /\ Len(front) = k /\ <<vma>> \in Seq(Areas) /\ Len(<<vma>>) = 1
        BY <1>4, <1>f
      <4>2. pre \in Seq(Areas) /\ Len(pre) = k + 1
        BY <1>1, <3>p, <4>1
      <4> QED
        BY <1>5, <1>f, <4>2
    <3>b. new = pre \o back
      BY <1>3, <1>f, <3>p, Zenon
    <3>c. i > k + 1 /\ i <= (k + 1) + (n - k) /\ i \in Nat
      BY <1>1
    <3>d. new[i] = back[i - (k + 1)]
      BY <1>1, <3>a, <3>b, <3>c
    <3>1. new[i] = back[i - k - 1]
      <4>1. i - (k + 1) = i - k - 1
        BY <1>1
      <4> QED
        BY <3>d, <4>1
    <3>2. i - k - 1 \in 1..(n - k) /\ k + (i - k - 1) = i - 1
      BY <1>1
    <3> QED
      BY <1>5, <1>f, <3>1, <3>2
  <2> QED
    BY <2>1
<1>10. DOMAIN new = 1..(n + 1)
  BY <1>1, <1>6
<1>11. /\ k > 0 => list[k].vm_end <= vma.vm_start
       /\ k < n => vma.vm_end <= list[k + 1].vm_start
  <2>1. \A i \in 1..n : list[i].vm_start \in Nat /\ list[i].vm_end \in Nat
    BY <1>k, OrderedFacts, AreaTypes
  <2>2. k > 0 => k \in 1..n
    BY <1>1
  <2>3. k < n => k + 1 \in 1..n
    BY <1>1
  <2> QED
    BY <1>1, <1>k, <2>1, <2>2, <2>3, AreaTypes DEF Overlaps
<1>12. /\ \A i \in 1..n : /\ USERBASE <= list[i].vm_start /\ list[i].vm_start < list[i].vm_end
                          /\ list[i].vm_end <= USERTOP /\ list[i].vm_start \in Nat /\ list[i].vm_end \in Nat
       /\ \A i, j \in 1..n : i < j => list[i].vm_end <= list[j].vm_start
  BY <1>k, OrderedFacts, AreaTypes
<1>13. ASSUME NEW i \in 1..(n + 1) PROVE USER_ACCESS(new[i].vm_start, new[i].vm_end)
  <2>1. CASE i <= k
    BY <1>1, <1>7, <1>12, <2>1 DEF USER_ACCESS
  <2>2. CASE i = k + 1
    BY <1>8, <2>2
  <2>3. CASE i >= k + 2
    <3>1. i \in (k + 2)..(n + 1) /\ i - 1 \in 1..n
      BY <1>1, <2>3
    <3>2. new[i] = list[i - 1]
      BY <1>9, <3>1
    <3> QED
      BY <1>12, <3>1, <3>2 DEF USER_ACCESS
  <2> QED
    BY <1>1, <2>1, <2>2, <2>3
<1>14. \A i \in 1..k : list[i].vm_end <= vma.vm_start
  <2>1. ASSUME NEW i \in 1..k PROVE list[i].vm_end <= vma.vm_start
    <3>1. k \in 1..n /\ i \in 1..n /\ k > 0
      BY <1>1
    <3>2. i < k => list[i].vm_end <= list[k].vm_start /\ list[k].vm_start < list[k].vm_end
      BY <1>12, <3>1
    <3> QED
      BY <1>11, <1>12, <3>1, <3>2, AreaTypes
  <2> QED
    BY <2>1
<1>15. \A i \in (k + 1)..n : vma.vm_end <= list[i].vm_start
  <2>1. ASSUME NEW i \in (k + 1)..n PROVE vma.vm_end <= list[i].vm_start
    <3>1. k + 1 \in 1..n /\ i \in 1..n /\ k < n
      BY <1>1
    <3>2. k + 1 < i => list[k + 1].vm_end <= list[i].vm_start /\ list[k + 1].vm_start < list[k + 1].vm_end
      BY <1>12, <3>1
    <3> QED
      BY <1>1, <1>11, <1>12, <3>1, <3>2, AreaTypes
  <2> QED
    BY <2>1
<1>16. ASSUME NEW i \in 1..(n + 1), NEW j \in 1..(n + 1), i < j PROVE new[i].vm_end <= new[j].vm_start
  <2>1. CASE j <= k
    BY <1>1, <1>7, <1>12, <1>16, <2>1
  <2>2. CASE j = k + 1
    BY <1>1, <1>7, <1>8, <1>14, <1>16, <2>2
  <2>3. CASE j >= k + 2
    <3>1. new[j] = list[j - 1] /\ j - 1 \in (k + 1)..n /\ j - 1 \in 1..n
      BY <1>1, <1>9, <2>3
    <3>2. CASE i <= k
      BY <1>1, <1>7, <1>12, <3>1, <3>2
    <3>3. CASE i = k + 1
      BY <1>8, <1>15, <3>1, <3>3
    <3>4. CASE i >= k + 2
      <4>1. new[i] = list[i - 1] /\ i - 1 \in 1..n /\ i - 1 < j - 1
        BY <1>1, <1>9, <1>16, <3>4
      <4> QED
        BY <1>12, <3>1, <4>1
    <3> QED
      BY <1>1, <3>2, <3>3, <3>4
  <2> QED
    BY <1>1, <2>1, <2>2, <2>3
<1>17. Ordered(new)
  BY <1>6, <1>10, <1>13, <1>16 DEF Ordered
<1>18. Range(new) = Range(list) \cup {vma}
  <2>1. ASSUME NEW i \in 1..(n + 1) PROVE new[i] \in Range(list) \cup {vma}
    <3>1. i \in 1..k \/ i = k + 1 \/ i \in (k + 2)..(n + 1)
      BY <1>1
    <3> QED
      BY <1>1, <1>7, <1>8, <1>9, <3>1 DEF Range
  <2>2. vma \in Range(new)
    BY <1>1, <1>8, <1>10 DEF Range
  <2>3. ASSUME NEW i \in 1..n PROVE list[i] \in Range(new)
    <3>1. CASE i <= k
      BY <1>1, <1>7, <1>10, <3>1 DEF Range
    <3>2. CASE i > k
      <4>1. i + 1 \in (k + 2)..(n + 1) /\ i + 1 \in 1..(n + 1)
        BY <1>1, <3>2
      <4>2. new[i + 1] = list[i]
        BY <1>9, <4>1
      <4> QED
        BY <1>10, <4>1, <4>2 DEF Range
    <3> QED
      BY <1>1, <3>1, <3>2
  <2> QED
    BY <1>1, <1>10, <2>1, <2>2, <2>3 DEF Range
<1> QED
  BY <1>17, <1>18, <1>k

(* In front of all others, as dup_mmap inserts.                             *)
LEMMA InsertFront ==
    ASSUME NEW list, Ordered(list), NEW vma \in Areas, USER_ACCESS(vma.vm_start, vma.vm_end),
           \A i \in DOMAIN list : vma.vm_end <= list[i].vm_start
    PROVE  ~Overlaps(list, vma) /\ insert_vma_struct(list, vma) = <<vma>> \o list
<1>1. Len(list) \in Nat /\ DOMAIN list = 1..Len(list) /\ list \in Seq(Areas)
  BY OrderedFacts DEF Ordered
<1>2. \A i \in 1..Len(list) : list[i].vm_start \in Nat /\ list[i].vm_start > vma.vm_start
  BY <1>1, OrderedFacts, AreaTypes DEF USER_ACCESS
<1>3. Position(list, vma) \in 0..Len(list) /\ \A i \in 1..Position(list, vma) : list[i].vm_start <= vma.vm_start
  BY PositionFacts
<1>4. Position(list, vma) = 0
  <2>1. ASSUME Position(list, vma) # 0 PROVE FALSE
    <3>1. 1 \in 1..Position(list, vma) /\ 1 \in 1..Len(list)
      BY <1>1, <1>3, <2>1
    <3> QED
      BY <1>2, <1>3, <3>1, AreaTypes
  <2> QED
    BY <2>1
<1>5. ~Overlaps(list, vma)
  <2>1. 0 < Len(list) => 1 \in 1..Len(list) /\ 0 + 1 = 1
    BY <1>1
  <2>2. 0 < Len(list) => ~(vma.vm_end > list[1].vm_start)
    BY <1>1, <1>2, <2>1, AreaTypes
  <2> QED
    BY <1>4, <2>1, <2>2 DEF Overlaps
<1>6. insert_vma_struct(list, vma) = SubSeq(list, 1, 0) \o <<vma>> \o SubSeq(list, 1, Len(list))
  BY <1>4 DEF insert_vma_struct, InsertAt
<1>7. SubSeq(list, 1, 0) = <<>> /\ SubSeq(list, 1, Len(list)) = list
  BY <1>1
<1>8. <<>> \o <<vma>> = <<vma>>
  OBVIOUS
<1> QED
  BY <1>5, <1>6, <1>7, <1>8

(* Behind all others, as mm_map does when headers are in order.             *)
LEMMA NoOverlapAtEnd ==
    ASSUME NEW list, Ordered(list), NEW vma \in Areas,
           \A i \in DOMAIN list : list[i].vm_start <= vma.vm_start,
           \A v \in Range(list) : ~In(v, vma.vm_start)
    PROVE  ~Overlaps(list, vma)
<1>1. Len(list) \in Nat /\ DOMAIN list = 1..Len(list)
  BY OrderedFacts
<1>2. \A i \in 1..Len(list) : list[i].vm_start \in Nat /\ list[i].vm_end \in Nat /\ list[i].vm_end <= vma.vm_start
  BY <1>1, OrderedFacts, AreaTypes DEF In
<1>3. Position(list, vma) = Len(list)
  <2>1. /\ Position(list, vma) \in 0..Len(list)
        /\ \A i \in (Position(list, vma) + 1)..Len(list) : list[i].vm_start > vma.vm_start
    BY PositionFacts
  <2>2. ASSUME Position(list, vma) < Len(list) PROVE FALSE
    <3>1. Len(list) \in (Position(list, vma) + 1)..Len(list) /\ Len(list) \in 1..Len(list)
      BY <1>1, <2>1, <2>2
    <3> QED
      BY <1>1, <1>2, <2>1, <3>1, AreaTypes
  <2> QED
    BY <1>1, <2>1, <2>2
<1>4. Len(list) > 0 => Len(list) \in 1..Len(list)
  BY <1>1
<1> QED
  BY <1>1, <1>2, <1>3, <1>4, AreaTypes DEF Overlaps

-----------------------------------------------------------------------------
(***************************************************************************)
(* What exit_mmap frees.                                                   *)
(***************************************************************************)

(* unmap_range frees the pages of an area that a table leads to.            *)
LEMMA UnmappedFacts ==
    ASSUME NEW m, pages[m] \subseteq Nat, NEW v \in Areas
    PROVE  Unmapped(m, v) = {p \in pages[m] : Reached(m, p) /\ In(v, p)}
<1> DEFINE Mine == {p \in pages[m] : Reached(m, p)}
           rec(f) == [page \in Nat |-> IF page >= v.vm_end THEN {}
                                       ELSE ({page} \cap Mine) \cup f[NextPage(m, page)]]
<1>e. PICK e : e = v.vm_end
  OBVIOUS
<1>0. e \in Nat /\ v.vm_start \in Nat
  BY <1>e, AreaTypes
<1>w. PICK W : W = [page \in Nat |-> {p \in Mine : page <= p /\ p < e}]
  OBVIOUS
<1>1. ASSUME NEW page \in Nat
      PROVE  W[page] = IF page >= e THEN {} ELSE ({page} \cap Mine) \cup W[NextPage(m, page)]
  <2>n. PICK n : n = NextPage(m, page)
    OBVIOUS
  <2>1. /\ n \in Nat /\ n > page /\ (Reached(m, page) => n = page + 1)
        /\ ~Reached(m, page) => \A x \in Nat : page <= x /\ x < n => ~Reached(m, x)
    BY <2>n, NextPageFacts
  <2>2. /\ W[page] = {p \in Mine : page <= p /\ p < e}
        /\ W[n] = {p \in Mine : n <= p /\ p < e}
    BY <1>w, <2>1
  <2>3. CASE page >= e
    BY <1>0, <2>2, <2>3
  <2>4. CASE page < e
    <3>1. ASSUME NEW p \in W[page] PROVE p \in ({page} \cap Mine) \cup W[n]
      <4>1. p \in Nat /\ p \in Mine /\ page <= p /\ p < e /\ Reached(m, p)
        BY <2>2, <3>1
      <4>2. p = page \/ n <= p
        BY <2>1, <4>1
      <4> QED
        BY <2>2, <4>1, <4>2
    <3>2. ASSUME NEW p \in ({page} \cap Mine) \cup W[n] PROVE p \in W[page]
      <4>1. p \in Mine /\ p \in Nat /\ p < e /\ page <= p
        BY <1>0, <2>1, <2>2, <2>4, <3>2
      <4> QED
        BY <2>2, <4>1
    <3>3. W[page] = ({page} \cap Mine) \cup W[n]
      BY <3>1, <3>2
    <3> QED
      BY <1>0, <2>4, <2>n, <3>3
  <2> QED
    BY <1>0, <2>3, <2>4
<1>2. W = rec(W)
  <2>1. \A page \in Nat : W[page] = IF page >= v.vm_end THEN {} ELSE ({page} \cap Mine) \cup W[NextPage(m, page)]
    BY <1>1, <1>e
  <2>2. W = [page \in Nat |-> W[page]]
    BY <1>w
  <2> QED
    BY <2>1, <2>2, Zenon
<1>c. PICK walk : walk = CHOOSE f : f = rec(f)
  OBVIOUS
<1>3. walk = rec(walk)
  <2> HIDE DEF rec
  <2> QED
    BY <1>2, <1>c
<1>4. Unmapped(m, v) = walk[v.vm_start]
  BY <1>c DEF Unmapped
<1>5. \A page \in Nat : walk[page] = IF page >= e THEN {} ELSE ({page} \cap Mine) \cup walk[NextPage(m, page)]
  BY <1>3, <1>e
<1>6. \A d \in 0..e : \A page \in Nat : e <= page + d => walk[page] = W[page]
  <2> DEFINE B == {d \in 0..e : \A page \in Nat : e <= page + d => walk[page] = W[page]}
  <2>1. 0 \in B
    <3>1. ASSUME NEW page \in Nat, e <= page + 0 PROVE walk[page] = W[page]
      <4>1. page >= e
        BY <1>0, <3>1
      <4>2. walk[page] = {}
        BY <1>5, <4>1
      <4>3. W[page] = {}
        BY <1>1, <4>1
      <4> QED
        BY <4>2, <4>3
    <3> QED
      BY <1>0, <3>1
  <2>2. ASSUME NEW d \in 1..e, d - 1 \in B PROVE d \in B
    <3>1. ASSUME NEW page \in Nat, e <= page + d PROVE walk[page] = W[page]
      <4>1. NextPage(m, page) \in Nat /\ NextPage(m, page) > page
        BY NextPageFacts
      <4>2. e <= NextPage(m, page) + (d - 1)
        BY <1>0, <3>1, <4>1
      <4>3. walk[NextPage(m, page)] = W[NextPage(m, page)]
        BY <2>2, <4>1, <4>2
      <4> QED
        BY <1>1, <1>5, <4>3
    <3> QED
      BY <1>0, <3>1
  <2>3. \A d \in 0..e : d \in B
    <3> HIDE DEF B
    <3> QED
      BY <1>0, <2>1, <2>2, Upward
  <2> QED
    BY <2>3
<1>7. walk[v.vm_start] = W[v.vm_start]
  BY <1>0, <1>6
<1> QED
  BY <1>0, <1>4, <1>7, <1>w, <1>e DEF In

(* A loop of n rounds exists, and stays in S.                               *)
IsLoop(g, n, start, step, S) ==
    g \in [0..n -> S] /\ g[0] = start /\ \A k \in 1..n : g[k] = step[k][g[k - 1]]

(* A loop of n rounds leads somewhere.                                      *)
LEMMA LoopExists ==
    ASSUME NEW n \in Nat, NEW S, NEW start \in S, NEW step \in [1..n -> [S -> S]]
    PROVE  \E g : IsLoop(g, n, start, step, S)
<1> DEFINE B == {k \in 0..n : \E g : IsLoop(g, k, start, step, S)}
<1>1. 0 \in B
  <2>g. PICK one : one = [i \in 0..0 |-> start]
    OBVIOUS
  <2>1. one \in [0..0 -> S] /\ one[0] = start /\ 1..0 = {}
    BY <2>g
  <2>2. IsLoop(one, 0, start, step, S)
    BY <2>1 DEF IsLoop
  <2> QED
    BY <2>2
<1>2. ASSUME NEW k \in 1..n, k - 1 \in B PROVE k \in B
  <2>1. PICK g : IsLoop(g, k - 1, start, step, S)
    BY <1>2
  <2>g. g \in [0..(k - 1) -> S] /\ g[0] = start /\ \A i \in 1..(k - 1) : g[i] = step[i][g[i - 1]]
    BY <2>1 DEF IsLoop
  <2>l. PICK longer : longer = [i \in 0..k |-> IF i = k THEN step[k][g[k - 1]] ELSE g[i]]
    OBVIOUS
  <2>2. k - 1 \in 0..(k - 1) /\ g[k - 1] \in S /\ step[k] \in [S -> S] /\ step[k][g[k - 1]] \in S
    BY <2>g
  <2>3. longer \in [0..k -> S]
    BY <2>g, <2>l, <2>2
  <2>4. longer[0] = start
    BY <2>g, <2>l
  <2>5. ASSUME NEW i \in 1..k PROVE longer[i] = step[i][longer[i - 1]]
    <3>1. i - 1 \in 0..k /\ i - 1 # k /\ longer[i - 1] = g[i - 1]
      BY <2>l
    <3>2. CASE i = k
      BY <2>l, <3>1, <3>2
    <3>3. CASE i # k
      <4>1. i \in 1..(k - 1) /\ longer[i] = g[i]
        BY <2>l, <3>3
      <4> QED
        BY <2>g, <3>1, <4>1
    <3> QED
      BY <3>2, <3>3
  <2>6. IsLoop(longer, k, start, step, S)
    BY <2>3, <2>4, <2>5 DEF IsLoop
  <2> QED
    BY <2>6
<1>3. \A k \in 0..n : k \in B
  <2> HIDE DEF B
  <2> QED
    BY <1>1, <1>2, Upward
<1>4. n \in B
  BY <1>3
<1> QED
  BY <1>4
(* Page tables whose pages are freed, as the second loop of exit_mmap sees  *)
(* them.                                                                    *)
Emptied ==
    {tree \in [pd0 : SUBSET Nat, pt : SUBSET Nat, pages : {{}}, lost : SUBSET {"table"}] :
        \A t \in tree.pt : DirOf(t) \in tree.pd0}

(* The tables that a program may need.                                      *)
Known == UNION {Tables(v) : v \in UserAreas}

(* OneTable says of all tables of the program that no two share a           *)
(* directory.                                                               *)
LEMMA OneTableKnown == OneTable => \A t, u \in Known : DirOf(t) = DirOf(u) => t = u
BY DEF OneTable, Known

(* The tables of an area of the program are among them.                     *)
LEMMA TablesKnown ==
    ASSUME NEW v \in UserAreas
    PROVE  Tables(v) \subseteq Known
BY DEF Known

(* mm_map only maps areas inside user space.                                *)
LEMMA UserAreaFacts ==
    ASSUME segments \in Programs, NEW v \in UserAreas
    PROVE  /\ v \in Areas /\ v.vm_start \in Nat /\ v.vm_end \in Nat
           /\ USERBASE <= v.vm_start /\ v.vm_start < v.vm_end /\ v.vm_end <= USERTOP
<1>1. USER_ACCESS(v.vm_start, v.vm_end)
  BY DEF UserAreas
<1>2. CASE v = StackArea
  <2>1. v.vm_start = USERTOP - USTACKPAGE /\ v.vm_end = USERTOP /\ v.write = TRUE /\ v.stack = TRUE
    BY <1>2 DEF StackArea, Area
  <2>2. v.vm_start \in 0..USERTOP /\ v.vm_end \in 0..USERTOP
    BY <2>1, Numbers
  <2>3. v \in Areas
    BY <1>2, <2>1, <2>2 DEF StackArea, Area, Areas
  <2> QED
    BY <1>1, <2>2, <2>3 DEF USER_ACCESS
<1>3. CASE v # StackArea
  <2>1. PICK s \in segments : v = SegmentArea(s)
    BY <1>3 DEF UserAreas
  <2>2. s \in Header
    BY <2>1, AddressSpaceAssumption
  <2>3. v.vm_start \in Nat /\ v.vm_end \in Nat
    BY <2>1, <2>2, SegmentFacts DEF SegmentArea, Area
  <2>4. v.vm_start \in 0..USERTOP /\ v.vm_end \in 0..USERTOP
    BY <1>1, <2>3, Numbers DEF USER_ACCESS
  <2>5. v \in Areas
    BY <2>1, <2>2, <2>4 DEF SegmentArea, Area, Areas, Header
  <2> QED
    BY <1>1, <2>3, <2>5 DEF USER_ACCESS
<1> QED
  BY <1>2, <1>3

(* The directories of an area are those of its tables.                      *)
LEMMA DirsOfArea ==
    ASSUME segments \in Programs, NEW v \in UserAreas
    PROVE  /\ PD(v.vm_start) \in Nat /\ PD(v.vm_end - 1) \in Nat /\ PD(v.vm_start) <= PD(v.vm_end - 1)
           /\ \A t \in Tables(v) : DirOf(t) \in PD(v.vm_start)..PD(v.vm_end - 1)
           /\ \A dir \in PD(v.vm_start)..PD(v.vm_end - 1) : \E t \in Tables(v) : DirOf(t) = dir
<1>p. PICK first, last : first = v.vm_start /\ last = v.vm_end - 1
  OBVIOUS
<1>0. first \in Nat /\ last \in Nat /\ first <= last
  BY <1>p, UserAreaFacts
<1>1. /\ PT(first) \in Nat /\ PT(last) \in Nat /\ PT(first) <= PT(last)
      /\ PD(first) \in Nat /\ PD(last) \in Nat
      /\ DirOf(PT(first)) = PD(first) /\ DirOf(PT(last)) = PD(last)
  BY <1>0, TableFacts, TablesMonotone
<1>2. PD(first) <= PD(last)
  BY <1>1, DirMonotone
<1>3. Tables(v) = PT(first)..PT(last)
  BY <1>p DEF Tables
<1>4. ASSUME NEW t \in Tables(v) PROVE DirOf(t) \in PD(first)..PD(last)
  <2>1. t \in Nat /\ PT(first) <= t /\ t <= PT(last)
    BY <1>1, <1>3
  <2>2. DirOf(t) \in Nat /\ PD(first) <= DirOf(t) /\ DirOf(t) <= PD(last)
    BY <1>1, <2>1, DirMonotone
  <2> QED
    BY <1>1, <2>2
<1>5. ASSUME NEW dir \in PD(first)..PD(last) PROVE \E t \in Tables(v) : DirOf(t) = dir
  <2>1. CASE dir = PD(first)
    BY <1>1, <1>3, <2>1
  <2>2. CASE dir # PD(first)
    <3>n. PICK n, t : n = NPDEENTRY /\ t = dir * n
      OBVIOUS
    <3>1. n \in Nat \ {0} /\ dir \in Nat /\ PD(first) < dir /\ dir <= PD(last)
      BY <1>1, <2>2, <3>n, Numbers
    <3>2. t \in Nat /\ n * dir = t /\ n * dir <= t /\ t < n * dir + n
      BY <3>1, <3>n
    <3>3. DirOf(t) = dir
      BY <3>1, <3>2, <3>n, Quotient DEF DirOf
    <3>4. PT(first) < t
      BY <1>1, <3>1, <3>n, DivLess DEF DirOf
    <3>5. t <= PT(last)
      BY <1>1, <3>1, <3>n, DivLess DEF DirOf
    <3> QED
      BY <1>1, <1>3, <3>2, <3>3, <3>4, <3>5
  <2> QED
    BY <2>1, <2>2
<1> QED
  BY <1>1, <1>2, <1>4, <1>5, <1>p

(* One directory: what exit_range frees, and in a program with one table    *)
(* for each directory all that it should.                                   *)
LEMMA FreedFacts ==
    ASSUME segments \in Programs, NEW tree \in Emptied, NEW v \in UserAreas,
           NEW dir \in PD(v.vm_start)..PD(v.vm_end - 1)
    PROVE  /\ Freed(tree, v, dir) \in Emptied
           /\ Freed(tree, v, dir).pt \subseteq tree.pt
           /\ OneTable /\ tree.pt \subseteq Known =>
                 /\ Freed(tree, v, dir).lost = tree.lost
                 /\ \A t \in Tables(v) : DirOf(t) = dir => t \notin Freed(tree, v, dir).pt
<1>r. PICK r : r = Freed(tree, v, dir)
  OBVIOUS
<1>l. PICK looked, tables, left :
         /\ looked = {t \in Tables(v) : DirOf(t) = dir}
         /\ tables = {t \in looked \cap tree.pt : \A p \in tree.pages : PT(p) # t}
         /\ left = {t \in tree.pt \ tables : DirOf(t) = dir}
  OBVIOUS
<1>0. /\ tree \in [pd0 : SUBSET Nat, pt : SUBSET Nat, pages : {{}}, lost : SUBSET {"table"}]
      /\ \A t \in tree.pt : DirOf(t) \in tree.pd0
  BY DEF Emptied
<1>1. /\ tree.pd0 \subseteq Nat /\ tree.pt \subseteq Nat /\ tree.pages = {} /\ tree.lost \subseteq {"table"}
      /\ tree = [pd0 |-> tree.pd0, pt |-> tree.pt, pages |-> tree.pages, lost |-> tree.lost]
  BY <1>0
<1>2. tables = looked \cap tree.pt
  BY <1>1, <1>l
<1>3. r = IF dir \notin tree.pd0 THEN tree
          ELSE IF ~(looked \subseteq tree.pt) THEN [tree EXCEPT !.pt = @ \ tables]
          ELSE [pd0 |-> tree.pd0 \ {dir},
                pt |-> tree.pt \ (tables \cup left),
                pages |-> {p \in tree.pages : PT(p) \notin left},
                lost |-> tree.lost \cup (IF left = {} THEN {} ELSE {"table"})
                                   \cup (IF \E p \in tree.pages : PT(p) \in left THEN {"page"} ELSE {})]
  BY <1>r, <1>l, Zenon DEF Freed
<1>4. CASE dir \notin tree.pd0
  <2>1. r = tree
    BY <1>3, <1>4
  <2>2. \A t \in tree.pt : DirOf(t) # dir
    BY <1>0, <1>4
  <2> QED
    BY <1>r, <2>1, <2>2
<1>5. CASE dir \in tree.pd0 /\ ~(looked \subseteq tree.pt)
  <2>1. r = [tree EXCEPT !.pt = @ \ tables]
    BY <1>3, <1>5
  <2>2. r = [pd0 |-> tree.pd0, pt |-> tree.pt \ tables, pages |-> {}, lost |-> tree.lost]
    BY <1>1, <2>1
  <2>3. r \in Emptied
    BY <1>0, <1>1, <2>2 DEF Emptied
  <2>4. ASSUME OneTable, tree.pt \subseteq Known, NEW t \in Tables(v), DirOf(t) = dir PROVE t \notin r.pt
    <3>1. t \in looked
      BY <1>l, <2>4
    <3> QED
      BY <1>2, <2>2, <3>1
  <2> QED
    BY <1>r, <2>2, <2>3, <2>4
<1>6. CASE dir \in tree.pd0 /\ looked \subseteq tree.pt
  <2>1. r = [pd0 |-> tree.pd0 \ {dir}, pt |-> tree.pt \ (tables \cup left), pages |-> {},
             lost |-> tree.lost \cup (IF left = {} THEN {} ELSE {"table"})]
    <3>1. {p \in tree.pages : PT(p) \notin left} = {}
      BY <1>1
    <3>2. (IF \E p \in tree.pages : PT(p) \in left THEN {"page"} ELSE {}) = {}
      BY <1>1
    <3>3. tree.lost \cup (IF left = {} THEN {} ELSE {"table"}) \cup {} = tree.lost \cup (IF left = {} THEN {} ELSE {"table"})
      OBVIOUS
    <3> QED
      BY <1>3, <1>6, <3>1, <3>2, <3>3
  <2>2. \A t \in r.pt : DirOf(t) \in r.pd0
    BY <1>0, <1>1, <1>l, <2>1
  <2>3. r \in Emptied
    BY <1>1, <2>1, <2>2 DEF Emptied
  <2>4. r.pt \subseteq tree.pt
    BY <2>1
  <2>5. ASSUME NEW t \in Tables(v), DirOf(t) = dir PROVE t \notin r.pt
    <3>1. t \in looked
      BY <1>l, <2>5
    <3> QED
      BY <1>2, <1>6, <2>1, <3>1
  <2>6. ASSUME OneTable, tree.pt \subseteq Known PROVE r.lost = tree.lost
    <3>1. PICK t \in Tables(v) : DirOf(t) = dir
      BY DirsOfArea
    <3>2. t \in tables /\ t \in Known
      BY <1>2, <1>6, <1>l, <3>1, TablesKnown
    <3>3. ASSUME NEW u \in left PROVE FALSE
      <4>1. u \in tree.pt /\ u \notin tables /\ DirOf(u) = dir
        BY <1>l, <3>3
      <4>2. u \in Known
        BY <2>6, <4>1
      <4> QED
        BY <2>6, <3>1, <3>2, <4>1, <4>2, OneTableKnown
    <3>4. left = {}
      BY <3>3
    <3> QED
      BY <2>1, <3>4
  <2> QED
    BY <1>r, <2>3, <2>4, <2>5, <2>6
<1> QED
  BY <1>4, <1>5, <1>6
(* All directories of an area.                                              *)
LEMMA RangeFacts ==
    ASSUME segments \in Programs, NEW tree0 \in Emptied, NEW v \in UserAreas
    PROVE  /\ exit_range(tree0, v) \in Emptied
           /\ exit_range(tree0, v).pt \subseteq tree0.pt
           /\ OneTable /\ tree0.pt \subseteq Known =>
                 /\ exit_range(tree0, v).lost = tree0.lost
                 /\ exit_range(tree0, v).pt \cap Tables(v) = {}
<1>f. PICK first, last, n : first = PD(v.vm_start) /\ last = PD(v.vm_end - 1) /\ n = DirCount(v)
  OBVIOUS
<1>0. first \in Nat /\ last \in Nat /\ first <= last /\ n = last - first + 1 /\ n \in Nat
  BY <1>f, DirsOfArea DEF DirCount
<1>1. ASSUME NEW k \in 1..n, NEW u \in Emptied
      PROVE  /\ Freed(u, v, first + k - 1) \in Emptied
             /\ Freed(u, v, first + k - 1).pt \subseteq u.pt
             /\ OneTable /\ u.pt \subseteq Known =>
                   /\ Freed(u, v, first + k - 1).lost = u.lost
                   /\ \A t \in Tables(v) : DirOf(t) = first + k - 1 => t \notin Freed(u, v, first + k - 1).pt
  <2>1. first + k - 1 \in PD(v.vm_start)..PD(v.vm_end - 1)
    BY <1>0, <1>f
  <2> QED
    BY <2>1, FreedFacts
<1>t. PICK step : step = [k \in 1..n |-> [u \in Emptied |-> Freed(u, v, first + k - 1)]]
  OBVIOUS
<1>2. step \in [1..n -> [Emptied -> Emptied]]
  BY <1>1, <1>t
<1>3. PICK g \in [0..n -> Emptied] : g[0] = tree0 /\ \A k \in 1..n : g[k] = step[k][g[k - 1]]
  <2>1. n \in Nat
    BY <1>0
  <2> QED
    <3>1. \E g : IsLoop(g, n, tree0, step, Emptied)
      BY <1>2, <2>1, LoopExists
    <3> QED
      BY <3>1 DEF IsLoop
<1> DEFINE rec(h) == [k \in 0..DirCount(v) |-> IF k = 0 THEN tree0 ELSE Freed(h[k - 1], v, PD(v.vm_start) + k - 1)]
<1>4. \A k \in 1..n : g[k] = Freed(g[k - 1], v, first + k - 1)
  <2>1. \A k \in 1..n : k - 1 \in 0..n /\ g[k - 1] \in Emptied
    BY <1>0
  <2> QED
    BY <1>3, <1>t, <2>1
<1>5. g = rec(g)
  <2>1. \A k \in 0..n : g[k] = IF k = 0 THEN tree0 ELSE Freed(g[k - 1], v, first + k - 1)
    <3> TAKE k \in 0..n
    <3>1. CASE k = 0
      BY <1>3, <3>1
    <3>2. CASE k # 0
      <4>1. k \in 1..n
        BY <1>0, <3>2
      <4> QED
        BY <1>4, <3>2, <4>1
    <3> QED
      BY <3>1, <3>2
  <2>2. g = [k \in 0..n |-> g[k]]
    OBVIOUS
  <2> QED
    BY <1>f, <2>1, <2>2, Zenon
<1>c. PICK tree : tree = CHOOSE h : h = rec(h)
  OBVIOUS
<1>6. tree = rec(tree)
  <2> HIDE DEF rec
  <2> QED
    BY <1>5, <1>c
<1>7. exit_range(tree0, v) = tree[n]
  BY <1>c, <1>f DEF exit_range
<1>8. tree[0] = tree0 /\ \A k \in 1..n : tree[k] = Freed(tree[k - 1], v, first + k - 1)
  BY <1>0, <1>6, <1>f
<1> DEFINE Right(k) == /\ tree[k] \in Emptied /\ tree[k].pt \subseteq tree0.pt
                       /\ OneTable /\ tree0.pt \subseteq Known =>
                             /\ tree[k].lost = tree0.lost
                             /\ \A t \in Tables(v) : DirOf(t) < first + k => t \notin tree[k].pt
           B == {k \in 0..n : Right(k)}
<1>d. \A t \in Tables(v) : DirOf(t) \in first..last
  BY <1>f, DirsOfArea
<1>9. 0 \in B
  BY <1>0, <1>8, <1>d
<1>10. ASSUME NEW k \in 1..n, k - 1 \in B PROVE k \in B
  <2>u. PICK u, r : u = tree[k - 1] /\ r = tree[k]
    OBVIOUS
  <2>1. /\ u \in Emptied /\ u.pt \subseteq tree0.pt
        /\ OneTable /\ tree0.pt \subseteq Known =>
              /\ u.lost = tree0.lost
              /\ \A t \in Tables(v) : DirOf(t) < first + (k - 1) => t \notin u.pt
    BY <1>10, <2>u
  <2>2. r = Freed(u, v, first + k - 1)
    BY <1>8, <2>u
  <2>3. /\ r \in Emptied /\ r.pt \subseteq u.pt
        /\ OneTable /\ u.pt \subseteq Known =>
              /\ r.lost = u.lost
              /\ \A t \in Tables(v) : DirOf(t) = first + k - 1 => t \notin r.pt
    BY <1>1, <2>1, <2>2
  <2>4. ASSUME OneTable, tree0.pt \subseteq Known, NEW t \in Tables(v), DirOf(t) < first + k PROVE t \notin r.pt
    <3>1. DirOf(t) = first + k - 1 \/ DirOf(t) < first + (k - 1)
      BY <1>0, <1>d, <2>4
    <3> QED
      BY <2>1, <2>3, <2>4, <3>1
  <2>5. Right(k)
    BY <2>1, <2>3, <2>4, <2>u
  <2> QED
    BY <2>5
<1>11. \A k \in 0..n : k \in B
  <2> HIDE DEF B
  <2> QED
    BY <1>0, <1>9, <1>10, Upward
<1>12. Right(n)
  BY <1>0, <1>11
<1>13. ASSUME OneTable, tree0.pt \subseteq Known PROVE tree[n].pt \cap Tables(v) = {}
  <2>1. \A t \in Tables(v) : DirOf(t) < first + n
    BY <1>0, <1>d
  <2> QED
    BY <1>12, <1>13, <2>1
<1> QED
  BY <1>7, <1>12, <1>13

(* All areas: every page is freed, and every table of a program that has    *)
(* one for each directory.                                                  *)
LEMMA MmapFacts ==
    ASSUME segments \in Programs, NEW m,
           Ordered(mmap_list[m]), \A v \in Range(mmap_list[m]) : v \in UserAreas,
           pd0[m] \subseteq Nat, pt[m] \subseteq Nat, pages[m] \subseteq Nat,
           \A p \in pages[m] : Reached(m, p) /\ \E v \in Range(mmap_list[m]) : In(v, p),
           \A t \in pt[m] : DirOf(t) \in pd0[m] /\ \E v \in Range(mmap_list[m]) : t \in Tables(v)
    PROVE  /\ exit_mmap(m) \in Emptied
           /\ OneTable => exit_mmap(m).pt = {} /\ exit_mmap(m).lost = {}
<1>l. PICK list, n, start :
         /\ list = mmap_list[m] /\ n = Len(list)
         /\ start = [pd0 |-> pd0[m], pt |-> pt[m],
                     pages |-> pages[m] \ UNION {Unmapped(m, v) : v \in Range(list)}, lost |-> {}]
  OBVIOUS
<1>0. /\ n \in Nat /\ DOMAIN list = 1..n /\ \A k \in 1..n : list[k] \in Range(list) /\ list[k] \in UserAreas
      /\ \A v \in Range(list) : \E i \in 1..n : v = list[i]
  BY <1>l, OrderedFacts
<1>1. start.pages = {}
  <2>1. ASSUME NEW p \in pages[m] PROVE p \in UNION {Unmapped(m, v) : v \in Range(list)}
    <3>1. PICK v \in Range(list) : In(v, p)
      BY <1>l, <2>1
    <3>2. v \in Areas
      BY <1>l, OrderedFacts
    <3>3. p \in Unmapped(m, v)
      BY <3>1, <3>2, UnmappedFacts
    <3> QED
      BY <3>3
  <2> QED
    BY <1>l, <2>1
<1>2. start = [pd0 |-> pd0[m], pt |-> pt[m], pages |-> {}, lost |-> {}]
  BY <1>l, <1>1
<1>3. start \in Emptied
  BY <1>2 DEF Emptied
<1>4. start.pt \subseteq Known
  BY <1>2, <1>l DEF Known
<1>5. ASSUME NEW k \in 1..n, NEW u \in Emptied
      PROVE  /\ exit_range(u, list[k]) \in Emptied /\ exit_range(u, list[k]).pt \subseteq u.pt
             /\ OneTable /\ u.pt \subseteq Known =>
                   /\ exit_range(u, list[k]).lost = u.lost
                   /\ exit_range(u, list[k]).pt \cap Tables(list[k]) = {}
  BY <1>0, RangeFacts
<1>t. PICK step : step = [k \in 1..n |-> [u \in Emptied |-> exit_range(u, list[k])]]
  OBVIOUS
<1>6. step \in [1..n -> [Emptied -> Emptied]]
  BY <1>5, <1>t
<1>7. PICK g \in [0..n -> Emptied] : g[0] = start /\ \A k \in 1..n : g[k] = step[k][g[k - 1]]
  <2>1. n \in Nat
    BY <1>0
  <2> QED
    <3>1. \E g : IsLoop(g, n, start, step, Emptied)
      BY <1>3, <1>6, <2>1, LoopExists
    <3> QED
      BY <3>1 DEF IsLoop
<1> DEFINE rec(h) == [k \in 0..n |-> IF k = 0 THEN start ELSE exit_range(h[k - 1], list[k])]
<1>8. \A k \in 1..n : g[k] = exit_range(g[k - 1], list[k])
  <2>1. \A k \in 1..n : k - 1 \in 0..n /\ g[k - 1] \in Emptied
    BY <1>0
  <2> QED
    BY <1>7, <1>t, <2>1
<1>9. g = rec(g)
  <2>1. \A k \in 0..n : g[k] = IF k = 0 THEN start ELSE exit_range(g[k - 1], list[k])
    <3> TAKE k \in 0..n
    <3>1. CASE k = 0
      BY <1>7, <3>1
    <3>2. CASE k # 0
      <4>1. k \in 1..n
        BY <1>0, <3>2
      <4> QED
        BY <1>8, <3>2, <4>1
    <3> QED
      BY <3>1, <3>2
  <2>2. g = [k \in 0..n |-> g[k]]
    OBVIOUS
  <2> QED
    BY <2>1, <2>2, Zenon
<1>c. PICK tree : tree = CHOOSE h : h = rec(h)
  OBVIOUS
<1>10. tree = rec(tree)
  <2> HIDE DEF rec
  <2> QED
    BY <1>9, <1>c
<1>11. exit_mmap(m) = tree[n]
  BY <1>c, <1>l, Zenon DEF exit_mmap
<1>12. tree[0] = start /\ \A k \in 1..n : tree[k] = exit_range(tree[k - 1], list[k])
  BY <1>0, <1>10
<1> DEFINE Right(k) == /\ tree[k] \in Emptied /\ tree[k].pt \subseteq start.pt
                       /\ OneTable => /\ tree[k].lost = {}
                                      /\ \A i \in 1..k : tree[k].pt \cap Tables(list[i]) = {}
           B == {k \in 0..n : Right(k)}
<1>13. 0 \in B
  BY <1>0, <1>2, <1>3, <1>12
<1>14. ASSUME NEW k \in 1..n, k - 1 \in B PROVE k \in B
  <2>u. PICK u, r : u = tree[k - 1] /\ r = tree[k]
    OBVIOUS
  <2>1. /\ u \in Emptied /\ u.pt \subseteq start.pt
        /\ OneTable => u.lost = {} /\ \A i \in 1..(k - 1) : u.pt \cap Tables(list[i]) = {}
    BY <1>14, <2>u
  <2>2. r = exit_range(u, list[k])
    BY <1>12, <2>u
  <2>3. /\ r \in Emptied /\ r.pt \subseteq u.pt
        /\ OneTable => r.lost = u.lost /\ r.pt \cap Tables(list[k]) = {}
    BY <1>4, <1>5, <2>1, <2>2
  <2>4. ASSUME OneTable, NEW i \in 1..k PROVE r.pt \cap Tables(list[i]) = {}
    <3>1. i = k \/ i \in 1..(k - 1)
      OBVIOUS
    <3> QED
      BY <2>1, <2>3, <2>4, <3>1
  <2>5. Right(k)
    BY <2>1, <2>3, <2>4, <2>u
  <2> QED
    BY <2>5
<1>15. \A k \in 0..n : k \in B
  <2> HIDE DEF B
  <2> QED
    BY <1>0, <1>13, <1>14, Upward
<1>16. Right(n)
  BY <1>0, <1>15
<1>17. ASSUME OneTable PROVE tree[n].pt = {}
  <2>1. ASSUME NEW t \in tree[n].pt PROVE FALSE
    <3>1. t \in pt[m]
      BY <1>2, <1>16, <2>1
    <3>2. PICK v \in Range(list) : t \in Tables(v)
      BY <1>l, <3>1
    <3>3. PICK i \in 1..n : v = list[i]
      BY <1>0
    <3> QED
      BY <1>16, <1>17, <2>1, <3>2, <3>3
  <2> QED
    BY <2>1
<1> QED
  BY <1>11, <1>16, <1>17

-----------------------------------------------------------------------------
(***************************************************************************)
(* The invariant.                                                          *)
(***************************************************************************)

SpaceTypes ==
    /\ segments \in Programs
    /\ label \in [Mm -> {"free", "load", "pages", "stack", "user", "fork", "dup", "copy", "fail"}]
    /\ mmap_list \in [Mm -> Seq(Areas)] /\ mmap_cache \in [Mm -> Areas \cup {NULL}]
    /\ from \in [Mm -> Mm \cup {NULL}] /\ rest \in [Mm -> Seq(Areas)]
    /\ at \in [Mm -> Nat] /\ end \in [Mm -> Nat]
    /\ pd0 \in [Mm -> SUBSET Nat] /\ pt \in [Mm -> SUBSET Nat] /\ pages \in [Mm -> SUBSET Nat]

(* The list of an mm, and what its tables lead to.                          *)
ListOK(m) ==
    /\ Ordered(mmap_list[m]) /\ \A v \in Range(mmap_list[m]) : v \in UserAreas
    /\ mmap_cache[m] \in Range(mmap_list[m]) \cup {NULL}
TreeOK(m) ==
    /\ \A p \in pages[m] : Reached(m, p) /\ \E v \in Range(mmap_list[m]) : In(v, p)
    /\ \A t \in pt[m] : DirOf(t) \in pd0[m] /\ \E v \in Range(mmap_list[m]) : t \in Tables(v)

(* A loop of load_icode stays in its area.                                  *)
LoadOK(m) ==
    /\ label[m] = "free" => mmap_list[m] = <<>>
    /\ label[m] \in {"pages", "stack"} =>
          \E v \in Range(mmap_list[m]) : v.vm_start <= at[m] /\ end[m] <= v.vm_end

(* A copy has the last areas of the mm it is made from, and their pages, of *)
(* the first one those below at.                                            *)
CopyOK(m) ==
    /\ from[m] # NULL => label[m] \in {"dup", "copy", "fail"} /\ label[from[m]] = "fork"
    /\ label[m] \in {"dup", "copy"} =>
          from[m] # NULL /\ mmap_list[from[m]] = rest[m] \o mmap_list[m]
    /\ label[m] = "dup" => pages[m] = {p \in pages[from[m]] : \E v \in Range(mmap_list[m]) : In(v, p)}
    /\ label[m] = "copy" =>
          /\ mmap_list[m] # <<>>
          /\ mmap_list[m][1].vm_start <= at[m] /\ end[m] = mmap_list[m][1].vm_end
          /\ pages[m] = {p \in pages[from[m]] : /\ In(mmap_list[m][1], p) => p < at[m]
                                                /\ \E v \in Range(mmap_list[m]) : In(v, p)}

MmOK(m) == ListOK(m) /\ TreeOK(m) /\ LoadOK(m) /\ CopyOK(m)

SpacesIInv ==
    /\ SpaceTypes
    /\ \A m \in Mm : MmOK(m)
    /\ \A c, d \in Mm : from[c] = from[d] /\ from[c] # NULL => c = d
    /\ lost \subseteq {"directory", "table"} /\ OnlyDirectoriesLost
    /\ stopped \in {"no", "overlap", "memory"} /\ (~AnyOrder => stopped # "overlap")

-----------------------------------------------------------------------------
(* What a step leaves alone.                                                *)
Same(q) ==
    /\ label'[q] = label[q] /\ mmap_list'[q] = mmap_list[q] /\ mmap_cache'[q] = mmap_cache[q]
    /\ from'[q] = from[q] /\ rest'[q] = rest[q] /\ at'[q] = at[q] /\ end'[q] = end[q]
    /\ pd0'[q] = pd0[q] /\ pt'[q] = pt[q] /\ pages'[q] = pages[q]

(* Steps that keep the headers keep the areas they allow.                   *)
LEMMA SameProgram ==
    ASSUME segments' = segments
    PROVE  UserAreas' = UserAreas /\ (OneTable' <=> OneTable)
BY DEF OneTable, UserAreas

(* The list of an mm holds if only its cache moves inside it,               *)
LEMMA KeepsList ==
    ASSUME segments' = segments, NEW m, ListOK(m), mmap_list'[m] = mmap_list[m],
           mmap_cache'[m] \in Range(mmap_list[m]) \cup {NULL}
    PROVE  ListOK(m)'
BY SameProgram DEF ListOK

(* the page tables if nothing about them changes,                           *)
LEMMA KeepsTree ==
    ASSUME NEW m, TreeOK(m), mmap_list'[m] = mmap_list[m],
           pd0'[m] = pd0[m], pt'[m] = pt[m], pages'[m] = pages[m]
    PROVE  TreeOK(m)'
BY DEF TreeOK, Reached

(* and all of an mm if a step changes neither it nor the one it is copied   *)
(* from.                                                                    *)
LEMMA Untouched ==
    ASSUME segments' = segments, NEW q, MmOK(q), Same(q), from[q] # NULL => Same(from[q])
    PROVE  MmOK(q)'
<1>1. ListOK(q)' /\ TreeOK(q)'
  BY KeepsList, KeepsTree DEF MmOK, Same, ListOK
<1>2. LoadOK(q)'
  BY DEF MmOK, LoadOK, Same
<1>3. CopyOK(q)'
  <2>1. CASE from[q] = NULL
    BY <2>1 DEF MmOK, CopyOK, Same
  <2>2. CASE from[q] # NULL
    BY <2>2 DEF MmOK, CopyOK, Same
  <2> QED
    BY <2>1, <2>2
<1> QED
  BY <1>1, <1>2, <1>3 DEF MmOK

(* A step of one mm that others are not copied from.                        *)
LEMMA OneMoves ==
    ASSUME SpacesIInv, segments' = segments, from' = from, lost' = lost,
           NEW m \in Mm, label[m] # "fork", SpaceTypes', \A q \in Mm \ {m} : Same(q), MmOK(m)',
           stopped' \in {"no", "overlap", "memory"}, ~AnyOrder => stopped' # "overlap"
    PROVE  SpacesIInv'
<1>1. ASSUME NEW q \in Mm PROVE MmOK(q)'
  <2>1. CASE q = m
    BY <2>1
  <2>2. CASE q # m
    <3>1. MmOK(q) /\ Same(q)
      BY <2>2 DEF SpacesIInv
    <3>2. ASSUME from[q] # NULL PROVE Same(from[q])
      <4>1. from[q] \in Mm /\ label[from[q]] = "fork"
        BY <3>1, <3>2 DEF SpacesIInv, SpaceTypes, MmOK, CopyOK
      <4> QED
        BY <4>1
    <3> QED
      BY <3>1, <3>2, Untouched
  <2> QED
    BY <2>1, <2>2
<1>2. \A c, d \in Mm : from'[c] = from'[d] /\ from'[c] # NULL => c = d
  BY DEF SpacesIInv
<1>3. lost' \subseteq {"directory", "table"} /\ OnlyDirectoriesLost'
  BY SameProgram DEF SpacesIInv, OnlyDirectoriesLost
<1> QED
  BY <1>1, <1>2, <1>3 DEF SpacesIInv

(* Who is not being copied has nothing to fear from CopyOK.                 *)
LEMMA NoCopy ==
    ASSUME NEW m, from'[m] = NULL, label'[m] \notin {"dup", "copy"}
    PROVE  CopyOK(m)'
BY DEF CopyOK

(* Whoever is not being copied has no source.                               *)
LEMMA OnlyCopiesHaveSources ==
    ASSUME SpacesIInv, NEW m \in Mm, label[m] \notin {"dup", "copy", "fail"}
    PROVE  from[m] = NULL
BY DEF SpacesIInv, MmOK, CopyOK

(* mm_create keeps the invariant: a new mm is empty.                        *)
LEMMA CreateKeeps ==
    ASSUME SpacesIInv, NEW m \in Mm, mm_create(m), segments' = segments, stopped = "no"
    PROVE  SpacesIInv'
<1>1. SpaceTypes /\ MmOK(m) /\ from[m] = NULL
  BY OnlyCopiesHaveSources DEF SpacesIInv, mm_create
<1>2. /\ label[m] = "free" /\ label' = [label EXCEPT ![m] = "load"]
      /\ UNCHANGED <<areaVars, loopVars, treeVars, lost, stopped>>
  BY DEF mm_create, Becomes
<1>3. label'[m] = "load" /\ SpaceTypes'
  BY <1>1, <1>2 DEF SpaceTypes, areaVars, loopVars, treeVars
<1>4. \A q \in Mm \ {m} : Same(q)
  BY <1>1, <1>2 DEF Same, SpaceTypes, areaVars, loopVars, treeVars
<1>5. ListOK(m)' /\ TreeOK(m)'
  BY <1>1, <1>2, KeepsList, KeepsTree DEF MmOK, ListOK, areaVars, treeVars
<1>6. LoadOK(m)'
  BY <1>3 DEF LoadOK
<1>7. CopyOK(m)'
  BY <1>1, <1>2, <1>3, NoCopy DEF loopVars
<1>8. MmOK(m)'
  BY <1>5, <1>6, <1>7 DEF MmOK
<1> QED
  BY <1>2, <1>3, <1>4, <1>8, OneMoves DEF loopVars
(* mm_map of an area that is the program's if it is one of user space at    *)
(* all: the new area does not overlap, and the loop behind it stays inside. *)
LEMMA MapKeeps ==
    ASSUME SpacesIInv, NEW m \in Mm, label[m] = "load", segments' = segments, stopped = "no",
           NEW vma, vma.vm_start \in Nat, NEW first, NEW last, NEW then \in {"pages", "stack"},
           USER_ACCESS(vma.vm_start, vma.vm_end) =>
              /\ vma \in UserAreas /\ first \in Nat /\ last \in Nat
              /\ vma.vm_start <= first /\ last <= vma.vm_end,
           ~AnyOrder => \A i \in DOMAIN mmap_list[m] : mmap_list[m][i].vm_start <= vma.vm_start,
           mm_map(m, vma, first, last, then)
    PROVE  SpacesIInv'
<1> DEFINE lo == vma.vm_start
           list == mmap_list[m]
           found == find_vma(list, mmap_cache[m], lo)
           room == USER_ACCESS(lo, vma.vm_end) /\ found = NULL
<1>1. SpaceTypes /\ MmOK(m) /\ from[m] = NULL
  BY OnlyCopiesHaveSources DEF SpacesIInv
<1>2. ListOK(m) /\ TreeOK(m) /\ Ordered(list) /\ mmap_cache[m] \in Range(list) \cup {NULL}
  BY <1>1 DEF MmOK, ListOK
<1>3. \/ found = NULL /\ \A v \in Range(list) : ~In(v, lo)
      \/ found \in Range(list)
  BY <1>2, FindFacts
<1>4. /\ mmap_cache' = [mmap_cache EXCEPT ![m] = Cached(@, found)]
      /\ UNCHANGED <<from, rest, treeVars, lost>>
  BY DEF mm_map
<1>5. mmap_cache'[m] \in Range(list) \cup {NULL} /\ mmap_cache' \in [Mm -> Areas \cup {NULL}]
  <2>1. Cached(mmap_cache[m], found) \in Range(list) \cup {NULL}
    BY <1>2, <1>3 DEF Cached
  <2>2. Range(list) \subseteq Areas
    BY <1>2, OrderedFacts
  <2> QED
    BY <1>1, <1>4, <2>1, <2>2 DEF SpaceTypes
<1>6. \A q \in Mm \ {m} : mmap_cache'[q] = mmap_cache[q]
  BY <1>1, <1>4 DEF SpaceTypes
<1>7. CASE Becomes(m, "fail") /\ UNCHANGED <<mmap_list, at, end, stopped>>
  <2>1. label' = [label EXCEPT ![m] = "fail"] /\ label'[m] = "fail"
    BY <1>1, <1>7 DEF Becomes, SpaceTypes
  <2>2. SpaceTypes'
    BY <1>1, <1>4, <1>5, <1>7, <2>1 DEF SpaceTypes, treeVars
  <2>3. \A q \in Mm \ {m} : Same(q)
    BY <1>1, <1>4, <1>6, <1>7, <2>1 DEF Same, SpaceTypes, treeVars
  <2>4. ListOK(m)' /\ TreeOK(m)'
    BY <1>2, <1>4, <1>5, <1>7, KeepsList, KeepsTree DEF treeVars
  <2>5. LoadOK(m)' /\ CopyOK(m)'
    BY <1>1, <1>4, <2>1, NoCopy DEF LoadOK
  <2> QED
    BY <1>4, <1>7, <2>2, <2>3, <2>4, <2>5, OneMoves DEF MmOK
<1>8. CASE room /\ Overlaps(list, vma) /\ stopped' = "overlap" /\ UNCHANGED <<label, mmap_list, at, end>>
  <2>1. vma \in Areas
    BY <1>1, <1>8, UserAreaFacts DEF SpaceTypes
  <2>2. AnyOrder
    <3>1. SUFFICES ASSUME ~AnyOrder PROVE FALSE
      OBVIOUS
    <3>2. \A i \in DOMAIN list : list[i].vm_start <= vma.vm_start
      BY <3>1
    <3>3. NULL \notin Range(list)
      BY <1>2, OrderedFacts, Numbers
    <3>4. \A v \in Range(list) : ~In(v, vma.vm_start)
      BY <1>3, <1>8, <3>3
    <3>5. ~Overlaps(list, vma)
      <4> HIDE DEF list
      <4> QED
        BY <1>2, <2>1, <3>2, <3>4, NoOverlapAtEnd
    <3> QED
      BY <1>8, <3>5
  <2>3. SpaceTypes'
    BY <1>1, <1>4, <1>5, <1>8 DEF SpaceTypes, treeVars
  <2>4. \A q \in Mm \ {m} : Same(q)
    BY <1>1, <1>4, <1>6, <1>8 DEF Same, treeVars
  <2>5. ListOK(m)' /\ TreeOK(m)'
    BY <1>2, <1>4, <1>5, <1>8, KeepsList, KeepsTree DEF treeVars
  <2>6. LoadOK(m)' /\ CopyOK(m)'
    BY <1>1, <1>4, <1>8, NoCopy DEF LoadOK
  <2> QED
    BY <1>4, <1>8, <2>2, <2>3, <2>4, <2>5, <2>6, OneMoves DEF MmOK
<1>9. CASE /\ room /\ ~Overlaps(list, vma)
           /\ mmap_list' = [mmap_list EXCEPT ![m] = insert_vma_struct(@, vma)]
           /\ at' = [at EXCEPT ![m] = first] /\ end' = [end EXCEPT ![m] = last]
           /\ Becomes(m, then) /\ UNCHANGED stopped
  <2>1. /\ vma \in UserAreas /\ first \in Nat /\ last \in Nat
        /\ vma.vm_start <= first /\ last <= vma.vm_end
    BY <1>9
  <2>2. vma \in Areas
    BY <1>1, <2>1, UserAreaFacts DEF SpaceTypes
  <2> DEFINE longer == insert_vma_struct(list, vma)
  <2>3. Ordered(longer) /\ Range(longer) = Range(list) \cup {vma}
    BY <1>2, <1>9, <2>2, InsertFacts
  <2>4. /\ mmap_list'[m] = longer /\ at'[m] = first /\ end'[m] = last
        /\ label' = [label EXCEPT ![m] = then] /\ label'[m] = then
    BY <1>1, <1>9 DEF SpaceTypes, Becomes
  <2>5. longer \in Seq(Areas)
    BY <2>3 DEF Ordered
  <2>6. SpaceTypes'
    BY <1>1, <1>4, <1>5, <1>9, <2>1, <2>4, <2>5 DEF SpaceTypes, treeVars
  <2>7. \A q \in Mm \ {m} : Same(q)
    BY <1>1, <1>4, <1>6, <1>9, <2>4 DEF Same, SpaceTypes, treeVars
  <2>8. ListOK(m)'
    <3> HIDE DEF longer
    <3> QED
      BY <1>2, <1>5, <2>1, <2>3, <2>4, SameProgram DEF ListOK
  <2>9. TreeOK(m)'
    <3> HIDE DEF longer
    <3> QED
      BY <1>2, <1>4, <2>3, <2>4 DEF TreeOK, Reached, treeVars
  <2>10. LoadOK(m)'
    <3> HIDE DEF longer
    <3> QED
      BY <2>1, <2>3, <2>4 DEF LoadOK
  <2>11. CopyOK(m)'
    BY <1>1, <1>4, <2>4, NoCopy
  <2> QED
    BY <1>4, <1>9, <2>6, <2>7, <2>8, <2>9, <2>10, <2>11, OneMoves DEF MmOK
<1> QED
  <2>1. \/ Becomes(m, "fail") /\ UNCHANGED <<mmap_list, at, end, stopped>>
        \/ room /\ Overlaps(list, vma) /\ stopped' = "overlap" /\ UNCHANGED <<label, mmap_list, at, end>>
        \/ /\ room /\ ~Overlaps(list, vma)
           /\ mmap_list' = [mmap_list EXCEPT ![m] = insert_vma_struct(@, vma)]
           /\ at' = [at EXCEPT ![m] = first] /\ end' = [end EXCEPT ![m] = last]
           /\ Becomes(m, then) /\ UNCHANGED stopped
    BY DEF mm_map
  <2> QED
    BY <1>7, <1>8, <1>9, <2>1

(* A segment is mapped where it belongs, or not at all.                     *)
LEMMA SegmentKeeps ==
    ASSUME SpacesIInv, NEW m \in Mm, load_segment(m), segments' = segments, stopped = "no"
    PROVE  SpacesIInv'
<1>1. PICK s \in segments : /\ AnyOrder \/ Behind(m, s)
                            /\ mm_map(m, SegmentArea(s), FirstPage(s), LoopEnd(s), "pages")
  BY DEF load_segment
<1>2. s \in Header
  BY AddressSpaceAssumption DEF SpacesIInv, SpaceTypes
<1> DEFINE vma == SegmentArea(s)
<1>3. vma.vm_start = FirstPage(s) /\ vma.vm_end = EndPage(s) /\ vma.vm_start \in Nat
  BY <1>2, SegmentFacts DEF SegmentArea, Area
<1>4. USER_ACCESS(vma.vm_start, vma.vm_end) =>
         /\ vma \in UserAreas /\ FirstPage(s) \in Nat /\ LoopEnd(s) \in Nat
         /\ vma.vm_start <= FirstPage(s) /\ LoopEnd(s) <= vma.vm_end
  <2> HAVE USER_ACCESS(vma.vm_start, vma.vm_end)
  <2>1. vma \in UserAreas
    BY DEF UserAreas
  <2>2. FirstPage(s) < EndPage(s)
    BY <1>3 DEF USER_ACCESS
  <2> QED
    BY <1>2, <1>3, <2>1, <2>2, SegmentFacts
<1>5. ~AnyOrder => \A i \in DOMAIN mmap_list[m] : mmap_list[m][i].vm_start <= vma.vm_start
  BY <1>1, <1>3 DEF Behind
<1> QED
  BY <1>1, <1>3, <1>4, <1>5, MapKeeps DEF load_segment

(* So is the stack.                                                         *)
LEMMA StackKeeps ==
    ASSUME SpacesIInv, NEW m \in Mm, load_stack(m), segments' = segments, stopped = "no"
    PROVE  SpacesIInv'
<1>1. /\ StackArea.vm_start = USERTOP - USTACKPAGE /\ StackArea.vm_end = USERTOP
      /\ StackArea.vm_start \in Nat
  BY Numbers DEF StackArea, Area
<1>2. USER_ACCESS(StackArea.vm_start, StackArea.vm_end) =>
         /\ StackArea \in UserAreas /\ USERTOP - StackMapped \in Nat /\ USERTOP \in Nat
         /\ StackArea.vm_start <= USERTOP - StackMapped /\ USERTOP <= StackArea.vm_end
  <2> HAVE USER_ACCESS(StackArea.vm_start, StackArea.vm_end)
  <2>1. StackArea \in UserAreas
    BY DEF UserAreas
  <2> QED
    BY <1>1, <2>1, Numbers
<1>3. ASSUME ~AnyOrder, NEW i \in DOMAIN mmap_list[m]
      PROVE  mmap_list[m][i].vm_start <= StackArea.vm_start
  <2>1. ListOK(m)
    BY DEF SpacesIInv, MmOK
  <2>2. mmap_list[m][i] \in UserAreas
    BY <2>1, OrderedFacts DEF ListOK
  <2>3. CASE mmap_list[m][i] = StackArea
    BY <1>1, <2>3
  <2>4. CASE \E s \in segments : mmap_list[m][i] = SegmentArea(s)
    <3>1. PICK s \in segments : mmap_list[m][i] = SegmentArea(s)
      BY <2>4
    <3>2. FirstPage(s) <= StackArea.vm_start
      BY <1>3, AddressSpaceAssumption DEF SpacesIInv, SpaceTypes
    <3> QED
      BY <3>1, <3>2 DEF SegmentArea, Area
  <2> QED
    BY <2>2, <2>3, <2>4 DEF UserAreas
<1>4. label[m] = "load" /\ mm_map(m, StackArea, USERTOP - StackMapped, USERTOP, "stack")
  BY DEF load_stack
<1> QED
  BY <1>1, <1>2, <1>3, <1>4, MapKeeps

(* Adding a table or page to one mm leaves the others alone.                *)
LEMMA OneGrows ==
    ASSUME NEW f \in [Mm -> SUBSET Nat], NEW m \in Mm, NEW x \in Nat, NEW g,
           g = f \/ g = [f EXCEPT ![m] = @ \cup {x}]
    PROVE  g \in [Mm -> SUBSET Nat] /\ \A q \in Mm \ {m} : g[q] = f[q]
<1>1. CASE g = f
  BY <1>1
<1>2. CASE g = [f EXCEPT ![m] = @ \cup {x}]
  <2>1. f[m] \cup {x} \in SUBSET Nat
    OBVIOUS
  <2> QED
    BY <1>2, <2>1
<1> QED
  BY <1>1, <1>2

(* get_pte for a page of an area, and the page itself if it is mapped then. *)
LEMMA PteTree ==
    ASSUME SpaceTypes, NEW m \in Mm, TreeOK(m), mmap_list' = mmap_list,
           NEW page \in Nat, NEW v \in Range(mmap_list[m]), v \in Areas, In(v, page),
           \/ get_pte(m, page, TRUE) /\ pages' = [pages EXCEPT ![m] = @ \cup {page}]
           \/ (UNCHANGED <<pd0, pt>> \/ get_pte(m, page, TRUE) \/ get_pte(m, page, FALSE)) /\ pages' = pages
    PROVE  /\ TreeOK(m)'
           /\ pd0' \in [Mm -> SUBSET Nat] /\ pt' \in [Mm -> SUBSET Nat] /\ pages' \in [Mm -> SUBSET Nat]
           /\ \A q \in Mm \ {m} : pd0'[q] = pd0[q] /\ pt'[q] = pt[q] /\ pages'[q] = pages[q]
<1>1. PT(page) \in Nat /\ PD(page) \in Nat /\ DirOf(PT(page)) = PD(page)
  BY TableFacts
<1>2. PT(page) \in Tables(v)
  <2>1. /\ v.vm_start \in Nat /\ v.vm_end \in Nat /\ v.vm_start <= page /\ page < v.vm_end
        /\ v.vm_end - 1 \in Nat /\ page <= v.vm_end - 1
    BY AreaTypes DEF In
  <2>2. PT(v.vm_start) <= PT(page) /\ PT(page) <= PT(v.vm_end - 1)
    BY <2>1, TablesMonotone
  <2>3. PT(v.vm_start) \in Nat /\ PT(v.vm_end - 1) \in Nat
    BY <2>1, TableFacts
  <2> QED
    BY <1>1, <2>2, <2>3 DEF Tables
<1>3. /\ \/ pd0' = [pd0 EXCEPT ![m] = @ \cup {PD(page)}] /\ pt' = [pt EXCEPT ![m] = @ \cup {PT(page)}]
         \/ pd0' = [pd0 EXCEPT ![m] = @ \cup {PD(page)}] /\ pt' = pt /\ pages' = pages
         \/ pd0' = pd0 /\ pt' = pt /\ pages' = pages
      /\ pages' = pages \/ pages' = [pages EXCEPT ![m] = @ \cup {page}]
  BY DEF get_pte
<1>4. /\ pd0' \in [Mm -> SUBSET Nat] /\ pt' \in [Mm -> SUBSET Nat] /\ pages' \in [Mm -> SUBSET Nat]
      /\ \A q \in Mm \ {m} : pd0'[q] = pd0[q] /\ pt'[q] = pt[q] /\ pages'[q] = pages[q]
  <2>1. pd0 \in [Mm -> SUBSET Nat] /\ pt \in [Mm -> SUBSET Nat] /\ pages \in [Mm -> SUBSET Nat]
    BY DEF SpaceTypes
  <2>2. pd0' \in [Mm -> SUBSET Nat] /\ \A q \in Mm \ {m} : pd0'[q] = pd0[q]
    BY <1>1, <1>3, <2>1, OneGrows
  <2>3. pt' \in [Mm -> SUBSET Nat] /\ \A q \in Mm \ {m} : pt'[q] = pt[q]
    BY <1>1, <1>3, <2>1, OneGrows
  <2>4. pages' \in [Mm -> SUBSET Nat] /\ \A q \in Mm \ {m} : pages'[q] = pages[q]
    BY <1>3, <2>1, OneGrows
  <2> QED
    BY <2>2, <2>3, <2>4
<1>5. /\ \/ pd0'[m] = pd0[m] \cup {PD(page)} /\ pt'[m] = pt[m] \cup {PT(page)}
         \/ pd0'[m] = pd0[m] \cup {PD(page)} /\ pt'[m] = pt[m] /\ pages'[m] = pages[m]
         \/ pd0'[m] = pd0[m] /\ pt'[m] = pt[m] /\ pages'[m] = pages[m]
      /\ pages'[m] = pages[m] \/ pages'[m] = pages[m] \cup {page}
  BY <1>3 DEF SpaceTypes
<1>6. TreeOK(m)'
  <2>1. ASSUME NEW p \in pages'[m] PROVE PT(p) \in pt'[m] /\ \E w \in Range(mmap_list[m]) : In(w, p)
    <3>1. CASE p \in pages[m]
      <4>1. PT(p) \in pt[m] /\ \E w \in Range(mmap_list[m]) : In(w, p)
        BY <3>1 DEF TreeOK, Reached
      <4> QED
        BY <1>5, <4>1
    <3>2. CASE p \notin pages[m]
      <4>1. p = page /\ pt'[m] = pt[m] \cup {PT(page)}
        BY <1>5, <2>1, <3>2
      <4> QED
        BY <4>1
    <3> QED
      BY <3>1, <3>2
  <2>2. ASSUME NEW t \in pt'[m] PROVE DirOf(t) \in pd0'[m] /\ \E w \in Range(mmap_list[m]) : t \in Tables(w)
    <3>1. CASE t \in pt[m]
      <4>1. DirOf(t) \in pd0[m] /\ \E w \in Range(mmap_list[m]) : t \in Tables(w)
        BY <3>1 DEF TreeOK
      <4> QED
        BY <1>5, <4>1
    <3>2. CASE t \notin pt[m]
      <4>1. t = PT(page) /\ pd0'[m] = pd0[m] \cup {PD(page)}
        BY <1>5, <2>2, <3>2
      <4> QED
        BY <1>1, <1>2, <4>1
    <3> QED
      BY <3>1, <3>2
  <2> QED
    BY <2>1, <2>2 DEF TreeOK, Reached
<1> QED
  BY <1>4, <1>6

(* pgdir_alloc_page builds from the root down, and stays in its area.       *)
LEMMA AllocKeeps ==
    ASSUME SpacesIInv, NEW m \in Mm, pgdir_alloc_page(m), segments' = segments, stopped = "no"
    PROVE  SpacesIInv'
<1>1. SpaceTypes /\ MmOK(m) /\ from[m] = NULL
  BY OnlyCopiesHaveSources DEF SpacesIInv, pgdir_alloc_page
<1>2. ListOK(m) /\ TreeOK(m) /\ label[m] \in {"pages", "stack"} /\ at[m] < end[m]
      /\ UNCHANGED <<mmap_list, mmap_cache, from, rest, end, lost>>
  BY <1>1 DEF MmOK, pgdir_alloc_page, areaVars
<1>3. PICK v \in Range(mmap_list[m]) : v.vm_start <= at[m] /\ end[m] <= v.vm_end
  BY <1>1, <1>2 DEF MmOK, LoadOK
<1>4. v \in Areas /\ v.vm_start \in Nat /\ v.vm_end \in Nat /\ at[m] \in Nat /\ end[m] \in Nat
  BY <1>1, <1>2, <1>3, OrderedFacts, AreaTypes DEF ListOK, SpaceTypes
<1>5. In(v, at[m])
  BY <1>2, <1>3, <1>4 DEF In
<1>6. \/ get_pte(m, at[m], TRUE) /\ pages' = [pages EXCEPT ![m] = @ \cup {at[m]}]
      \/ (UNCHANGED <<pd0, pt>> \/ get_pte(m, at[m], TRUE) \/ get_pte(m, at[m], FALSE)) /\ pages' = pages
  BY DEF pgdir_alloc_page
<1>7. /\ TreeOK(m)'
      /\ pd0' \in [Mm -> SUBSET Nat] /\ pt' \in [Mm -> SUBSET Nat] /\ pages' \in [Mm -> SUBSET Nat]
      /\ \A q \in Mm \ {m} : pd0'[q] = pd0[q] /\ pt'[q] = pt[q] /\ pages'[q] = pages[q]
  BY <1>1, <1>2, <1>4, <1>5, <1>6, PteTree
<1>8. \/ at' = [at EXCEPT ![m] = @ + 1] /\ UNCHANGED <<label, stopped>>
      \/ stopped' = "memory" /\ UNCHANGED <<label, at>>
      \/ label' = [label EXCEPT ![m] = "fail"] /\ UNCHANGED <<stopped, at>>
  BY DEF pgdir_alloc_page, Becomes
<1>9. /\ label' \in [Mm -> {"free", "load", "pages", "stack", "user", "fork", "dup", "copy", "fail"}]
      /\ at' \in [Mm -> Nat]
      /\ \A q \in Mm \ {m} : label'[q] = label[q] /\ at'[q] = at[q]
      /\ label'[m] = "fail" \/ (label'[m] = label[m] /\ at'[m] \in {at[m], at[m] + 1})
  <2> USE DEF SpaceTypes
  <2>1. CASE at' = [at EXCEPT ![m] = @ + 1] /\ UNCHANGED label
    <3>1. at' \in [Mm -> Nat] /\ at'[m] = at[m] + 1 /\ \A q \in Mm \ {m} : at'[q] = at[q]
      BY <1>1, <2>1
    <3> QED
      BY <1>1, <2>1, <3>1
  <2>2. CASE UNCHANGED <<label, at>>
    BY <1>1, <2>2
  <2>3. CASE label' = [label EXCEPT ![m] = "fail"] /\ UNCHANGED at
    BY <1>1, <2>3
  <2> QED
    BY <1>8, <2>1, <2>2, <2>3
<1>10. SpaceTypes'
  BY <1>1, <1>2, <1>7, <1>9 DEF SpaceTypes
<1>11. \A q \in Mm \ {m} : Same(q)
  BY <1>2, <1>7, <1>9 DEF Same
<1>12. ListOK(m)'
  BY <1>2, KeepsList DEF ListOK
<1>13. LoadOK(m)'
  BY <1>2, <1>3, <1>4, <1>9 DEF LoadOK
<1>14. CopyOK(m)'
  BY <1>1, <1>2, <1>9, NoCopy
<1>15. stopped' \in {"no", "overlap", "memory"} /\ (~AnyOrder => stopped' # "overlap")
  BY <1>8
<1> QED
  BY <1>2, <1>7, <1>10, <1>11, <1>12, <1>13, <1>14, <1>15, OneMoves DEF MmOK

(* The end of a loop of load_icode changes the label only.                  *)
LEMMA LoadedKeeps ==
    ASSUME SpacesIInv, NEW m \in Mm, loaded(m), segments' = segments, stopped = "no"
    PROVE  SpacesIInv'
<1>1. SpaceTypes /\ MmOK(m) /\ from[m] = NULL
  BY OnlyCopiesHaveSources DEF SpacesIInv, loaded
<1>2. /\ label[m] \in {"pages", "stack"}
      /\ label' = [label EXCEPT ![m] = "load"] \/ label' = [label EXCEPT ![m] = "user"]
      /\ at' = [at EXCEPT ![m] = 0] /\ end' = [end EXCEPT ![m] = 0]
      /\ UNCHANGED <<mmap_list, mmap_cache, from, rest, pd0, pt, pages, lost, stopped>>
  BY DEF loaded, Becomes, areaVars, treeVars
<1>3. label'[m] \in {"load", "user"} /\ SpaceTypes'
  BY <1>1, <1>2 DEF SpaceTypes
<1>4. \A q \in Mm \ {m} : Same(q)
  BY <1>1, <1>2 DEF Same, SpaceTypes
<1>5. ListOK(m)' /\ TreeOK(m)'
  BY <1>1, <1>2, KeepsList, KeepsTree DEF MmOK, ListOK
<1>6. LoadOK(m)' /\ CopyOK(m)'
  BY <1>1, <1>2, <1>3, NoCopy DEF LoadOK
<1> QED
  BY <1>2, <1>3, <1>4, <1>5, <1>6, OneMoves DEF MmOK

(* A system call only moves the cache.                                      *)
LEMMA AccessKeeps ==
    ASSUME SpacesIInv, NEW m \in Mm, access(m), segments' = segments, stopped = "no"
    PROVE  SpacesIInv'
<1>1. SpaceTypes /\ MmOK(m) /\ from[m] = NULL
  BY OnlyCopiesHaveSources DEF SpacesIInv, access
<1>2. label[m] = "user" /\ UNCHANGED <<label, mmap_list, from, rest, at, end, pd0, pt, pages, lost, stopped>>
  BY DEF access, loopVars, treeVars
<1>3. PICK page \in USERBASE..(USERTOP - 1) :
         mmap_cache' = [mmap_cache EXCEPT ![m] = Cached(@, find_vma(mmap_list[m], @, page))]
  BY DEF access
<1>4. page \in Nat
  BY Numbers
<1>5. ListOK(m) /\ TreeOK(m)
  BY <1>1 DEF MmOK
<1>6. Cached(mmap_cache[m], find_vma(mmap_list[m], mmap_cache[m], page)) \in Range(mmap_list[m]) \cup {NULL}
  BY <1>4, <1>5, FindFacts DEF ListOK, Cached
<1>7. mmap_cache'[m] \in Range(mmap_list[m]) \cup {NULL} /\ mmap_cache' \in [Mm -> Areas \cup {NULL}]
  <2>1. Range(mmap_list[m]) \subseteq Areas
    BY <1>5, OrderedFacts DEF ListOK
  <2> QED
    BY <1>1, <1>3, <1>6, <2>1 DEF SpaceTypes
<1>8. SpaceTypes'
  BY <1>1, <1>2, <1>7 DEF SpaceTypes
<1>9. \A q \in Mm \ {m} : Same(q)
  BY <1>1, <1>2, <1>3 DEF Same, SpaceTypes
<1>10. ListOK(m)' /\ TreeOK(m)'
  BY <1>2, <1>5, <1>7, KeepsList, KeepsTree
<1>11. LoadOK(m)' /\ CopyOK(m)'
  BY <1>1, <1>2, NoCopy DEF LoadOK
<1> QED
  BY <1>2, <1>8, <1>9, <1>10, <1>11, OneMoves DEF MmOK, SpacesIInv
(* A step of one mm and of the one it is copied from or to.                 *)
LEMMA TwoMove ==
    ASSUME SpacesIInv, segments' = segments, NEW m \in Mm, NEW f \in Mm \cup {NULL},
           \A q \in Mm \ {m, f} : Same(q) /\ from[q] \notin {m} \cup (Mm \cap {f}),
           MmOK(m)', f # NULL => MmOK(f)'
    PROVE  \A q \in Mm : MmOK(q)'
<1> SUFFICES ASSUME NEW q \in Mm PROVE MmOK(q)'
  OBVIOUS
<1>1. CASE q = m \/ q = f
  <2>1. q # NULL
    BY Numbers
  <2> QED
    BY <1>1, <2>1
<1>2. CASE q \notin {m, f}
  <2>1. MmOK(q) /\ Same(q) /\ from[q] \notin {m} \cup (Mm \cap {f})
    BY <1>2 DEF SpacesIInv
  <2>2. from[q] # NULL => Same(from[q])
    <3> HAVE from[q] # NULL
    <3>1. from[q] \in Mm
      BY DEF SpacesIInv, SpaceTypes
    <3> QED
      BY <2>1, <3>1
  <2> QED
    BY <2>1, <2>2, Untouched
<1> QED
  BY <1>1, <1>2

(* At the start of a copy the whole list is still to come.                  *)
LEMMA ForkKeeps ==
    ASSUME SpacesIInv, NEW m \in Mm, NEW c \in Mm, fork(m, c), segments' = segments, stopped = "no"
    PROVE  SpacesIInv'
<1>1. /\ label[m] = "user" /\ label[c] = "free" /\ m # c
      /\ label' = [label EXCEPT ![m] = "fork", ![c] = "dup"]
      /\ from' = [from EXCEPT ![c] = m]
      /\ rest' = [rest EXCEPT ![c] = mmap_list[m]]
      /\ UNCHANGED <<mmap_list, mmap_cache, at, end, pd0, pt, pages, lost, stopped>>
  BY DEF fork, areaVars, treeVars
<1>2. SpaceTypes /\ MmOK(m) /\ MmOK(c) /\ from[m] = NULL /\ from[c] = NULL
  BY <1>1, OnlyCopiesHaveSources DEF SpacesIInv
<1>3. /\ label'[m] = "fork" /\ label'[c] = "dup" /\ from'[c] = m /\ from'[m] = NULL
      /\ rest'[c] = mmap_list[m]
      /\ \A q \in Mm \ {m, c} : Same(q)
      /\ \A q \in Mm \ {c} : from'[q] = from[q]
  BY <1>1, <1>2 DEF Same, SpaceTypes
<1>4. label' \in [Mm -> {"free", "load", "pages", "stack", "user", "fork", "dup", "copy", "fail"}]
  BY <1>1, <1>2 DEF SpaceTypes
<1>5. from' \in [Mm -> Mm \cup {NULL}] /\ rest' \in [Mm -> Seq(Areas)]
  <2>1. mmap_list[m] \in Seq(Areas)
    BY <1>2 DEF SpaceTypes
  <2> QED
    BY <1>1, <1>2, <2>1 DEF SpaceTypes
<1>6. SpaceTypes'
  BY <1>1, <1>2, <1>4, <1>5 DEF SpaceTypes
<1>7. MmOK(m)'
  <2>1. ListOK(m)' /\ TreeOK(m)'
    BY <1>1, <1>2, KeepsList, KeepsTree DEF MmOK, ListOK
  <2>2. LoadOK(m)' /\ CopyOK(m)'
    BY <1>3, NoCopy DEF LoadOK
  <2> QED
    BY <2>1, <2>2 DEF MmOK
<1>8. MmOK(c)'
  <2>1. ListOK(c)' /\ TreeOK(c)'
    BY <1>1, <1>2, KeepsList, KeepsTree DEF MmOK, ListOK
  <2>2. LoadOK(c)'
    BY <1>3 DEF LoadOK
  <2>3. mmap_list[c] = <<>> /\ Range(mmap_list[c]) = {}
    BY <1>1, <1>2 DEF MmOK, LoadOK, Range
  <2>4. pages[c] = {}
    BY <1>2, <2>3 DEF MmOK, TreeOK
  <2>5. mmap_list[m] = mmap_list[m] \o <<>>
    <3>1. mmap_list[m] \in Seq(Areas)
      BY <1>2 DEF SpaceTypes
    <3> QED
      BY <3>1
  <2>6. m # NULL
    BY Numbers
  <2> QED
    BY <1>1, <1>3, <2>1, <2>2, <2>3, <2>4, <2>5, <2>6 DEF MmOK, CopyOK
<1>9. \A q \in Mm : MmOK(q)'
  <2>1. \A q \in Mm \ {m, c} : from[q] \notin {m} \cup (Mm \cap {c})
    <3> TAKE q \in Mm \ {m, c}
    <3>1. from[q] # NULL => label[from[q]] = "fork"
      BY DEF SpacesIInv, MmOK, CopyOK
    <3> QED
      BY <1>1, <3>1, Numbers
  <2> QED
    BY <1>3, <1>7, <1>8, <2>1, TwoMove
<1>10. \A d, e \in Mm : from'[d] = from'[e] /\ from'[d] # NULL => d = e
  <2>1. \A q \in Mm : from[q] # m
    <3> TAKE q \in Mm
    <3>1. from[q] # NULL => label[from[q]] = "fork"
      BY DEF SpacesIInv, MmOK, CopyOK
    <3> QED
      BY <1>1, <3>1, Numbers
  <2> QED
    BY <1>3, <2>1 DEF SpacesIInv
<1>11. lost' \subseteq {"directory", "table"} /\ OnlyDirectoriesLost'
  BY <1>1, SameProgram DEF SpacesIInv, OnlyDirectoriesLost
<1> QED
  BY <1>1, <1>6, <1>9, <1>10, <1>11 DEF SpacesIInv

(* The mm that is copied.                                                   *)
LEMMA SourceFacts ==
    ASSUME SpacesIInv, NEW c \in Mm, label[c] \in {"dup", "copy"}
    PROVE  /\ from[c] \in Mm /\ from[c] # c /\ label[from[c]] = "fork" /\ from[from[c]] = NULL
           /\ MmOK(c) /\ MmOK(from[c])
           /\ mmap_list[from[c]] = rest[c] \o mmap_list[c]
           /\ Ordered(mmap_list[c]) /\ Ordered(mmap_list[from[c]])
           /\ rest[c] \in Seq(Areas) /\ mmap_list[c] \in Seq(Areas)
<1>1. MmOK(c) /\ SpaceTypes
  BY DEF SpacesIInv
<1>2. from[c] \in Mm /\ from[c] # c /\ label[from[c]] = "fork" /\ mmap_list[from[c]] = rest[c] \o mmap_list[c]
  BY <1>1 DEF MmOK, CopyOK, SpaceTypes
<1>3. MmOK(from[c]) /\ from[from[c]] = NULL
  BY <1>2, OnlyCopiesHaveSources DEF SpacesIInv
<1> QED
  BY <1>1, <1>2, <1>3 DEF MmOK, ListOK, SpaceTypes

(* The last area of the rest is before all those that are copied.           *)
LEMMA RestFacts ==
    ASSUME NEW r \in Seq(Areas), NEW l \in Seq(Areas), Ordered(r \o l), r # <<>>
    PROVE  /\ Last(r) \in Areas /\ Last(r) \in Range(r \o l)
           /\ USER_ACCESS(Last(r).vm_start, Last(r).vm_end)
           /\ \A i \in DOMAIN l : Last(r).vm_end <= l[i].vm_start
           /\ Front(r) \in Seq(Areas) /\ Front(r) \o (<<Last(r)>> \o l) = r \o l
<1> DEFINE n == Len(r)
           k == Len(l)
           both == r \o l
<1>1. n \in Nat \ {0} /\ k \in Nat /\ both \in Seq(Areas) /\ Len(both) = n + k
  OBVIOUS
<1>2. \A i \in 1..n : both[i] = r[i]
  OBVIOUS
<1>3. \A i \in 1..k : both[n + i] = l[i]
  OBVIOUS
<1>4. Last(r) = both[n] /\ n \in 1..Len(both) /\ Last(r) \in Areas
  BY <1>1, <1>2 DEF Last
<1>5. Last(r) \in Range(both) /\ USER_ACCESS(Last(r).vm_start, Last(r).vm_end)
  BY <1>1, <1>4 DEF Ordered, Range
<1>6. ASSUME NEW i \in DOMAIN l PROVE Last(r).vm_end <= l[i].vm_start
  <2>1. i \in 1..k /\ n + i \in 1..Len(both) /\ n < n + i
    BY <1>1
  <2>2. DOMAIN both = 1..Len(both)
    BY <1>1
  <2>3. both[n].vm_end <= both[n + i].vm_start
    <3> HIDE DEF both, n
    <3>1. \A x, y \in DOMAIN both : x < y => both[x].vm_end <= both[y].vm_start
      BY DEF both, Ordered
    <3> QED
      BY <1>4, <2>1, <2>2, <3>1
  <2>4. both[n + i] = l[i]
    BY <1>3, <2>1
  <2> QED
    BY <1>4, <2>3, <2>4
<1>7. Front(r) \in Seq(Areas) /\ Front(r) \o <<Last(r)>> = r
  <2>1. 1 \in 1..n /\ n \in 1..n /\ 1 \in Int /\ n - 1 \in Int
    BY <1>1
  <2>2. SubSeq(r, 1, n) = SubSeq(r, 1, n - 1) \o <<r[n]>>
    BY <2>1, SubSeqRecursiveSecond
  <2>3. SubSeq(r, 1, n) = r
    BY SubSeqFull
  <2>4. \A i \in 1..(n - 1) : r[i] \in Areas
    BY <1>1
  <2>5. SubSeq(r, 1, n - 1) \in Seq(Areas)
    BY <2>1, <2>4, SubSeqProperties
  <2> QED
    BY <2>2, <2>3, <2>5 DEF Front, Last
<1>8. Front(r) \o (<<Last(r)>> \o l) = r \o l
  <2>1. <<Last(r)>> \in Seq(Areas)
    BY <1>4
  <2>2. (Front(r) \o <<Last(r)>>) \o l = Front(r) \o (<<Last(r)>> \o l)
    BY <1>7, <2>1, ConcatAssociative
  <2> QED
    BY <1>7, <2>2
<1> QED
  BY <1>4, <1>5, <1>6, <1>7, <1>8

(* dup_mmap moves the last area from what is left to what is copied.        *)
LEMMA DupKeeps ==
    ASSUME SpacesIInv, NEW c \in Mm, dup_mmap(c), segments' = segments, stopped = "no"
    PROVE  SpacesIInv'
<1> DEFINE vma == Last(rest[c])
           list == mmap_list[c]
           source == from[c]
<1>1. /\ label[c] = "dup" /\ rest[c] # <<>>
      /\ UNCHANGED <<mmap_cache, from, pd0, pt, pages, lost>>
  BY DEF dup_mmap, treeVars
<1>2. /\ source \in Mm /\ source # c /\ label[source] = "fork"
      /\ MmOK(c) /\ MmOK(source)
      /\ mmap_list[source] = rest[c] \o list
      /\ Ordered(list) /\ Ordered(mmap_list[source])
      /\ rest[c] \in Seq(Areas) /\ list \in Seq(Areas)
  BY <1>1, SourceFacts
<1>3. /\ vma \in Areas /\ vma \in Range(mmap_list[source])
      /\ USER_ACCESS(vma.vm_start, vma.vm_end)
      /\ \A i \in DOMAIN list : vma.vm_end <= list[i].vm_start
      /\ Front(rest[c]) \in Seq(Areas) /\ Front(rest[c]) \o (<<vma>> \o list) = mmap_list[source]
  <2> HIDE DEF list, source
  <2> QED
    BY <1>1, <1>2, RestFacts
<1>4. ~Overlaps(list, vma) /\ insert_vma_struct(list, vma) = <<vma>> \o list
  <2> HIDE DEF list, vma
  <2> QED
    BY <1>2, <1>3, InsertFront
<1>5. SpaceTypes /\ vma.vm_start \in Nat /\ vma.vm_end \in Nat /\ vma.vm_start < vma.vm_end
  BY <1>3, AreaTypes DEF SpacesIInv, USER_ACCESS
<1>6. CASE Becomes(c, "fail") /\ UNCHANGED <<mmap_list, rest, at, end, stopped>>
  <2>1. label'[c] = "fail" /\ SpaceTypes'
    BY <1>1, <1>5, <1>6 DEF Becomes, SpaceTypes
  <2>2. \A q \in Mm \ {c} : Same(q)
    BY <1>1, <1>5, <1>6 DEF Same, Becomes, SpaceTypes
  <2>3. ListOK(c)' /\ TreeOK(c)'
    BY <1>1, <1>2, <1>6, KeepsList, KeepsTree DEF MmOK, ListOK
  <2>4. LoadOK(c)' /\ CopyOK(c)'
    BY <1>1, <1>2, <2>1, <2>2 DEF LoadOK, CopyOK, Same
  <2> QED
    BY <1>1, <1>6, <2>1, <2>2, <2>3, <2>4, OneMoves DEF MmOK
<1>7. CASE /\ mmap_list' = [mmap_list EXCEPT ![c] = insert_vma_struct(@, vma)]
           /\ rest' = [rest EXCEPT ![c] = Front(@)]
           /\ at' = [at EXCEPT ![c] = vma.vm_start]
           /\ end' = [end EXCEPT ![c] = vma.vm_end]
           /\ Becomes(c, "copy") /\ UNCHANGED stopped
  <2> DEFINE longer == <<vma>> \o list
  <2>1. Ordered(longer) /\ Range(longer) = Range(list) \cup {vma}
    <3> HIDE DEF list, vma
    <3> QED
      BY <1>2, <1>3, <1>4, InsertFacts
  <2>2. longer[1] = vma /\ longer # <<>> /\ longer \in Seq(Areas)
    BY <1>2, <1>3
  <2>3. /\ mmap_list' = [mmap_list EXCEPT ![c] = longer]
        /\ label' = [label EXCEPT ![c] = "copy"]
        /\ rest' = [rest EXCEPT ![c] = Front(rest[c])]
    BY <1>4, <1>7 DEF Becomes
  <2> HIDE DEF longer, vma, list
  <2>4. /\ mmap_list'[c] = longer /\ label'[c] = "copy" /\ rest'[c] = Front(rest[c])
        /\ at'[c] = vma.vm_start /\ end'[c] = vma.vm_end
    BY <1>5, <1>7, <2>3 DEF SpaceTypes
  <2>5. SpaceTypes'
    BY <1>1, <1>3, <1>5, <1>7, <2>2, <2>3 DEF SpaceTypes
  <2>6. \A q \in Mm \ {c} : Same(q)
    BY <1>1, <1>5, <1>7, <2>3 DEF Same, SpaceTypes
  <2>7. ListOK(c)'
    <3>1. ListOK(c) /\ ListOK(source)
      BY <1>2 DEF MmOK
    <3> QED
      BY <1>1, <1>3, <2>1, <2>4, <3>1, SameProgram DEF ListOK, list
  <2>8. TreeOK(c)'
    <3>1. TreeOK(c)
      BY <1>2 DEF MmOK
    <3> QED
      BY <1>1, <2>1, <2>4, <3>1 DEF TreeOK, Reached, list
  <2>9. LoadOK(c)'
    BY <2>4 DEF LoadOK
  <2>10. pages[c] = {p \in pages[source] : /\ In(vma, p) => p < vma.vm_start
                                           /\ \E v \in Range(longer) : In(v, p)}
    <3>1. pages[c] = {p \in pages[source] : \E v \in Range(list) : In(v, p)}
      BY <1>1, <1>2 DEF MmOK, CopyOK, list
    <3>2. ASSUME NEW p \in pages[source]
          PROVE  (\E v \in Range(list) : In(v, p))
                    <=> (In(vma, p) => p < vma.vm_start) /\ \E v \in Range(longer) : In(v, p)
      <4>1. p \in Nat
        BY <1>2, <1>5, <3>2 DEF SpaceTypes
      <4>2. ASSUME NEW v \in Range(list), In(v, p) PROVE ~In(vma, p)
        <5>1. PICK i \in 1..Len(list) : v = list[i]
          BY <1>2, <4>2, OrderedFacts
        <5>2. vma.vm_end <= v.vm_start /\ v.vm_start \in Nat
          BY <1>2, <1>3, <5>1, AreaTypes, OrderedFacts
        <5> QED
          BY <1>5, <4>1, <4>2, <5>2 DEF In
      <4>3. In(vma, p) => ~(p < vma.vm_start)
        BY <1>5, <4>1 DEF In
      <4> QED
        BY <2>1, <4>2, <4>3
    <3> QED
      BY <3>1, <3>2
  <2>11. CopyOK(c)'
    <3>1. from'[c] = source /\ label'[source] = "fork" /\ mmap_list'[source] = mmap_list[source]
          /\ pages'[source] = pages[source] /\ pages'[c] = pages[c]
      BY <1>1, <1>2, <2>6 DEF Same
    <3>2. source # NULL
      BY <1>2, Numbers
    <3>3. mmap_list'[source] = rest'[c] \o mmap_list'[c]
      BY <1>3, <2>4, <3>1 DEF longer
    <3>4. vma.vm_start <= at'[c] /\ end'[c] = vma.vm_end
      BY <1>5, <2>4
    <3> HIDE DEF source
    <3> QED
      BY <2>2, <2>4, <2>10, <3>1, <3>2, <3>3, <3>4 DEF CopyOK
  <2> QED
    BY <1>1, <1>7, <2>5, <2>6, <2>7, <2>8, <2>9, <2>11, OneMoves DEF MmOK
<1> QED
  <2>1. \/ Becomes(c, "fail") /\ UNCHANGED <<mmap_list, rest, at, end, stopped>>
        \/ Overlaps(list, vma)
        \/ /\ mmap_list' = [mmap_list EXCEPT ![c] = insert_vma_struct(@, vma)]
           /\ rest' = [rest EXCEPT ![c] = Front(@)]
           /\ at' = [at EXCEPT ![c] = vma.vm_start]
           /\ end' = [end EXCEPT ![c] = vma.vm_end]
           /\ Becomes(c, "copy") /\ UNCHANGED stopped
    BY DEF dup_mmap
  <2> QED
    BY <1>4, <1>6, <1>7, <2>1

(* A round of copy_range copies the page it passes, or passes pages that    *)
(* are not there.                                                           *)
LEMMA CopyKeeps ==
    ASSUME SpacesIInv, NEW c \in Mm, copy_range(c), segments' = segments, stopped = "no"
    PROVE  SpacesIInv'
<1> DEFINE source == from[c]
           vma == mmap_list[c][1]
           page == at[c]
           CopiedTo(x) == {p \in pages[source] : /\ In(vma, p) => p < x
                                             /\ \E v \in Range(mmap_list[c]) : In(v, p)}
<1>1. /\ label[c] = "copy" /\ page < end[c]
      /\ UNCHANGED <<mmap_list, mmap_cache, from, rest, end, lost>>
  BY DEF copy_range, areaVars
<1>2. /\ source \in Mm /\ source # c /\ label[source] = "fork" /\ source # NULL
      /\ MmOK(c) /\ MmOK(source) /\ Ordered(mmap_list[c])
      /\ mmap_list[source] = rest[c] \o mmap_list[c]
  BY <1>1, SourceFacts, Numbers
<1>3. /\ mmap_list[c] # <<>> /\ vma.vm_start <= page /\ end[c] = vma.vm_end
      /\ pages[c] = CopiedTo(page)
  BY <1>1, <1>2 DEF MmOK, CopyOK
<1>4. SpaceTypes /\ page \in Nat /\ pages[source] \subseteq Nat
  BY <1>2 DEF SpacesIInv, SpaceTypes
<1>5. vma \in Range(mmap_list[c]) /\ vma \in Areas /\ vma.vm_start \in Nat /\ vma.vm_end \in Nat
  <2>1. Len(mmap_list[c]) \in Nat /\ Len(mmap_list[c]) # 0
    BY <1>2, <1>3 DEF Ordered
  <2>2. 1 \in 1..Len(mmap_list[c])
    BY <2>1
  <2>3. vma \in Range(mmap_list[c]) /\ vma \in Areas
    BY <1>2, <2>2, OrderedFacts
  <2> QED
    BY <2>3, AreaTypes
<1>6. In(vma, page)
  BY <1>1, <1>3, <1>4, <1>5 DEF In
<1>7. NextPage(source, page) \in Nat /\ NextPage(source, page) > page
  BY <1>4, NextPageFacts
<1>8. ASSUME NEW p \in pages[source], page < p, p < NextPage(source, page) PROVE FALSE
  <2>1. Reached(source, p)
    BY <1>2 DEF MmOK, TreeOK
  <2>2. p \in Nat
    BY <1>4
  <2>3. CASE Reached(source, page)
    <3>1. NextPage(source, page) = page + 1
      BY <1>4, <2>3, NextPageFacts
    <3> QED
      BY <1>4, <1>8, <2>2, <3>1
  <2>4. CASE ~Reached(source, page)
    <3>1. ~Reached(source, p)
      BY <1>4, <1>8, <2>2, <2>4, NextPageFacts
    <3> QED
      BY <2>1, <3>1
  <2> QED
    BY <2>3, <2>4
<1>9. CopiedTo(NextPage(source, page)) = CopiedTo(page) \cup (pages[source] \cap {page})
  <2>1. ASSUME NEW p \in pages[source]
        PROVE  p < NextPage(source, page) <=> p < page \/ p = page
    <3>1. p \in Nat
      BY <1>4
    <3> QED
      BY <1>4, <1>7, <1>8, <3>1
  <2>2. page \in pages[source] => \E v \in Range(mmap_list[c]) : In(v, page)
    BY <1>5, <1>6
  <2> QED
    BY <1>6, <2>1, <2>2
<1> HIDE DEF CopiedTo, page, source, vma
<1>10. ASSUME SpaceTypes', TreeOK(c)', \A q \in Mm \ {c} : Same(q),
              \/ label'[c] = "fail"
              \/ label'[c] = "copy" /\ at'[c] \in Nat /\ page <= at'[c] /\ pages'[c] = CopiedTo(at'[c]),
              stopped' \in {"no", "memory"}
       PROVE  SpacesIInv'
  <2>1. ListOK(c)'
    BY <1>1, <1>2, KeepsList DEF MmOK, ListOK
  <2>2. LoadOK(c)'
    BY <1>10 DEF LoadOK
  <2>3. /\ from'[c] = source /\ label'[source] = "fork" /\ mmap_list'[source] = mmap_list[source]
        /\ pages'[source] = pages[source]
    BY <1>1, <1>2, <1>10 DEF Same, source
  <2>4. CopyOK(c)'
    <3>1. CASE label'[c] = "fail"
      BY <2>3, <3>1 DEF CopyOK
    <3>2. CASE label'[c] = "copy" /\ at'[c] \in Nat /\ page <= at'[c] /\ pages'[c] = CopiedTo(at'[c])
      <4>1. mmap_list'[c] = mmap_list[c] /\ rest'[c] = rest[c] /\ end'[c] = end[c]
        BY <1>1
      <4>2. vma.vm_start <= at'[c]
        BY <1>3, <1>4, <1>5, <3>2
      <4> QED
        BY <1>2, <1>3, <2>3, <3>2, <4>1, <4>2 DEF CopyOK, CopiedTo, vma
    <3> QED
      BY <1>10, <3>1, <3>2
  <2> QED
    BY <1>1, <1>10, <2>1, <2>2, <2>4, OneMoves DEF MmOK
<1>11. CASE /\ page \notin pages[source]
            /\ at' = [at EXCEPT ![c] = NextPage(source, page)] /\ UNCHANGED <<label, treeVars, stopped>>
  <2>1. UNCHANGED <<label, pd0, pt, pages, stopped>>
    BY <1>11 DEF treeVars
  <2>2. SpaceTypes' /\ at'[c] = NextPage(source, page)
    BY <1>1, <1>4, <1>7, <1>11, <2>1 DEF SpaceTypes
  <2>3. \A q \in Mm \ {c} : Same(q)
    BY <1>1, <1>4, <1>11, <2>1 DEF Same, SpaceTypes
  <2>4. TreeOK(c)'
    BY <1>1, <1>2, <2>1, KeepsTree DEF MmOK
  <2>5. pages'[c] = CopiedTo(at'[c])
    BY <1>3, <1>9, <1>11, <2>1, <2>2
  <2> QED
    BY <1>1, <1>4, <1>7, <1>10, <2>1, <2>2, <2>3, <2>4, <2>5
<1>12. CASE /\ page \in pages[source]
            /\ get_pte(c, page, TRUE) /\ pages' = [pages EXCEPT ![c] = @ \cup {page}]
            /\ at' = [at EXCEPT ![c] = NextPage(source, page)] /\ UNCHANGED <<label, stopped>>
  <2>1. /\ TreeOK(c)'
        /\ pd0' \in [Mm -> SUBSET Nat] /\ pt' \in [Mm -> SUBSET Nat] /\ pages' \in [Mm -> SUBSET Nat]
        /\ \A q \in Mm \ {c} : pd0'[q] = pd0[q] /\ pt'[q] = pt[q] /\ pages'[q] = pages[q]
    BY <1>1, <1>2, <1>4, <1>5, <1>6, <1>12, PteTree DEF MmOK
  <2>2. SpaceTypes' /\ at'[c] = NextPage(source, page)
    BY <1>1, <1>4, <1>7, <1>12, <2>1 DEF SpaceTypes
  <2>3. \A q \in Mm \ {c} : Same(q)
    BY <1>1, <1>4, <1>12, <2>1 DEF Same, SpaceTypes
  <2>4. pages'[c] = pages[c] \cup {page}
    BY <1>4, <1>12 DEF SpaceTypes
  <2>5. pages'[c] = CopiedTo(at'[c])
    BY <1>3, <1>9, <1>12, <2>2, <2>4
  <2> QED
    BY <1>1, <1>4, <1>7, <1>10, <1>12, <2>1, <2>2, <2>3, <2>5
<1>13. CASE /\ get_pte(c, page, FALSE) /\ label' = [label EXCEPT ![c] = "fail"]
            /\ UNCHANGED <<pages, at, stopped>>
  <2>1. /\ TreeOK(c)'
        /\ pd0' \in [Mm -> SUBSET Nat] /\ pt' \in [Mm -> SUBSET Nat] /\ pages' \in [Mm -> SUBSET Nat]
        /\ \A q \in Mm \ {c} : pd0'[q] = pd0[q] /\ pt'[q] = pt[q] /\ pages'[q] = pages[q]
    BY <1>1, <1>2, <1>4, <1>5, <1>6, <1>13, PteTree DEF MmOK
  <2>2. SpaceTypes' /\ label'[c] = "fail"
    BY <1>1, <1>4, <1>13, <2>1 DEF SpaceTypes
  <2>3. \A q \in Mm \ {c} : Same(q)
    BY <1>1, <1>4, <1>13, <2>1 DEF Same, SpaceTypes
  <2> QED
    BY <1>10, <1>13, <2>1, <2>2, <2>3
<1>14. CASE get_pte(c, page, TRUE) /\ stopped' = "memory" /\ UNCHANGED <<label, pages, at>>
  <2>1. /\ TreeOK(c)'
        /\ pd0' \in [Mm -> SUBSET Nat] /\ pt' \in [Mm -> SUBSET Nat] /\ pages' \in [Mm -> SUBSET Nat]
        /\ \A q \in Mm \ {c} : pd0'[q] = pd0[q] /\ pt'[q] = pt[q] /\ pages'[q] = pages[q]
    BY <1>1, <1>2, <1>4, <1>5, <1>6, <1>14, PteTree DEF MmOK
  <2>2. SpaceTypes'
    BY <1>1, <1>4, <1>14, <2>1 DEF SpaceTypes
  <2>3. \A q \in Mm \ {c} : Same(q)
    BY <1>1, <1>4, <1>14, <2>1 DEF Same, SpaceTypes
  <2>4. at'[c] = page /\ page <= page
    BY <1>4, <1>14 DEF page
  <2> QED
    BY <1>1, <1>3, <1>4, <1>10, <1>14, <2>1, <2>2, <2>3, <2>4
<1> QED
  <2>1. \/ /\ page \notin pages[source]
           /\ at' = [at EXCEPT ![c] = NextPage(source, page)] /\ UNCHANGED <<label, treeVars, stopped>>
        \/ /\ page \in pages[source]
           /\ get_pte(c, page, TRUE) /\ pages' = [pages EXCEPT ![c] = @ \cup {page}]
           /\ at' = [at EXCEPT ![c] = NextPage(source, page)] /\ UNCHANGED <<label, stopped>>
        \/ /\ get_pte(c, page, FALSE) /\ label' = [label EXCEPT ![c] = "fail"]
           /\ UNCHANGED <<pages, at, stopped>>
        \/ get_pte(c, page, TRUE) /\ stopped' = "memory" /\ UNCHANGED <<label, pages, at>>
    BY DEF copy_range, Becomes, page, source
  <2> QED
    BY <1>11, <1>12, <1>13, <1>14, <2>1

(* At its end all pages of the area have been copied.                       *)
LEMMA AreaCopied ==
    ASSUME SpacesIInv, NEW c \in Mm, label[c] = "copy", at[c] >= end[c]
    PROVE  pages[c] = {p \in pages[from[c]] : \E v \in Range(mmap_list[c]) : In(v, p)}
<1>1. /\ from[c] \in Mm /\ MmOK(c) /\ Ordered(mmap_list[c])
  BY SourceFacts
<1>2. /\ mmap_list[c] # <<>> /\ end[c] = mmap_list[c][1].vm_end
      /\ pages[c] = {p \in pages[from[c]] : /\ In(mmap_list[c][1], p) => p < at[c]
                                            /\ \E v \in Range(mmap_list[c]) : In(v, p)}
  BY <1>1 DEF MmOK, CopyOK
<1>3. SpaceTypes /\ at[c] \in Nat /\ end[c] \in Nat
  BY DEF SpacesIInv, SpaceTypes
<1>4. ASSUME NEW p \in pages[from[c]], In(mmap_list[c][1], p) PROVE p < at[c]
  <2>1. p \in Nat
    BY <1>1, <1>3 DEF SpaceTypes
  <2> QED
    BY <1>2, <1>3, <1>4, <2>1 DEF In
<1> QED
  BY <1>2, <1>4

(* dup_mmap goes on with the next area, or the copy is done.                *)
LEMMA CopiedKeeps ==
    ASSUME SpacesIInv, NEW c \in Mm, copied(c), segments' = segments, stopped = "no"
    PROVE  SpacesIInv'
<1>0. PICK source : source = from[c]
  OBVIOUS
<1>1. /\ label[c] \in {"dup", "copy"}
      /\ at' = [at EXCEPT ![c] = 0] /\ end' = [end EXCEPT ![c] = 0]
      /\ UNCHANGED <<mmap_list, mmap_cache, rest, pd0, pt, pages, lost, stopped>>
  BY DEF copied, areaVars, treeVars
<1>2. /\ source \in Mm /\ source # c /\ label[source] = "fork" /\ source # NULL /\ from[source] = NULL
      /\ MmOK(c) /\ MmOK(source)
      /\ mmap_list[source] = rest[c] \o mmap_list[c]
  BY <1>0, <1>1, SourceFacts, Numbers
<1>3. SpaceTypes
  BY DEF SpacesIInv
<1>4. /\ at' \in [Mm -> Nat] /\ end' \in [Mm -> Nat] /\ at'[c] = 0 /\ end'[c] = 0
      /\ \A q \in Mm \ {c} : at'[q] = at[q] /\ end'[q] = end[q]
  BY <1>1, <1>3 DEF SpaceTypes
<1>5. ListOK(c)' /\ TreeOK(c)'
  BY <1>1, <1>2, KeepsList, KeepsTree DEF MmOK, ListOK
<1>6. CASE label[c] = "copy" /\ at[c] >= end[c] /\ Becomes(c, "dup") /\ UNCHANGED from
  <2>1. label' = [label EXCEPT ![c] = "dup"] /\ label'[c] = "dup"
    BY <1>3, <1>6 DEF Becomes, SpaceTypes
  <2>2. SpaceTypes'
    BY <1>1, <1>3, <1>4, <1>6, <2>1 DEF SpaceTypes
  <2>3. \A q \in Mm \ {c} : Same(q)
    BY <1>1, <1>3, <1>4, <1>6, <2>1 DEF Same, SpaceTypes
  <2>4. LoadOK(c)'
    BY <2>1 DEF LoadOK
  <2>5. pages[c] = {p \in pages[source] : \E v \in Range(mmap_list[c]) : In(v, p)}
    BY <1>0, <1>6, AreaCopied
  <2>6. CopyOK(c)'
    <3>1. from'[c] = source /\ label'[source] = "fork"
      BY <1>0, <1>2, <1>6, <2>3 DEF Same
    <3> QED
      BY <1>1, <1>2, <2>1, <2>5, <3>1 DEF CopyOK
  <2> QED
    BY <1>1, <1>5, <1>6, <2>2, <2>3, <2>4, <2>6, OneMoves DEF MmOK
<1>7. CASE /\ label[c] = "dup" /\ rest[c] = <<>>
           /\ label' = [label EXCEPT ![c] = "user", ![source] = "user"]
           /\ from' = [from EXCEPT ![c] = NULL]
  <2>1. /\ label'[c] = "user" /\ label'[source] = "user" /\ from'[c] = NULL
        /\ \A q \in Mm \ {c} : from'[q] = from[q]
        /\ \A q \in Mm \ {c, source} : label'[q] = label[q]
    BY <1>2, <1>3, <1>7 DEF SpaceTypes
  <2>2. SpaceTypes'
    <3>1. label' \in [Mm -> {"free", "load", "pages", "stack", "user", "fork", "dup", "copy", "fail"}]
      BY <1>2, <1>3, <1>7 DEF SpaceTypes
    <3>2. from' \in [Mm -> Mm \cup {NULL}]
      BY <1>3, <1>7 DEF SpaceTypes
    <3> QED
      BY <1>1, <1>3, <1>4, <3>1, <3>2 DEF SpaceTypes
  <2>3. MmOK(c)'
    <3>1. LoadOK(c)' /\ CopyOK(c)'
      BY <2>1, NoCopy DEF LoadOK
    <3> QED
      BY <1>5, <3>1 DEF MmOK
  <2>4. MmOK(source)'
    <3>1. ListOK(source)' /\ TreeOK(source)'
      BY <1>1, <1>2, KeepsList, KeepsTree DEF MmOK, ListOK
    <3>2. LoadOK(source)' /\ CopyOK(source)'
      BY <1>2, <2>1, NoCopy DEF LoadOK
    <3> QED
      BY <3>1, <3>2 DEF MmOK
  <2>5. \A q \in Mm \ {c, source} : Same(q) /\ from[q] \notin {c} \cup (Mm \cap {source})
    <3> TAKE q \in Mm \ {c, source}
    <3>1. from[q] # NULL => label[from[q]] = "fork"
      BY DEF SpacesIInv, MmOK, CopyOK
    <3>2. from[q] # c
      BY <1>1, <3>1, Numbers
    <3>3. from[q] # source
      BY <1>0, <1>2 DEF SpacesIInv
    <3>4. Same(q)
      BY <1>1, <1>4, <2>1 DEF Same
    <3> QED
      BY <3>2, <3>3, <3>4
  <2>6. \A q \in Mm : MmOK(q)'
    BY <1>2, <2>3, <2>4, <2>5, TwoMove
  <2>7. \A d, e \in Mm : from'[d] = from'[e] /\ from'[d] # NULL => d = e
    BY <2>1 DEF SpacesIInv
  <2>8. lost' \subseteq {"directory", "table"} /\ OnlyDirectoriesLost'
    BY <1>1, SameProgram DEF SpacesIInv, OnlyDirectoriesLost
  <2> QED
    BY <1>1, <2>2, <2>6, <2>7, <2>8 DEF SpacesIInv
<1> QED
  BY <1>0, <1>6, <1>7 DEF copied

(* After exit_mmap nothing is left of an mm that could be lost but          *)
(* directories, or tables of programs with several.                         *)
LEMMA LeaveKeeps ==
    ASSUME SpacesIInv, NEW m \in Mm, leave(m), segments' = segments, stopped = "no"
    PROVE  SpacesIInv'
<1>0. PICK source : source = from[m]
  OBVIOUS
<1> DEFINE tree == exit_mmap(m)
<1>1. /\ label[m] \in {"user", "fail"}
      /\ lost' = lost \cup tree.lost \cup (IF tree.pd0 = {} THEN {} ELSE {"directory"})
                                     \cup (IF tree.pt = {} THEN {} ELSE {"table"})
                                     \cup (IF tree.pages = {} THEN {} ELSE {"page"})
      /\ pd0' = [pd0 EXCEPT ![m] = {}] /\ pt' = [pt EXCEPT ![m] = {}] /\ pages' = [pages EXCEPT ![m] = {}]
      /\ mmap_list' = [mmap_list EXCEPT ![m] = <<>>]
      /\ mmap_cache' = [mmap_cache EXCEPT ![m] = NULL]
      /\ label' = [q \in Mm |-> IF q = m THEN "free" ELSE IF q = source THEN "user" ELSE label[q]]
      /\ from' = [from EXCEPT ![m] = NULL]
      /\ rest' = [rest EXCEPT ![m] = <<>>]
      /\ at' = [at EXCEPT ![m] = 0] /\ end' = [end EXCEPT ![m] = 0]
      /\ stopped' = stopped
  BY <1>0 DEF leave, Uncached
<1>2. SpaceTypes /\ MmOK(m) /\ source \in Mm \cup {NULL}
  BY <1>0 DEF SpacesIInv, SpaceTypes
<1>3. source # NULL => source # m /\ label[source] = "fork" /\ from[source] = NULL /\ MmOK(source)
  <2> HAVE source # NULL
  <2>1. source \in Mm /\ label[source] = "fork"
    BY <1>0, <1>2 DEF MmOK, CopyOK
  <2> QED
    BY <1>1, <2>1, OnlyCopiesHaveSources DEF SpacesIInv
<1>4. tree \in Emptied /\ (OneTable => tree.pt = {} /\ tree.lost = {})
  <2>1. segments \in Programs /\ pd0[m] \subseteq Nat /\ pt[m] \subseteq Nat /\ pages[m] \subseteq Nat
    BY <1>2 DEF SpaceTypes
  <2>2. ListOK(m) /\ TreeOK(m)
    BY <1>2 DEF MmOK
  <2> QED
    BY <2>1, <2>2, MmapFacts DEF ListOK, TreeOK
<1>5. lost' \subseteq {"directory", "table"} /\ OnlyDirectoriesLost'
  <2>1. tree.lost \subseteq {"table"} /\ tree.pages = {}
    <3> HIDE DEF tree
    <3> QED
      BY <1>4 DEF Emptied
  <2>2. lost \subseteq {"directory", "table"} /\ OnlyDirectoriesLost
    BY DEF SpacesIInv
  <2>3. lost' \subseteq {"directory", "table"}
    BY <1>1, <2>1, <2>2
  <2>4. OneTable => lost' \subseteq {"directory"}
    BY <1>1, <1>4, <2>1, <2>2 DEF OnlyDirectoriesLost
  <2> QED
    BY <2>3, <2>4, SameProgram DEF OnlyDirectoriesLost
<1> HIDE DEF tree
<1>6. /\ label'[m] = "free" /\ from'[m] = NULL /\ mmap_list'[m] = <<>> /\ mmap_cache'[m] = NULL
      /\ pd0'[m] = {} /\ pt'[m] = {} /\ pages'[m] = {}
      /\ \A q \in Mm \ {m} : from'[q] = from[q]
      /\ \A q \in Mm \ {m, source} : Same(q)
      /\ source # NULL => label'[source] = "user"
  BY <1>1, <1>2, <1>3 DEF SpaceTypes, Same
<1>7. SpaceTypes'
  <2>1. label' \in [Mm -> {"free", "load", "pages", "stack", "user", "fork", "dup", "copy", "fail"}]
    BY <1>1, <1>2 DEF SpaceTypes
  <2>2. mmap_list' \in [Mm -> Seq(Areas)] /\ mmap_cache' \in [Mm -> Areas \cup {NULL}]
    BY <1>1, <1>2 DEF SpaceTypes
  <2>3. from' \in [Mm -> Mm \cup {NULL}] /\ rest' \in [Mm -> Seq(Areas)]
    BY <1>1, <1>2 DEF SpaceTypes
  <2>4. at' \in [Mm -> Nat] /\ end' \in [Mm -> Nat]
    BY <1>1, <1>2 DEF SpaceTypes
  <2>5. pd0' \in [Mm -> SUBSET Nat] /\ pt' \in [Mm -> SUBSET Nat] /\ pages' \in [Mm -> SUBSET Nat]
    <3>1. {} \in SUBSET Nat
      OBVIOUS
    <3> QED
      BY <1>1, <1>2, <3>1 DEF SpaceTypes
  <2> QED
    BY <1>2, <2>1, <2>2, <2>3, <2>4, <2>5 DEF SpaceTypes
<1>8. MmOK(m)'
  <2>1. Ordered(<<>>) /\ Range(<<>>) = {}
    BY DEF Ordered, Range
  <2>2. ListOK(m)'
    BY <1>6, <2>1 DEF ListOK
  <2>3. TreeOK(m)'
    BY <1>6 DEF TreeOK
  <2>4. LoadOK(m)' /\ CopyOK(m)'
    BY <1>6, NoCopy DEF LoadOK
  <2> QED
    BY <2>2, <2>3, <2>4 DEF MmOK
<1>9. source # NULL => MmOK(source)'
  <2> HAVE source # NULL
  <2>1. /\ source \in Mm \ {m} /\ mmap_list'[source] = mmap_list[source] /\ mmap_cache'[source] = mmap_cache[source]
        /\ pd0'[source] = pd0[source] /\ pt'[source] = pt[source] /\ pages'[source] = pages[source]
    BY <1>1, <1>2, <1>3 DEF SpaceTypes
  <2>2. ListOK(source)' /\ TreeOK(source)'
    BY <1>3, <2>1, KeepsList, KeepsTree DEF MmOK, ListOK
  <2>3. LoadOK(source)' /\ CopyOK(source)'
    BY <1>3, <1>6, <2>1, NoCopy DEF LoadOK
  <2> QED
    BY <2>2, <2>3 DEF MmOK
<1>10. \A q \in Mm \ {m, source} : Same(q) /\ from[q] \notin {m} \cup (Mm \cap {source})
  <2> TAKE q \in Mm \ {m, source}
  <2>1. from[q] # NULL => label[from[q]] = "fork"
    BY DEF SpacesIInv, MmOK, CopyOK
  <2>2. from[q] # m
    BY <1>1, <2>1, Numbers
  <2>3. source \in Mm => from[q] # source
    BY <1>0, Numbers DEF SpacesIInv
  <2> QED
    BY <1>6, <2>2, <2>3
<1>11. \A q \in Mm : MmOK(q)'
  BY <1>2, <1>8, <1>9, <1>10, TwoMove
<1>12. \A d, e \in Mm : from'[d] = from'[e] /\ from'[d] # NULL => d = e
  BY <1>6 DEF SpacesIInv
<1> QED
  BY <1>1, <1>5, <1>7, <1>11, <1>12 DEF SpacesIInv

(* In the beginning all mms are empty.                                      *)
LEMMA SpacesStart == SpacesInit => SpacesIInv
<1> SUFFICES ASSUME SpacesInit PROVE SpacesIInv
  OBVIOUS
<1>1. SpaceTypes
  <2>1. {} \in SUBSET Nat
    OBVIOUS
  <2> QED
    BY <2>1 DEF SpacesInit, SpaceTypes
<1>2. Ordered(<<>>) /\ Range(<<>>) = {}
  BY DEF Ordered, Range
<1>3. ASSUME NEW m \in Mm PROVE MmOK(m)
  BY <1>2 DEF SpacesInit, MmOK, ListOK, TreeOK, LoadOK, CopyOK
<1> QED
  BY <1>1, <1>3 DEF SpacesInit, SpacesIInv, OnlyDirectoriesLost

(* Every step keeps the invariant.                                          *)
LEMMA SpacesStep == SpacesIInv /\ [SpacesNext]_spaceVars => SpacesIInv'
<1> SUFFICES ASSUME SpacesIInv, [SpacesNext]_spaceVars PROVE SpacesIInv'
  OBVIOUS
<1>1. CASE SpacesNext
  <2>1. PICK m \in Mm :
           \/ mm_create(m) \/ load_segment(m) \/ load_stack(m) \/ pgdir_alloc_page(m) \/ loaded(m)
           \/ \E c \in Mm : fork(m, c)
           \/ dup_mmap(m) \/ copy_range(m) \/ copied(m)
           \/ access(m) \/ leave(m)
    BY <1>1 DEF SpacesNext
  <2>2. segments' = segments /\ stopped = "no"
    BY <1>1 DEF SpacesNext
  <2> QED
    BY <2>1, <2>2, CreateKeeps, SegmentKeeps, StackKeeps, AllocKeeps, LoadedKeeps, ForkKeeps,
       DupKeeps, CopyKeeps, CopiedKeeps, AccessKeeps, LeaveKeeps
<1>2. CASE UNCHANGED spaceVars
  <2>1. /\ segments' = segments /\ label' = label /\ mmap_list' = mmap_list /\ mmap_cache' = mmap_cache
        /\ from' = from /\ rest' = rest /\ at' = at /\ end' = end
        /\ pd0' = pd0 /\ pt' = pt /\ pages' = pages /\ lost' = lost /\ stopped' = stopped
    BY <1>2 DEF spaceVars, areaVars, loopVars, treeVars
  <2>2. SpaceTypes'
    BY <2>1 DEF SpacesIInv, SpaceTypes
  <2>3. \A q \in Mm : MmOK(q)'
    <3> TAKE q \in Mm
    <3>1. MmOK(q) /\ Same(q) /\ Same(from[q])
      BY <2>1 DEF SpacesIInv, Same
    <3> QED
      BY <2>1, <3>1, Untouched
  <2>4. OnlyDirectoriesLost'
    BY <2>1, SameProgram DEF SpacesIInv, OnlyDirectoriesLost
  <2> QED
    BY <2>1, <2>2, <2>3, <2>4 DEF SpacesIInv
<1> QED
  BY <1>1, <1>2

(* Areas, page tables, loads and copies are consistent in every reachable   *)
(* state (load_icode, dup_mmap, exit_mmap and what they call).              *)
THEOREM SpacesInvariance == SpacesSpec => []SpacesIInv
<1> QED
  BY SpacesStart, SpacesStep, PTL DEF SpacesSpec

(* The invariant implies what the run checks of areas and memory.           *)
LEMMA InvariantGivesInv == SpacesIInv => SpacesInv
<1> SUFFICES ASSUME SpacesIInv PROVE SpacesInv
  OBVIOUS
<1>1. \A m \in Mm : ListOK(m) /\ TreeOK(m) /\ CopyOK(m) /\ Ordered(mmap_list[m])
  BY DEF SpacesIInv, MmOK, ListOK
<1>2. SpacesTypeOK
  BY <1>1 DEF SpacesIInv, SpaceTypes, SpacesTypeOK, ListOK, CopyOK
<1>3. AreasInOrder
  <2>1. ASSUME NEW m \in Mm
        PROVE  LET list == mmap_list[m] IN
               /\ \A i \in DOMAIN list : list[i].vm_start < list[i].vm_end
               /\ \A i \in 1..(Len(list) - 1) : list[i].vm_end <= list[i + 1].vm_start
    <3> DEFINE list == mmap_list[m]
    <3>1. /\ Len(list) \in Nat /\ DOMAIN list = 1..Len(list)
          /\ \A i \in 1..Len(list) : list[i].vm_start < list[i].vm_end
          /\ \A i, j \in 1..Len(list) : i < j => list[i].vm_end <= list[j].vm_start
      BY <1>1, OrderedFacts
    <3>2. ASSUME NEW i \in 1..(Len(list) - 1) PROVE list[i].vm_end <= list[i + 1].vm_start
      <4>1. i \in 1..Len(list) /\ i + 1 \in 1..Len(list) /\ i < i + 1
        BY <3>1
      <4> QED
        BY <3>1, <4>1
    <3> QED
      BY <3>1, <3>2
  <2> QED
    BY <2>1 DEF AreasInOrder, SpacesIInv
<1>4. PagesInAreas
  BY <1>1 DEF PagesInAreas, TreeOK, Reached
<1>5. NoPageLost /\ OnlyDirectoriesLost
  BY DEF SpacesIInv, NoPageLost
<1> QED
  BY <1>2, <1>3, <1>4, <1>5 DEF SpacesInv

(* Between any two steps areas are sorted and disjoint, mapped pages are in *)
(* them and can be found, no page is lost, and with one table in a          *)
(* directory no table: insert_vma_struct, get_pte and exit_range together.  *)
THEOREM SpacesCorrect == SpacesSpec => []SpacesInv
<1> QED
  BY SpacesInvariance, InvariantGivesInv, PTL

(* Only the end of dup_mmap makes a process of a copy.                      *)
LEMMA WhenCopied ==
    ASSUME SpacesIInv, [SpacesNext]_spaceVars, NEW c \in Mm, label[c] = "dup", label'[c] = "user"
    PROVE  rest[c] = <<>> /\ mmap_list' = mmap_list /\ pages' = pages
<1>1. label' # label
  OBVIOUS
<1>2. SpaceTypes /\ \A q \in Mm : from[q] # c
  <2>1. \A q \in Mm : from[q] # NULL => label[from[q]] = "fork"
    BY DEF SpacesIInv, MmOK, CopyOK
  <2> QED
    BY <2>1, Numbers DEF SpacesIInv
<1>3. SpacesNext
  BY <1>1 DEF spaceVars
<1>4. PICK m \in Mm :
         \/ mm_create(m) \/ load_segment(m) \/ load_stack(m) \/ pgdir_alloc_page(m) \/ loaded(m)
         \/ \E d \in Mm : fork(m, d)
         \/ dup_mmap(m) \/ copy_range(m) \/ copied(m)
         \/ access(m) \/ leave(m)
  BY <1>3 DEF SpacesNext
<1>5. ~mm_create(m) /\ ~access(m)
  BY <1>1, <1>2 DEF mm_create, access, Becomes, SpaceTypes
<1>6. ~load_segment(m) /\ ~load_stack(m)
  BY <1>2 DEF load_segment, load_stack, mm_map, Becomes, SpaceTypes
<1>7. ~pgdir_alloc_page(m) /\ ~loaded(m)
  BY <1>2 DEF pgdir_alloc_page, loaded, Becomes, SpaceTypes
<1>8. \A d \in Mm : ~fork(m, d)
  BY <1>2 DEF fork, SpaceTypes
<1>9. ~dup_mmap(m) /\ ~copy_range(m)
  BY <1>2 DEF dup_mmap, copy_range, Becomes, SpaceTypes
<1>10. ~leave(m)
  BY <1>2 DEF leave
<1>11. copied(m)
  BY <1>4, <1>5, <1>6, <1>7, <1>8, <1>9, <1>10
<1>12. CASE label[m] = "copy" /\ Becomes(m, "dup")
  BY <1>2, <1>12 DEF Becomes, SpaceTypes
<1>13. CASE /\ label[m] = "dup" /\ rest[m] = <<>>
            /\ label' = [label EXCEPT ![m] = "user", ![from[m]] = "user"]
  <2>1. m = c
    BY <1>2, <1>13 DEF SpaceTypes
  <2> QED
    BY <1>11, <1>13, <2>1 DEF copied, areaVars, treeVars
<1> QED
  BY <1>11, <1>12, <1>13 DEF copied

(* A fork that succeeds has copied all areas and all pages, whatever was    *)
(* freed or mapped in other processes meanwhile (dup_mmap, copy_range).     *)
THEOREM CopiesComplete == SpacesSpec => CopyIsComplete
<1> DEFINE Complete == \A c \in Mm : label[c] = "dup" /\ label'[c] = "user" =>
                          mmap_list'[c] = mmap_list'[from[c]] /\ pages'[c] = pages'[from[c]]
<1>1. ASSUME SpacesIInv, [SpacesNext]_spaceVars PROVE Complete
  <2> SUFFICES ASSUME NEW c \in Mm, label[c] = "dup", label'[c] = "user"
               PROVE  mmap_list'[c] = mmap_list'[from[c]] /\ pages'[c] = pages'[from[c]]
    OBVIOUS
  <2>1. rest[c] = <<>> /\ mmap_list' = mmap_list /\ pages' = pages
    BY <1>1, WhenCopied
  <2>2. /\ MmOK(c) /\ MmOK(from[c]) /\ mmap_list[c] \in Seq(Areas)
        /\ mmap_list[from[c]] = rest[c] \o mmap_list[c]
    BY <1>1, SourceFacts
  <2>3. mmap_list[from[c]] = mmap_list[c]
    BY <2>1, <2>2
  <2>4. pages[c] = {p \in pages[from[c]] : \E v \in Range(mmap_list[c]) : In(v, p)}
    BY <2>2 DEF MmOK, CopyOK
  <2>5. \A p \in pages[from[c]] : \E v \in Range(mmap_list[c]) : In(v, p)
    BY <2>2, <2>3 DEF MmOK, TreeOK
  <2>6. pages[c] = pages[from[c]]
    BY <2>4, <2>5
  <2> QED
    BY <2>1, <2>3, <2>6
<1>2. SpacesIInv /\ [SpacesNext]_spaceVars => [Complete]_spaceVars
  BY <1>1
<1> QED
  BY <1>2, SpacesInvariance, PTL DEF SpacesSpec, CopyIsComplete

-----------------------------------------------------------------------------
(***************************************************************************)
(* Checks of user addresses.                                               *)
(***************************************************************************)

(* What an area lets a check of the address a do, and all behind it that    *)
(* are in the area.                                                         *)
Opens(v, a, write) ==
    /\ write => v.write
    /\ write /\ v.stack => a >= (v.vm_start + 1) * PGSIZE

(* In an ordered list one area decides about an address.                    *)
LEMMA OpensFacts ==
    ASSUME NEW list, Ordered(list), NEW v \in Range(list), NEW a \in Nat, In(v, a \div PGSIZE),
           NEW write \in BOOLEAN
    PROVE  Allowed(list, a, write) <=> Opens(v, a, write)
<1>1. v \in Areas /\ v.vm_start \in Nat /\ PGSIZE \in Nat \ {0} /\ a \div PGSIZE \in Nat
  BY OrderedFacts, AreaTypes, Numbers, Division
<1>2. a \div PGSIZE # v.vm_start <=> a \div PGSIZE >= v.vm_start + 1
  BY <1>1 DEF In
<1>3. v.vm_start + 1 <= a \div PGSIZE <=> (v.vm_start + 1) * PGSIZE <= a
  <2>1. v.vm_start + 1 \in Nat
    BY <1>1
  <2> QED
    BY <1>1, <2>1, DivLess
<1>4. (v.vm_start + 1) * PGSIZE \in Nat
  BY <1>1
<1>5. a \div PGSIZE # v.vm_start <=> a >= (v.vm_start + 1) * PGSIZE
  BY <1>1, <1>2, <1>3, <1>4
<1>6. \A w \in Range(list) : In(w, a \div PGSIZE) => w = v
  BY <1>1, OneArea
<1> QED
  BY <1>5, <1>6 DEF Allowed, Opens

(* The addresses of an area from a on.                                      *)
LEMMA AreaAddresses ==
    ASSUME NEW list, Ordered(list), NEW v \in Range(list), NEW a \in Nat, In(v, a \div PGSIZE)
    PROVE  /\ v.vm_end * PGSIZE \in Nat /\ a < v.vm_end * PGSIZE
           /\ \A b \in Nat : a <= b /\ b < v.vm_end * PGSIZE => In(v, b \div PGSIZE)
<1>1. v.vm_start \in Nat /\ v.vm_end \in Nat /\ PGSIZE \in Nat \ {0} /\ a \div PGSIZE \in Nat
  BY OrderedFacts, AreaTypes, Numbers, Division
<1>2. v.vm_end * PGSIZE \in Nat
  BY <1>1
<1>3. a \div PGSIZE < v.vm_end /\ v.vm_start <= a \div PGSIZE
  BY DEF In
<1>4. a < v.vm_end * PGSIZE
  BY <1>1, <1>3, DivLess
<1>5. ASSUME NEW b \in Nat, a <= b, b < v.vm_end * PGSIZE PROVE In(v, b \div PGSIZE)
  <2>1. b \div PGSIZE < v.vm_end
    BY <1>1, <1>5, DivLess
  <2>2. a \div PGSIZE <= b \div PGSIZE /\ b \div PGSIZE \in Nat
    BY <1>1, <1>5, DivMonotone, Division
  <2> QED
    BY <1>1, <1>3, <2>1, <2>2 DEF In
<1> QED
  BY <1>2, <1>4, <1>5

(* From a to hi - 1 everything is allowed.                                  *)
Covered(list, a, hi, write) == a >= hi \/ \A b \in a..(hi - 1) : Allowed(list, b, write)

(* One round of user_mem_check.                                             *)
LEMMA CoveredRound ==
    ASSUME NEW list, Ordered(list), NEW cache \in Range(list) \cup {NULL},
           NEW a \in Nat, NEW hi \in Nat, NEW write \in BOOLEAN,
           NEW v, v = find_vma(list, cache, a \div PGSIZE)
    PROVE  Covered(list, a, hi, write)
              <=> a >= hi \/ (v # NULL /\ Opens(v, a, write) /\ Covered(list, v.vm_end * PGSIZE, hi, write))
<1>1. PGSIZE \in Nat \ {0} /\ a \div PGSIZE \in Nat
  BY Numbers, Division
<1>2. \/ v = NULL /\ \A w \in Range(list) : ~In(w, a \div PGSIZE)
      \/ v \in Range(list) /\ v # NULL /\ In(v, a \div PGSIZE)
  BY <1>1, FindFacts
<1>3. CASE a >= hi
  BY <1>3 DEF Covered
<1>4. CASE a < hi /\ v = NULL /\ \A w \in Range(list) : ~In(w, a \div PGSIZE)
  <2>1. ~Allowed(list, a, write) /\ a \in a..(hi - 1)
    BY <1>4 DEF Allowed
  <2> QED
    BY <1>4, <2>1 DEF Covered
<1>5. CASE a < hi /\ v \in Range(list) /\ v # NULL /\ In(v, a \div PGSIZE)
  <2>e. PICK e : e = v.vm_end * PGSIZE
    OBVIOUS
  <2>1. e \in Nat /\ a < e /\ \A b \in Nat : a <= b /\ b < e => In(v, b \div PGSIZE)
    BY <1>5, <2>e, AreaAddresses
  <2>2. \A b \in Nat : a <= b /\ b < e => (Allowed(list, b, write) <=> Opens(v, b, write))
    BY <1>5, <2>1, OpensFacts
  <2>3. PICK g : g = (v.vm_start + 1) * PGSIZE
    OBVIOUS
  <2>4. g \in Nat
    <3>1. v.vm_start \in Nat
      BY <1>5, OrderedFacts, AreaTypes
    <3> QED
      BY <1>1, <2>3, <3>1
  <2>5. \A b \in Nat : a <= b /\ Opens(v, a, write) => Opens(v, b, write)
    BY <2>3, <2>4 DEF Opens
  <2>6. Covered(list, a, hi, write) <=> \A b \in a..(hi - 1) : Allowed(list, b, write)
    BY <1>5 DEF Covered
  <2>7. Covered(list, e, hi, write) <=> \A b \in Nat : e <= b /\ b < hi => Allowed(list, b, write)
    BY <2>1 DEF Covered
  <2>8. ASSUME Covered(list, a, hi, write) PROVE Opens(v, a, write) /\ Covered(list, e, hi, write)
    <3>1. \A b \in Nat : a <= b /\ b < hi => Allowed(list, b, write)
      BY <2>6, <2>8
    <3>2. Opens(v, a, write)
      BY <1>5, <2>1, <2>2, <3>1
    <3>3. Covered(list, e, hi, write)
      BY <2>1, <2>7, <3>1
    <3> QED
      BY <3>2, <3>3
  <2>9. ASSUME Opens(v, a, write), Covered(list, e, hi, write) PROVE Covered(list, a, hi, write)
    <3>1. ASSUME NEW b \in a..(hi - 1) PROVE Allowed(list, b, write)
      <4>1. b \in Nat /\ a <= b /\ b < hi
        OBVIOUS
      <4>2. CASE b < e
        BY <2>2, <2>5, <2>9, <4>1, <4>2
      <4>3. CASE e <= b
        BY <2>7, <2>9, <4>1, <4>3
      <4> QED
        BY <2>1, <4>1, <4>2, <4>3
    <3> QED
      BY <2>6, <3>1
  <2> QED
    BY <1>5, <2>8, <2>9, <2>e
<1> QED
  BY <1>2, <1>3, <1>4, <1>5
(* The loop of user_mem_check.                                              *)
LEMMA CheckFacts ==
    ASSUME NEW list, Ordered(list), NEW cache0 \in Range(list) \cup {NULL},
           NEW lo \in Nat, NEW hi \in Nat, NEW write \in BOOLEAN
    PROVE  user_mem_check(list, cache0, lo, hi, write)
              <=> lo < hi /\ \A a \in lo..(hi - 1) : Allowed(list, a, write)
<1> DEFINE K == Range(list) \cup {NULL}
           States == [start : Nat, cache : Range(list) \cup {NULL}]
           Found(now) == find_vma(list, now.cache, now.start \div PGSIZE)
           NextState(now) == [start |-> Found(now).vm_end * PGSIZE, cache |-> Found(now)]
           Round(f, now) == \/ now.start >= hi
                            \/ /\ Found(now) # NULL
                               /\ write => Found(now).write
                               /\ write /\ Found(now).stack => now.start >= (Found(now).vm_start + 1) * PGSIZE
                               /\ f[NextState(now)]
           rec(f) == [now \in States |-> Round(f, now)]
<1>0. PGSIZE \in Nat \ {0}
  BY Numbers
<1>1. ASSUME NEW now \in States, now.start < hi, Found(now) # NULL
      PROVE  NextState(now) \in States /\ NextState(now).start > now.start /\ NextState(now).start = Found(now).vm_end * PGSIZE
  <2>1. now.start \in Nat /\ now.cache \in K /\ now.start \div PGSIZE \in Nat
    BY <1>0, Division
  <2>2. PICK v : v = Found(now)
    OBVIOUS
  <2>3. v \in Range(list) /\ In(v, now.start \div PGSIZE)
    BY <1>1, <2>1, <2>2, FindFacts
  <2>4. v.vm_end * PGSIZE \in Nat /\ now.start < v.vm_end * PGSIZE
    BY <2>1, <2>3, AreaAddresses
  <2>5. NextState(now) = [start |-> v.vm_end * PGSIZE, cache |-> v]
    BY <2>2
  <2> HIDE DEF NextState, Found
  <2> QED
    BY <2>2, <2>3, <2>4, <2>5
<1>w. PICK W : W = [now \in States |-> Covered(list, now.start, hi, write)]
  OBVIOUS
<1>2. ASSUME NEW now \in States PROVE W[now] <=> Round(W, now)
  <2>1. now.start \in Nat /\ now.cache \in K
    OBVIOUS
  <2>2. PICK v : v = Found(now)
    OBVIOUS
  <2>3. W[now] <=> Covered(list, now.start, hi, write)
    BY <1>w
  <2>4. Covered(list, now.start, hi, write)
           <=> now.start >= hi \/ (v # NULL /\ Opens(v, now.start, write) /\ Covered(list, v.vm_end * PGSIZE, hi, write))
    BY <2>1, <2>2, CoveredRound
  <2>5. CASE now.start >= hi
    BY <2>3, <2>4, <2>5
  <2>6. CASE now.start < hi /\ v = NULL
    BY <2>1, <2>2, <2>3, <2>4, <2>6
  <2>7. CASE now.start < hi /\ v # NULL
    <3>1. NextState(now) \in States /\ NextState(now).start = v.vm_end * PGSIZE
      BY <1>1, <2>2, <2>7
    <3>2. W[NextState(now)] <=> Covered(list, v.vm_end * PGSIZE, hi, write)
      <4> HIDE DEF NextState
      <4> QED
        BY <1>w, <3>1
    <3>3. ~(now.start >= hi)
      BY <2>1, <2>7
    <3> HIDE DEF NextState, Found
    <3> QED
      BY <2>2, <2>3, <2>4, <2>7, <3>2, <3>3 DEF Opens
  <2> QED
    BY <2>1, <2>5, <2>6, <2>7
<1>3. W = rec(W)
  <2>1. \A now \in States : W[now] \in BOOLEAN
    BY <1>w DEF Covered
  <2>2. \A now \in States : Round(W, now) \in BOOLEAN
    OBVIOUS
  <2>3. \A now \in States : W[now] = Round(W, now)
    <3> HIDE DEF Round
    <3> QED
      BY <1>2, <2>1, <2>2
  <2>4. W = [now \in States |-> W[now]]
    BY <1>w
  <2> HIDE DEF Round
  <2> QED
    BY <2>3, <2>4, Zenon
<1>c. PICK check : check = CHOOSE f : f = rec(f)
  OBVIOUS
<1>4. check = rec(check)
  <2> HIDE DEF rec
  <2> QED
    BY <1>3, <1>c
<1>5. \A now \in States : check[now] <=> Round(check, now)
  <2> HIDE DEF Round
  <2> QED
    BY <1>4
<1>6. \A d \in 0..hi : \A now \in States : hi <= now.start + d => (check[now] <=> W[now])
  <2> DEFINE B == {d \in 0..hi : \A now \in States : hi <= now.start + d => (check[now] <=> W[now])}
  <2>1. 0 \in B
    <3>1. ASSUME NEW now \in States, hi <= now.start + 0 PROVE check[now] <=> W[now]
      <4>1. now.start >= hi
        BY <3>1
      <4> QED
        BY <1>2, <1>5, <4>1
    <3> QED
      BY <3>1
  <2>2. ASSUME NEW d \in 1..hi, d - 1 \in B PROVE d \in B
    <3>1. ASSUME NEW now \in States, hi <= now.start + d PROVE check[now] <=> W[now]
      <4>1. CASE now.start >= hi
        BY <1>2, <1>5, <4>1
      <4>2. CASE Found(now) = NULL
        BY <1>2, <1>5, <4>2
      <4>3. CASE now.start < hi /\ Found(now) # NULL
        <5>1. NextState(now) \in States /\ NextState(now).start > now.start
          BY <1>1, <4>3
        <5>2. hi <= NextState(now).start + (d - 1)
          <6> HIDE DEF NextState
          <6>1. now.start \in Nat /\ NextState(now).start \in Nat /\ d \in Nat
            BY <5>1
          <6> QED
            BY <3>1, <5>1, <6>1
        <5>3. check[NextState(now)] <=> W[NextState(now)]
          <6> HIDE DEF NextState
          <6> QED
            BY <2>2, <5>1, <5>2
        <5> HIDE DEF NextState, Found
        <5> QED
          BY <1>2, <1>5, <5>3
      <4> QED
        <5>1. now.start \in Nat
          OBVIOUS
        <5> QED
          BY <4>1, <4>2, <4>3, <5>1
    <3> QED
      BY <3>1
  <2>3. \A d \in 0..hi : d \in B
    <3> HIDE DEF B
    <3> QED
      BY <2>1, <2>2, Upward
  <2> QED
    BY <2>3
<1>7. check[[start |-> lo, cache |-> cache0]] <=> Covered(list, lo, hi, write)
  <2>1. PICK now : now = [start |-> lo, cache |-> cache0]
    OBVIOUS
  <2>2. now \in States /\ now.start = lo
    BY <2>1
  <2>3. hi \in 0..hi /\ hi <= now.start + hi
    BY <2>2
  <2>4. check[now] <=> W[now]
    BY <1>6, <2>2, <2>3
  <2> QED
    BY <1>w, <2>1, <2>2, <2>4
<1>8. user_mem_check(list, cache0, lo, hi, write)
         <=> /\ USER_ACCESS(lo \div PGSIZE, ROUNDUP(hi, PGSIZE) \div PGSIZE) /\ lo < hi
             /\ check[[start |-> lo, cache |-> cache0]]
  BY <1>c DEF user_mem_check
<1>9. ASSUME lo < hi, \A a \in lo..(hi - 1) : Allowed(list, a, write)
      PROVE  USER_ACCESS(lo \div PGSIZE, ROUNDUP(hi, PGSIZE) \div PGSIZE)
  <2>1. PICK v \in Range(list) : In(v, lo \div PGSIZE)
    BY <1>9 DEF Allowed
  <2>2. PICK w \in Range(list) : In(w, (hi - 1) \div PGSIZE)
    BY <1>9 DEF Allowed
  <2>3. v.vm_start \in Nat /\ USERBASE <= v.vm_start /\ w.vm_end \in Nat /\ w.vm_end <= USERTOP
    BY OrderedFacts, AreaTypes
  <2>4. USERBASE <= lo \div PGSIZE
    BY <1>0, <2>1, <2>3, Numbers, Division DEF In
  <2>5. PICK rounded : rounded = (hi + PGSIZE - 1) \div PGSIZE
    OBVIOUS
  <2>6. hi + PGSIZE - 1 \in Nat /\ hi - 1 \in Nat
    BY <1>0, <1>9
  <2>7. rounded \in Nat
    BY <1>0, <2>5, <2>6, Division
  <2>8. ROUNDUP(hi, PGSIZE) \div PGSIZE = rounded
    <3>1. ROUNDUP(hi, PGSIZE) = rounded * PGSIZE
      BY <2>5 DEF ROUNDUP, ROUNDDOWN
    <3>2. rounded * PGSIZE = PGSIZE * rounded /\ rounded * PGSIZE \in Nat
      BY <1>0, <2>7
    <3> QED
      BY <1>0, <2>7, <3>1, <3>2, Quotient
  <2>9. lo \div PGSIZE < rounded
    <3>1. ~(rounded <= lo \div PGSIZE)
      <4> SUFFICES ASSUME rounded <= lo \div PGSIZE PROVE FALSE
        OBVIOUS
      <4>1. rounded * PGSIZE <= lo
        BY <1>0, <2>7, DivLess
      <4>2. hi + PGSIZE - 1 < PGSIZE * rounded + PGSIZE
        BY <1>0, <2>5, <2>6, Division
      <4>3. rounded * PGSIZE = PGSIZE * rounded /\ rounded * PGSIZE \in Nat
        BY <1>0, <2>7
      <4> QED
        BY <1>0, <1>9, <4>1, <4>2, <4>3
    <3> QED
      BY <1>0, <2>7, <3>1, Division
  <2>10. rounded <= USERTOP
    <3>1. (hi - 1) \div PGSIZE < USERTOP
      <4>1. (hi - 1) \div PGSIZE \in Nat
        BY <1>0, <2>6, Division
      <4> QED
        BY <2>2, <2>3, <4>1, Numbers DEF In
    <3>2. hi - 1 < USERTOP * PGSIZE
      BY <1>0, <2>6, <3>1, Numbers, DivLess
    <3>3. (USERTOP + 1) * PGSIZE = USERTOP * PGSIZE + PGSIZE /\ USERTOP * PGSIZE \in Nat
      BY <1>0, Numbers
    <3>4. hi + PGSIZE - 1 < (USERTOP + 1) * PGSIZE
      BY <1>0, <3>2, <3>3
    <3>5. rounded < USERTOP + 1
      BY <1>0, <2>5, <2>6, <3>4, Numbers, DivLess
    <3> QED
      BY <2>7, <3>5, Numbers
  <2> QED
    BY <2>4, <2>8, <2>9, <2>10 DEF USER_ACCESS
<1> QED
  BY <1>7, <1>8, <1>9 DEF Covered
(* Reading is allowed for a whole page or not at all.                       *)
LEMMA SamePage ==
    ASSUME NEW list, NEW a, NEW b, a \div PGSIZE = b \div PGSIZE
    PROVE  Allowed(list, a, FALSE) <=> Allowed(list, b, FALSE)
BY DEF Allowed

(* Up to the end of its page an address stays in the page.                  *)
LEMMA PageEndFacts ==
    ASSUME NEW src \in Nat
    PROVE  /\ ToPageEnd(src) \in Nat \ {0}
           /\ \A a \in Nat : src <= a /\ a < src + ToPageEnd(src) => a \div PGSIZE = src \div PGSIZE
<1>0. PGSIZE \in Nat \ {0} /\ src + PGSIZE \in Nat
  BY Numbers
<1>q. PICK q : q = src \div PGSIZE
  OBVIOUS
<1>1. q \in Nat /\ PGSIZE * q <= src /\ src < PGSIZE * q + PGSIZE
  BY <1>0, <1>q, Division
<1>p. PICK p : p = PGSIZE * q
  OBVIOUS
<1>2. p \in Nat /\ PGSIZE * (q + 1) = p + PGSIZE /\ (q + 1) * PGSIZE = p + PGSIZE
  BY <1>0, <1>1, <1>p
<1>3. (src + PGSIZE) \div PGSIZE = q + 1
  <2>1. q + 1 \in Nat /\ PGSIZE * (q + 1) <= src + PGSIZE /\ src + PGSIZE < PGSIZE * (q + 1) + PGSIZE
    BY <1>0, <1>1, <1>2, <1>p
  <2> QED
    BY <1>0, <2>1, Quotient
<1>4. ToPageEnd(src) = p + PGSIZE - src
  <2>1. ToPageEnd(src) = ((src + PGSIZE) \div PGSIZE) * PGSIZE - src
    BY DEF ToPageEnd, ROUNDDOWN
  <2>2. PICK rounded : rounded = (q + 1) * PGSIZE
    OBVIOUS
  <2>3. ToPageEnd(src) = rounded - src
    BY <1>3, <2>1, <2>2, Zenon
  <2>4. rounded = p + PGSIZE
    BY <1>2, <2>2
  <2> QED
    BY <1>0, <1>2, <2>3, <2>4, SMT
<1>5. ASSUME NEW a \in Nat, src <= a, a < src + ToPageEnd(src) PROVE a \div PGSIZE = q
  <2>1. PGSIZE * q <= a /\ a < PGSIZE * q + PGSIZE
    BY <1>0, <1>1, <1>2, <1>4, <1>5, <1>p
  <2> QED
    BY <1>0, <1>1, <2>1, Quotient
<1> QED
  BY <1>0, <1>1, <1>2, <1>4, <1>5, <1>p, <1>q

(* copy_string finds the end of a string before lim that can be read.       *)
Readable(list, src, nul, lim) ==
    src < lim /\ IF nul < src THEN Allowed(list, src, FALSE)
                              ELSE nul < lim /\ \A a \in src..nul : Allowed(list, a, FALSE)

(* One round of copy_string decides about the part of the string in one     *)
(* page.                                                                    *)
LEMMA ReadableRound ==
    ASSUME NEW list, Ordered(list), NEW cache \in Range(list) \cup {NULL},
           NEW src \in Nat, NEW nul \in Nat, NEW lim \in Nat,
           NEW part, part = IF ToPageEnd(src) > lim - src THEN lim - src ELSE ToPageEnd(src)
    PROVE  /\ src < lim => part \in Nat \ {0}
           /\ Readable(list, src, nul, lim)
                 <=> /\ user_mem_check(list, cache, src, src + part, FALSE)
                     /\ nul < src + part \/ (part # lim - src /\ Readable(list, src + part, nul, lim))
<1>1. /\ ToPageEnd(src) \in Nat \ {0}
      /\ \A a \in Nat : src <= a /\ a < src + ToPageEnd(src) => a \div PGSIZE = src \div PGSIZE
  BY PageEndFacts
<1>2. PICK stop : stop = src + part
  OBVIOUS
<1>s. SUFFICES /\ src < lim => part \in Nat \ {0}
               /\ Readable(list, src, nul, lim)
                     <=> /\ user_mem_check(list, cache, src, stop, FALSE)
                         /\ nul < stop \/ (part # lim - src /\ Readable(list, stop, nul, lim))
  BY <1>2, Zenon
<1>3. part \in Int /\ part <= ToPageEnd(src) /\ part <= lim - src /\ stop <= lim
      /\ part \in {ToPageEnd(src), lim - src}
  BY <1>1, <1>2
<1>4. stop \in Nat
  BY <1>1, <1>2, <1>3
<1>5. user_mem_check(list, cache, src, stop, FALSE)
         <=> src < stop /\ \A a \in src..(stop - 1) : Allowed(list, a, FALSE)
  BY <1>4, CheckFacts
<1>6. CASE src >= lim
  <2>1. ~(src < stop) /\ ~(src < lim)
    BY <1>3, <1>4, <1>6
  <2> QED
    BY <1>2, <1>5, <2>1 DEF Readable
<1>7. CASE src < lim
  <2>1. part \in Nat \ {0} /\ src < stop
    BY <1>1, <1>2, <1>3, <1>7
  <2>2. \A a \in Nat : src <= a /\ a < stop => (Allowed(list, a, FALSE) <=> Allowed(list, src, FALSE))
    <3> TAKE a \in Nat
    <3> HAVE src <= a /\ a < stop
    <3>1. a \div PGSIZE = src \div PGSIZE
      BY <1>1, <1>2, <1>3, <1>4
    <3> QED
      BY <3>1, SamePage
  <2>3. user_mem_check(list, cache, src, stop, FALSE) <=> Allowed(list, src, FALSE)
    <3>1. src \in src..(stop - 1) /\ \A a \in src..(stop - 1) : a \in Nat /\ src <= a /\ a < stop
      BY <1>4, <2>1
    <3> QED
      BY <1>5, <2>1, <2>2, <3>1
  <2>4. CASE nul < stop
    <3>1. CASE nul < src
      <4>1. Readable(list, src, nul, lim) <=> Allowed(list, src, FALSE)
        BY <1>7, <3>1 DEF Readable
      <4> QED
        BY <2>1, <2>3, <2>4, <4>1, Zenon
    <3>2. CASE src <= nul
      <4>1. nul < lim /\ ~(nul < src)
        BY <1>3, <1>4, <2>4, <3>2
      <4>2. src \in src..nul /\ \A a \in src..nul : a \in Nat /\ src <= a /\ a < stop
        BY <1>4, <2>4, <3>2
      <4>3. (\A a \in src..nul : Allowed(list, a, FALSE)) <=> Allowed(list, src, FALSE)
        BY <2>2, <4>2
      <4>4. Readable(list, src, nul, lim) <=> Allowed(list, src, FALSE)
        BY <1>7, <4>1, <4>3 DEF Readable
      <4> QED
        BY <2>1, <2>3, <2>4, <4>4, Zenon
    <3>3. nul < src \/ src <= nul
      OBVIOUS
    <3> QED
      BY <3>1, <3>2, <3>3, Zenon
  <2>5. CASE ~(nul < stop)
    <3>1. stop <= nul /\ ~(nul < src) /\ ~(nul < stop)
      BY <1>4, <2>1, <2>5
    <3>2. Readable(list, src, nul, lim) <=> nul < lim /\ \A a \in src..nul : Allowed(list, a, FALSE)
      BY <1>7, <3>1 DEF Readable
    <3>3. CASE part = lim - src
      <4>1. ~(nul < lim)
        BY <1>2, <3>1, <3>3
      <4> QED
        BY <1>2, <2>1, <3>1, <3>2, <3>3, <4>1
    <3>4. CASE part # lim - src
      <4>1. stop < lim
        BY <1>2, <1>3, <1>4, <3>4
      <4>2. Readable(list, stop, nul, lim) <=> nul < lim /\ \A a \in stop..nul : Allowed(list, a, FALSE)
        BY <3>1, <4>1 DEF Readable
      <4>3. (\A a \in src..nul : Allowed(list, a, FALSE))
               <=> Allowed(list, src, FALSE) /\ \A a \in stop..nul : Allowed(list, a, FALSE)
        <5>1. \A a \in src..nul : a \in stop..nul \/ (a \in Nat /\ src <= a /\ a < stop)
          BY <1>4
        <5>2. src \in src..nul /\ \A a \in stop..nul : a \in src..nul
          BY <1>4, <2>1, <3>1
        <5> QED
          BY <2>2, <5>1, <5>2
      <4> QED
        BY <1>2, <2>1, <2>3, <3>1, <3>2, <3>4, <4>2, <4>3
    <3> QED
      BY <3>3, <3>4
  <2> QED
    BY <2>4, <2>5
<1>8. src >= lim \/ src < lim
  OBVIOUS
<1> QED
  BY <1>6, <1>7, <1>8, Zenon

(* copy_string accepts the strings that end in time and are readable up to  *)
(* their end.                                                               *)
LEMMA CopyFacts ==
    ASSUME NEW list, Ordered(list), NEW cache \in Range(list) \cup {NULL},
           NEW src0 \in Nat, NEW nul \in Nat, NEW maxn0 \in Nat
    PROVE  copy_string(list, cache, src0, nul, maxn0) <=> Readable(list, src0, nul, src0 + maxn0)
<1>l. PICK lim : lim = src0 + maxn0
  OBVIOUS
<1>0. lim \in Nat
  BY <1>l
<1> DEFINE Part(src) == IF ToPageEnd(src) > src0 + maxn0 - src THEN src0 + maxn0 - src ELSE ToPageEnd(src)
           Round(f, src) == /\ user_mem_check(list, cache, src, src + Part(src), FALSE)
                            /\ \/ nul < src + Part(src)
                               \/ Part(src) # src0 + maxn0 - src /\ f[src + Part(src)]
           rec(f) == [src \in Nat |-> Round(f, src)]
<1>w. PICK W : W = [src \in Nat |-> Readable(list, src, nul, lim)]
  OBVIOUS
<1>1. ASSUME NEW src \in Nat
      PROVE  /\ src < lim => src + Part(src) \in Nat /\ src + Part(src) > src
             /\ Readable(list, src, nul, lim)
                   <=> /\ user_mem_check(list, cache, src, src + Part(src), FALSE)
                       /\ nul < src + Part(src)
                             \/ (Part(src) # src0 + maxn0 - src /\ Readable(list, src + Part(src), nul, lim))
             /\ src + Part(src) \in Nat
  <2>1. PICK part : part = Part(src)
    OBVIOUS
  <2>2. /\ part = IF ToPageEnd(src) > lim - src THEN lim - src ELSE ToPageEnd(src)
        /\ lim - src = src0 + maxn0 - src
    BY <1>l, <2>1
  <2>3. /\ src < lim => part \in Nat \ {0}
        /\ Readable(list, src, nul, lim)
              <=> /\ user_mem_check(list, cache, src, src + part, FALSE)
                  /\ nul < src + part \/ (part # lim - src /\ Readable(list, src + part, nul, lim))
    BY <1>0, <2>2, ReadableRound
  <2>4. ToPageEnd(src) \in Nat \ {0}
    BY PageEndFacts
  <2>5. src + part \in Nat /\ (src < lim => src + part > src)
    BY <1>0, <2>2, <2>3, <2>4
  <2> HIDE DEF Part
  <2> QED
    BY <2>1, <2>2, <2>3, <2>5
<1> HIDE DEF Part
<1>2. ASSUME NEW src \in Nat PROVE W[src] <=> Round(W, src)
  <2>1. PICK next : next = src + Part(src)
    OBVIOUS
  <2>2. next \in Nat /\ (W[next] <=> Readable(list, next, nul, lim)) /\ (W[src] <=> Readable(list, src, nul, lim))
    BY <1>1, <1>w, <2>1
  <2>3. Readable(list, src, nul, lim)
           <=> /\ user_mem_check(list, cache, src, next, FALSE)
               /\ nul < next \/ (Part(src) # src0 + maxn0 - src /\ Readable(list, next, nul, lim))
    BY <1>1, <2>1, Zenon
  <2> QED
    BY <2>1, <2>2, <2>3, Zenon
<1>3. W = rec(W)
  <2>1. \A src \in Nat : W[src] \in BOOLEAN
    BY <1>w DEF Readable
  <2>2. \A src \in Nat : Round(W, src) \in BOOLEAN
    OBVIOUS
  <2>3. \A src \in Nat : W[src] = Round(W, src)
    <3> HIDE DEF Round
    <3> QED
      BY <1>2, <2>1, <2>2
  <2>4. W = [src \in Nat |-> W[src]]
    BY <1>w
  <2> HIDE DEF Round
  <2> QED
    BY <2>3, <2>4, Zenon
<1>c. PICK copy : copy = CHOOSE f : f = rec(f)
  OBVIOUS
<1>4. copy = rec(copy)
  <2> HIDE DEF rec
  <2> QED
    BY <1>3, <1>c
<1>5. \A src \in Nat : copy[src] <=> Round(copy, src)
  <2> HIDE DEF Round
  <2> QED
    BY <1>4
<1>6. \A d \in 0..lim : \A src \in Nat : lim <= src + d => (copy[src] <=> W[src])
  <2> DEFINE B == {d \in 0..lim : \A src \in Nat : lim <= src + d => (copy[src] <=> W[src])}
  <2>1. ASSUME NEW src \in Nat, src >= lim PROVE copy[src] <=> W[src]
    <3>1. PICK next : next = src + Part(src)
      OBVIOUS
    <3>2. ~user_mem_check(list, cache, src, next, FALSE)
      <4>1. ToPageEnd(src) \in Nat \ {0}
        BY PageEndFacts
      <4>2. next \in Nat /\ ~(src < next)
        BY <1>0, <1>l, <1>1, <2>1, <3>1, <4>1 DEF Part
      <4> QED
        BY <4>2, CheckFacts
    <3>3. ~Round(copy, src) /\ ~Round(W, src)
      BY <3>1, <3>2, Zenon
    <3> HIDE DEF Round
    <3> QED
      BY <1>2, <1>5, <3>3
  <2>2. 0 \in B
    BY <1>0, <2>1
  <2>3. ASSUME NEW d \in 1..lim, d - 1 \in B PROVE d \in B
    <3>1. ASSUME NEW src \in Nat, lim <= src + d PROVE copy[src] <=> W[src]
      <4>1. CASE src >= lim
        BY <2>1, <4>1
      <4>2. CASE src < lim
        <5>1. PICK next : next = src + Part(src)
          OBVIOUS
        <5>2. next \in Nat /\ next > src
          BY <1>1, <4>2, <5>1
        <5>3. lim <= next + (d - 1)
          BY <1>0, <3>1, <5>2
        <5>4. copy[next] <=> W[next]
          BY <2>3, <5>2, <5>3
        <5>5. Round(copy, src) <=> Round(W, src)
          BY <5>1, <5>4, Zenon
        <5> HIDE DEF Round
        <5> QED
          BY <1>2, <1>5, <5>5
      <4>3. src >= lim \/ src < lim
        BY <1>0
      <4> QED
        BY <4>1, <4>2, <4>3, Zenon
    <3> QED
      BY <3>1
  <2>4. \A d \in 0..lim : d \in B
    <3> HIDE DEF B
    <3> QED
      BY <1>0, <2>2, <2>3, Upward
  <2> QED
    BY <2>4
<1>7. copy[src0] <=> W[src0]
  <2>1. lim \in 0..lim /\ lim <= src0 + lim
    BY <1>0
  <2> QED
    BY <1>6, <2>1
<1>8. copy_string(list, cache, src0, nul, maxn0) <=> copy[src0]
  BY <1>c DEF copy_string, Part
<1> QED
  BY <1>7, <1>8, <1>l, <1>w

(* The invariant implies that user checks are exact.                        *)
LEMMA InvariantGivesChecks == SpacesIInv => ChecksExact
<1> SUFFICES ASSUME SpacesIInv, NEW m \in Mm, label[m] = "user",
                    NEW list, list = mmap_list[m], NEW cache, cache = mmap_cache[m]
             PROVE  RangesExact(list, cache) /\ StringsExact(list, cache)
  BY DEF ChecksExact
<1>1. Ordered(list) /\ cache \in Range(list) \cup {NULL}
  BY DEF SpacesIInv, MmOK, ListOK
<1>2. USERTOP \in Nat /\ PGSIZE \in Nat /\ USERTOP * PGSIZE \in Nat
  BY Numbers
<1>3. RangesExact(list, cache)
  <2>1. \A a \in Addresses : a \in Nat
    BY <1>2 DEF Addresses
  <2> QED
    BY <1>1, <2>1, CheckFacts DEF RangesExact
<1>4. ASSUME NEW src \in Addresses, NEW nul \in src..(USERTOP * PGSIZE - 1), NEW maxn \in 1..(2 * PGSIZE + 1)
      PROVE  copy_string(list, cache, src, nul, maxn)
                <=> nul - src < maxn /\ \A a \in src..nul : Allowed(list, a, FALSE)
  <2>1. src \in Nat /\ nul \in Nat /\ maxn \in Nat \ {0} /\ ~(nul < src) /\ src < src + maxn
    BY <1>2 DEF Addresses
  <2>2. copy_string(list, cache, src, nul, maxn) <=> Readable(list, src, nul, src + maxn)
    BY <1>1, <2>1, CopyFacts
  <2>3. nul < src + maxn <=> nul - src < maxn
    BY <2>1
  <2> QED
    BY <2>1, <2>2, <2>3, Zenon DEF Readable
<1> QED
  BY <1>3, <1>4 DEF StringsExact

(* Whatever the areas and wherever the cache points, user_mem_check accepts *)
(* a range exactly if all of it may be accessed, and copy_string a string   *)
(* exactly if it ends in time and can be read.                              *)
THEOREM ChecksCorrect == SpacesSpec => []ChecksExact
<1> QED
  BY SpacesInvariance, InvariantGivesChecks, PTL

-----------------------------------------------------------------------------
(***************************************************************************)
(* The family links.                                                       *)
(***************************************************************************)

(* Steps that never lead from inside B to outside stay in B: the only       *)
(* induction the proofs need.                                               *)
LEMMA StaysIn ==
    ASSUME NEW n \in Nat, NEW B, 0 \in B,
           \A i \in 1..n : i - 1 \in B => i \in B
    PROVE  \A i \in 0..n : i \in B
<1> DEFINE Out == {i \in 0..n : i \notin B}
           R == {ss \in Nat \X Nat : ss[1] < ss[2]}
<1>1. SUFFICES ASSUME Out # {} PROVE FALSE OBVIOUS
<1>2. Out \subseteq Nat OBVIOUS
<1>3. IsWellFoundedOn(R, Nat) BY NatLessThanWellFounded, Zenon DEF OpToRel
<1>4. PICK m \in Out : \A y \in Out : ~ (<<y, m>> \in R) BY <1>1, <1>2, <1>3, WFMin
<1>5. m \in 1..n /\ m \notin B /\ m - 1 \in 0..n BY <1>4
<1>6. m - 1 \notin Out
  <2>1. <<m - 1, m>> \in R BY <1>5
  <2> QED BY <1>4, <2>1, Zenon
<1> QED BY <1>5, <1>6

(* A set of numbers that is not empty has a least element.                  *)
LEMMA Least ==
    ASSUME NEW S, S \subseteq Nat, S # {}
    PROVE  \E m \in S : \A y \in S : m <= y
<1> DEFINE R == {ss \in Nat \X Nat : ss[1] < ss[2]}
<1>1. IsWellFoundedOn(R, Nat) BY NatLessThanWellFounded, Zenon DEF OpToRel
<1>2. PICK m \in S : \A y \in S : ~ (<<y, m>> \in R) BY <1>1, WFMin
<1>3. ASSUME NEW y \in S PROVE m <= y
  <2>1. <<y, m>> \notin R BY <1>2, <1>3, Zenon
  <2> QED BY <2>1
<1> QED BY <1>3

(* Min finds it. *)
LEMMA MinIsLeast ==
    ASSUME NEW S, S \subseteq Nat, S # {}
    PROVE  Min(S) \in S /\ \A y \in S : Min(S) <= y
  BY Least DEF Min

(* A walk of n steps exists, wherever a step leads.                         *)
IsWalk(seen, n, start, step) == seen[0] = start /\ \A k \in 1..n : seen[k] = step[seen[k - 1]]

(* The walk of n steps along a function exists.                             *)
LEMMA WalkExists ==
    ASSUME NEW S, NEW step \in [S -> S], NEW start \in S, NEW n \in Nat
    PROVE  \E seen \in [0..n -> S] : IsWalk(seen, n, start, step)
<1> DEFINE B == {k \in 0..n : \E seen \in [0..k -> S] : IsWalk(seen, k, start, step)}
<1>1. 0 \in B
  <2> DEFINE one == [i \in 0..0 |-> start]
  <2>1. one \in [0..0 -> S] /\ one[0] = start /\ 1..0 = {} OBVIOUS
  <2>2. IsWalk(one, 0, start, step) BY <2>1, Zenon DEF IsWalk
  <2>3. 0 \in 0..n OBVIOUS
  <2> QED BY <2>1, <2>2, <2>3, Zenon
<1>2. ASSUME NEW k \in 1..n, k - 1 \in B PROVE k \in B
  <2>1. PICK seen \in [0..(k - 1) -> S] : IsWalk(seen, k - 1, start, step) BY <1>2
  <2> DEFINE longer == [i \in 0..k |-> IF i = k THEN step[seen[k - 1]] ELSE seen[i]]
  <2>2. longer \in [0..k -> S] OBVIOUS
  <2>3. longer[0] = start BY <2>1 DEF IsWalk
  <2>4. ASSUME NEW i \in 1..k PROVE longer[i] = step[longer[i - 1]]
    <3>1. CASE i = k BY <3>1
    <3>2. CASE i < k BY <2>1, <3>2 DEF IsWalk
    <3> QED BY <3>1, <3>2
  <2>5. IsWalk(longer, k, start, step) BY <2>3, <2>4, Zenon DEF IsWalk
  <2>6. k \in 0..n OBVIOUS
  <2> QED BY <2>2, <2>5, <2>6, Zenon
<1>3. \A k \in 0..n : k \in B
  <2> HIDE DEF B
  <2> QED BY <1>1, <1>2, StaysIn
<1>4. n \in B BY <1>3
<1> QED BY <1>4

Item(s, i) == IF i \in DOMAIN s THEN s[i] ELSE NIL

(* The pointers of p and of its children encode the list s.  While p exits, *)
(* its first child may still point to one that was handed over before it.   *)
IsChildList(p, s) ==
    /\ cptr[p] = Item(s, 1)
    /\ \A i \in DOMAIN s : /\ optr[s[i]] = Item(s, i + 1)
                           /\ yptr[s[i]] = Item(s, i - 1) \/ (p = exiting /\ i = 1)
                           /\ parent[s[i]] = p
    /\ \A i, j \in DOMAIN s : s[i] = s[j] => i = j

IsFamily(kids) ==
    /\ kids \in [exists -> Seq(exists)]
    /\ \A p \in exists : IsChildList(p, kids[p])
    /\ \A q \in exists \ {init_task} :
          parent[q] \in exists /\ \E i \in DOMAIN kids[parent[q]] : kids[parent[q]][i] = q
    /\ init_task \in Alive /\ parent[init_task] = NIL
    /\ \A z \in zombies \ {exiting} : kids[z] = <<>>
    /\ exiting = NIL \/ exiting \in zombies

LinksIInv == LinksTypeOK /\ IsFamily([p \in exists |-> ChildList(p)])

(* The recursive function of the loop over optr is what its equation says.  *)
LEMMA ChainProperties ==
    ASSUME NEW first \in Task \cup {NIL}, NEW older \in [Task -> Task \cup {NIL}]
    PROVE  LET proc == Chain(first, older)
               N == Cardinality(Task) IN
           /\ N \in Nat /\ DOMAIN proc = 0..N
           /\ proc[0] = first
           /\ \A k \in 1..N : proc[k] = IF proc[k - 1] = NIL THEN NIL ELSE older[proc[k - 1]]
<1> DEFINE N == Cardinality(Task)
           S == Task \cup {NIL}
           step == [e \in S |-> IF e = NIL THEN NIL ELSE older[e]]
           rec(seen) == [k \in 0..N |-> IF k = 0 THEN first
                        ELSE IF seen[k - 1] = NIL THEN NIL ELSE older[seen[k - 1]]]
<1>0. N \in Nat BY LinksAssumption, FS_CardinalityType
<1>1. step \in [S -> S] OBVIOUS
<1>2. PICK seen \in [0..N -> S] : seen[0] = first /\ \A k \in 1..N : seen[k] = step[seen[k - 1]]
  <2> HIDE DEF step, S, N
  <2>1. first \in S BY DEF S
  <2>2. \E seen \in [0..N -> S] : IsWalk(seen, N, first, step) BY <1>0, <1>1, <2>1, WalkExists
  <2> QED BY <2>2, Zenon DEF IsWalk
<1>3. seen = rec(seen)
  <2>1. ASSUME NEW k \in 0..N PROVE seen[k] = rec(seen)[k]
    <3>1. CASE k = 0 BY <1>2, <3>1
    <3>2. CASE k # 0
      <4>1. k \in 1..N /\ k - 1 \in 0..N BY <1>0, <3>2
      <4>2. seen[k] = step[seen[k - 1]] /\ seen[k - 1] \in S BY <1>2, <4>1
      <4>3. seen[k] = IF seen[k - 1] = NIL THEN NIL ELSE older[seen[k - 1]] BY <4>2
      <4> QED BY <3>2, <4>3
    <3> QED BY <3>1, <3>2
  <2> QED BY <2>1
<1>4. Chain(first, older) = CHOOSE f : f = rec(f) BY DEF Chain
<1>5. Chain(first, older) = rec(Chain(first, older))
  <2> HIDE DEF rec
  <2> QED BY <1>3, <1>4
<1> DEFINE proc == Chain(first, older)
<1>6. proc = rec(proc) BY <1>5
<1> SUFFICES /\ N \in Nat /\ DOMAIN proc = 0..N
             /\ proc[0] = first
             /\ \A k \in 1..N : proc[k] = IF proc[k - 1] = NIL THEN NIL ELSE older[proc[k - 1]]
  OBVIOUS
<1> HIDE DEF proc
<1>7. DOMAIN proc = 0..N
  <2>1. DOMAIN rec(proc) = 0..N OBVIOUS
  <2> QED BY <1>6, <2>1
<1>8. \A k \in 0..N : proc[k] = IF k = 0 THEN first
                        ELSE IF proc[k - 1] = NIL THEN NIL ELSE older[proc[k - 1]]
  <2>1. \A k \in 0..N : rec(proc)[k] = IF k = 0 THEN first
                        ELSE IF proc[k - 1] = NIL THEN NIL ELSE older[proc[k - 1]]
    OBVIOUS
  <2> HIDE DEF rec
  <2> QED BY <1>6, <2>1
<1> HIDE DEF N, rec
<1>9. proc[0] = first BY <1>0, <1>8
<1>10. \A k \in 1..N : proc[k] = IF proc[k - 1] = NIL THEN NIL ELSE older[proc[k - 1]] BY <1>0, <1>8
<1> QED BY <1>0, <1>7, <1>9, <1>10

(* No list without repetition is longer than there are processes.           *)
LEMMA ListLength ==
    ASSUME NEW T, IsFiniteSet(T), NEW s \in Seq(T), \A i, j \in DOMAIN s : s[i] = s[j] => i = j
    PROVE  Len(s) <= Cardinality(T)
<1>1. s \in [1..Len(s) -> T] /\ Len(s) \in Nat /\ DOMAIN s = 1..Len(s) OBVIOUS
<1>2. s \in Injection(1..Len(s), T) BY <1>1 DEF Injection, IsInjective
<1>3. Cardinality(1..Len(s)) = Len(s)
  <2>1. Len(s) \in Int /\ 1 \in Int BY <1>1
  <2>2. Cardinality(1..Len(s)) = IF 1 > Len(s) THEN 0 ELSE Len(s) - 1 + 1
    BY <2>1, FS_Interval, Zenon
  <2> QED BY <1>1, <2>2
<1> QED BY <1>2, <1>3, FS_Injection

(* The loop sees the list that the pointers encode.                         *)
LEMMA ListedIs ==
    ASSUME NEW older \in [Task -> Task \cup {NIL}], NEW s \in Seq(Task),
           \A i, j \in DOMAIN s : s[i] = s[j] => i = j,
           \A i \in DOMAIN s : older[s[i]] = Item(s, i + 1)
    PROVE  Listed(Item(s, 1), older) = s
<1> DEFINE N == Cardinality(Task)
           L == Len(s)
           proc == Chain(Item(s, 1), older)
           B == {k \in 0..L : proc[k] = Item(s, k + 1)}
           Ends == {k \in 0..N : proc[k] = NIL}
<1>0. L \in Nat /\ DOMAIN s = 1..L /\ (\A i \in 1..L : s[i] \in Task) /\ NIL \notin Task
  BY LinksAssumption
<1>1. Item(s, 1) \in Task \cup {NIL} BY <1>0 DEF Item
<1>2. /\ N \in Nat /\ DOMAIN proc = 0..N
      /\ proc[0] = Item(s, 1)
      /\ \A k \in 1..N : proc[k] = IF proc[k - 1] = NIL THEN NIL ELSE older[proc[k - 1]]
  BY <1>1, ChainProperties
<1>3. L <= N BY ListLength, LinksAssumption
<1> HIDE DEF N, L, proc
<1>4. 0 \in B BY <1>0, <1>2
<1>5. ASSUME NEW k \in 1..L, k - 1 \in B PROVE k \in B
  <2>1. k \in 1..N /\ k \in DOMAIN s BY <1>0, <1>2, <1>3
  <2>2. proc[k - 1] = s[k]
    <3>1. proc[k - 1] = Item(s, (k - 1) + 1) /\ (k - 1) + 1 = k BY <1>5
    <3> QED BY <2>1, <3>1 DEF Item
  <2>3. s[k] # NIL BY <1>0
  <2>4. proc[k] = older[s[k]] BY <1>2, <2>1, <2>2, <2>3
  <2>5. proc[k] = Item(s, k + 1) BY <2>1, <2>4
  <2> QED BY <2>5
<1>6. \A k \in 0..L : proc[k] = Item(s, k + 1)
  <2>1. \A k \in 0..L : k \in B
    <3> HIDE DEF B
    <3> QED BY <1>0, <1>4, <1>5, StaysIn
  <2> QED BY <2>1
<1>7. \A k \in 0..(L - 1) : proc[k] = s[k + 1] /\ proc[k] # NIL
  <2> SUFFICES ASSUME NEW k \in 0..(L - 1) PROVE proc[k] = s[k + 1] /\ proc[k] # NIL
    OBVIOUS
  <2>1. k \in 0..L /\ k + 1 \in 1..L BY <1>0
  <2> QED BY <1>0, <1>6, <2>1 DEF Item
<1>8. proc[L] = NIL BY <1>0, <1>6 DEF Item
<1>9. Min(Ends) = L
  <2>1. L \in Ends /\ Ends \subseteq Nat BY <1>0, <1>2, <1>3, <1>8
  <2>2. \A k \in Ends : L <= k BY <1>0, <1>2, <1>7
  <2>3. Min(Ends) \in Ends /\ \A y \in Ends : Min(Ends) <= y
    <3> HIDE DEF Ends
    <3> QED BY <2>1, MinIsLeast
  <2>4. Min(Ends) \in Nat /\ Min(Ends) <= L /\ L <= Min(Ends)
    <3> HIDE DEF Ends
    <3> QED BY <2>1, <2>2, <2>3
  <2> QED BY <1>0, <2>4
<1>10. Listed(Item(s, 1), older) = [i \in 1..L |-> proc[i - 1]]
  <2>1. Listed(Item(s, 1), older)
          = [i \in 1..Min({k \in DOMAIN proc : proc[k] = NIL}) |-> proc[i - 1]]
    BY DEF Listed, proc
  <2>2. {k \in DOMAIN proc : proc[k] = NIL} = Ends BY <1>2
  <2> QED BY <1>9, <2>1, <2>2, Zenon
<1>11. \A i \in 1..L : proc[i - 1] = s[i]
  <2> SUFFICES ASSUME NEW i \in 1..L PROVE proc[i - 1] = s[i]
    OBVIOUS
  <2>1. i - 1 \in 0..(L - 1) /\ (i - 1) + 1 = i BY <1>0
  <2> QED BY <1>7, <2>1
<1>12. s = [i \in 1..L |-> s[i]] BY <1>0 DEF L
<1>13. [i \in 1..L |-> proc[i - 1]] = [i \in 1..L |-> s[i]]
  <2> HIDE DEF proc
  <2> QED BY <1>11, Zenon
<1> QED BY <1>10, <1>12, <1>13, Zenon

(* The pointers c and o encode the lists of the processes of E.             *)
Encodes(E, c, o, kids) ==
    /\ E \subseteq Task
    /\ c \in [Task -> Task \cup {NIL}] /\ o \in [Task -> Task \cup {NIL}]
    /\ kids \in [E -> Seq(E)]
    /\ \A p \in E : /\ c[p] = Item(kids[p], 1)
                    /\ \A i \in DOMAIN kids[p] : o[kids[p][i]] = Item(kids[p], i + 1)
                    /\ \A i, j \in DOMAIN kids[p] : kids[p][i] = kids[p][j] => i = j

(* The lists that the pointers encode are those that a loop over optr sees. *)
LEMMA FamilyLists ==
    ASSUME NEW E, NEW c, NEW o, NEW kids, Encodes(E, c, o, kids)
    PROVE  kids = [p \in E |-> Listed(c[p], o)]
<1> USE DEF Encodes
<1>1. ASSUME NEW p \in E PROVE kids[p] = Listed(c[p], o)
  <2>1. kids[p] \in Seq(Task) BY SeqMonotonic
  <2>2. Listed(Item(kids[p], 1), o) = kids[p] BY <2>1, ListedIs
  <2> QED BY <2>2
<1> QED BY <1>1

(* In each state they are the lists of children,                            *)
LEMMA FamilyIs ==
    ASSUME LinksTypeOK, NEW kids, IsFamily(kids)
    PROVE  kids = [p \in exists |-> ChildList(p)]
<1>1. /\ exists \subseteq Task
      /\ cptr \in [Task -> Task \cup {NIL}] /\ optr \in [Task -> Task \cup {NIL}]
  BY DEF LinksTypeOK
<1>2. kids \in [exists -> Seq(exists)] BY DEF IsFamily
<1>3. \A p \in exists :
         /\ cptr[p] = Item(kids[p], 1)
         /\ \A i \in DOMAIN kids[p] : optr[kids[p][i]] = Item(kids[p], i + 1)
         /\ \A i, j \in DOMAIN kids[p] : kids[p][i] = kids[p][j] => i = j
  BY DEF IsFamily, IsChildList
<1>4. Encodes(exists, cptr, optr, kids) BY <1>1, <1>2, <1>3 DEF Encodes
<1>5. kids = [p \in exists |-> Listed(cptr[p], optr)] BY <1>4, FamilyLists, Zenon
<1> QED BY <1>5 DEF ChildList

(* and in the next state too.                                               *)
LEMMA NextFamilyIs ==
    ASSUME LinksTypeOK', NEW kids, IsFamily(kids)'
    PROVE  kids = [p \in exists |-> ChildList(p)]'
<1>1. /\ exists' \subseteq Task
      /\ cptr' \in [Task -> Task \cup {NIL}] /\ optr' \in [Task -> Task \cup {NIL}]
  BY DEF LinksTypeOK
<1>2. kids \in [exists' -> Seq(exists')] BY DEF IsFamily
<1>3. \A p \in exists' :
         /\ cptr'[p] = Item(kids[p], 1)
         /\ \A i \in DOMAIN kids[p] : optr'[kids[p][i]] = Item(kids[p], i + 1)
         /\ \A i, j \in DOMAIN kids[p] : kids[p][i] = kids[p][j] => i = j
  BY DEF IsFamily, IsChildList
<1>4. Encodes(exists', cptr', optr', kids) BY <1>1, <1>2, <1>3 DEF Encodes
<1>5. kids = [p \in exists' |-> Listed(cptr'[p], optr')] BY <1>4, FamilyLists, Zenon
<1> QED BY <1>5 DEF ChildList

(* A list with one more element in front.                                   *)
LEMMA ConsIs ==
    ASSUME NEW T, NEW e \in T, NEW s \in Seq(T)
    PROVE  LET r == <<e>> \o s IN
           /\ r \in Seq(T) /\ Len(r) = Len(s) + 1 /\ DOMAIN r = 1..(Len(s) + 1)
           /\ r[1] = e /\ \A i \in 2..(Len(s) + 1) : r[i] = s[i - 1]
<1>1. <<e>> \in Seq(T) /\ Len(<<e>>) = 1 /\ <<e>>[1] = e OBVIOUS
<1>2. Len(s) \in Nat OBVIOUS
<1> QED BY <1>1, <1>2, ConcatProperties, LenProperties

(* A list without its first element. *)
LEMMA TailIs ==
    ASSUME NEW T, NEW s \in Seq(T), s # <<>>
    PROVE  /\ Tail(s) \in Seq(T) /\ Len(s) \in Nat \ {0} /\ DOMAIN Tail(s) = 1..(Len(s) - 1)
           /\ Len(Tail(s)) = Len(s) - 1 /\ Head(s) = s[1]
           /\ \A i \in 1..(Len(s) - 1) : Tail(s)[i] = s[i + 1]
<1> QED BY HeadTailProperties, LenProperties, EmptySeq

(* What RemoveAt of the community modules returns.                          *)
LEMMA RemoveAtIs ==
    ASSUME NEW T, NEW s \in Seq(T), NEW k \in DOMAIN s
    PROVE  LET r == RemoveAt(s, k) IN
           /\ r \in Seq(T) /\ Len(r) = Len(s) - 1 /\ DOMAIN r = 1..(Len(s) - 1)
           /\ \A i \in 1..(Len(s) - 1) : r[i] = IF i < k THEN s[i] ELSE s[i + 1]
<1> DEFINE a == SubSeq(s, 1, k - 1)
           b == SubSeq(s, k + 1, Len(s))
<1>1. Len(s) \in Nat /\ k \in 1..Len(s) /\ \A i \in 1..Len(s) : s[i] \in T OBVIOUS
<1>2. a \in Seq(T) /\ Len(a) = k - 1 /\ \A i \in 1..(k - 1) : a[i] = s[i]
  <2>1. 1 \in Int /\ k - 1 \in Int /\ \A i \in 1..(k - 1) : s[i] \in T BY <1>1
  <2> QED BY <1>1, <2>1, SubSeqProperties
<1>3. b \in Seq(T) /\ Len(b) = Len(s) - k /\ \A i \in 1..(Len(s) - k) : b[i] = s[k + i]
  <2>1. k + 1 \in Int /\ Len(s) \in Int /\ \A i \in (k + 1)..Len(s) : s[i] \in T BY <1>1
  <2> QED BY <1>1, <2>1, SubSeqProperties
<1> HIDE DEF a, b
<1>4. /\ a \o b \in Seq(T) /\ Len(a \o b) = Len(s) - 1
      /\ \A i \in 1..(Len(s) - 1) : (a \o b)[i] = IF i <= k - 1 THEN a[i] ELSE b[i - (k - 1)]
  <2>1. /\ a \o b \in Seq(T) /\ Len(a \o b) = Len(a) + Len(b)
        /\ \A i \in 1..(Len(a) + Len(b)) : (a \o b)[i] = IF i <= Len(a) THEN a[i] ELSE b[i - Len(a)]
    BY <1>2, <1>3, ConcatProperties
  <2>2. Len(a) + Len(b) = Len(s) - 1 BY <1>1, <1>2, <1>3
  <2> QED BY <1>2, <2>1, <2>2
<1>5. \A i \in 1..(Len(s) - 1) : (a \o b)[i] = IF i < k THEN s[i] ELSE s[i + 1]
  <2> SUFFICES ASSUME NEW i \in 1..(Len(s) - 1)
               PROVE  (a \o b)[i] = IF i < k THEN s[i] ELSE s[i + 1]
    OBVIOUS
  <2>1. CASE i < k BY <1>1, <1>2, <1>4, <2>1
  <2>2. CASE ~ (i < k)
    <3>1. i - (k - 1) \in 1..(Len(s) - k) /\ k + (i - (k - 1)) = i + 1 /\ ~ (i <= k - 1)
      BY <1>1, <2>2
    <3> QED BY <1>3, <1>4, <2>2, <3>1
  <2> QED BY <2>1, <2>2
<1>6. RemoveAt(s, k) = a \o b BY DEF RemoveAt, a, b
<1> QED BY <1>4, <1>5, <1>6, LenProperties

(* Facts about a family that every step uses.                               *)
LEMMA FamilyFacts ==
    ASSUME LinksTypeOK, NEW kids, IsFamily(kids), NEW p \in exists
    PROVE  LET s == kids[p] IN
           /\ s \in Seq(exists) /\ s \in Seq(Task) /\ Len(s) \in Nat /\ DOMAIN s = 1..Len(s)
           /\ cptr[p] = Item(s, 1)
           /\ \A i \in 1..Len(s) : /\ s[i] \in exists /\ s[i] \in Task /\ s[i] # init_task
                                   /\ s[i] # NIL /\ parent[s[i]] = p
                                   /\ optr[s[i]] = Item(s, i + 1)
                                   /\ (yptr[s[i]] = Item(s, i - 1) \/ (p = exiting /\ i = 1))
           /\ \A i, j \in 1..Len(s) : s[i] = s[j] => i = j
           /\ NIL \notin Task
<1> DEFINE s == kids[p]
<1>1. s \in Seq(exists) BY DEF IsFamily
<1>2. s \in Seq(Task) /\ Len(s) \in Nat /\ DOMAIN s = 1..Len(s)
  BY <1>1, SeqMonotonic, LenProperties DEF LinksTypeOK
<1>3. IsChildList(p, s) BY DEF IsFamily
<1>4. p # NIL /\ NIL \notin Task BY LinksAssumption DEF LinksTypeOK
<1>5. parent[init_task] = NIL BY DEF IsFamily
<1>6. \A i \in 1..Len(s) : s[i] \in exists /\ s[i] \in Task BY <1>1, <1>2
<1> QED BY <1>1, <1>2, <1>3, <1>4, <1>5, <1>6 DEF IsChildList

ChildFacts(p, s) ==
    /\ s \in Seq(exists) /\ s \in Seq(Task) /\ Len(s) \in Nat /\ DOMAIN s = 1..Len(s)
    /\ cptr[p] = Item(s, 1)
    /\ \A i \in 1..Len(s) : /\ s[i] \in exists /\ s[i] \in Task /\ s[i] # init_task
                            /\ s[i] # NIL /\ parent[s[i]] = p
                            /\ optr[s[i]] = Item(s, i + 1)
                            /\ (yptr[s[i]] = Item(s, i - 1) \/ (p = exiting /\ i = 1))
    /\ \A i, j \in 1..Len(s) : s[i] = s[j] => i = j

(* The same of a list under another name.                                   *)
LEMMA ListFacts ==
    ASSUME LinksTypeOK, NEW kids, IsFamily(kids), NEW p \in exists, NEW s, s = kids[p]
    PROVE  ChildFacts(p, s)
<1>1. ChildFacts(p, kids[p]) BY FamilyFacts DEF ChildFacts
<1> QED BY <1>1

Born(kids, p, kid) ==
    [q \in DOMAIN kids \cup {kid} |->
        IF q = kid THEN <<>> ELSE IF q = p THEN <<kid>> \o kids[p] ELSE kids[q]]

(* p's children are in the list t, and kid is not one of them.              *)
OthersIn(p, kid, t) ==
    /\ t \in Seq(Task) /\ cptr[p] = Item(t, 1)
    /\ \A i \in 1..Len(t) : /\ t[i] \in Task /\ t[i] # kid /\ parent[t[i]] = p
                            /\ optr[t[i]] = Item(t, i + 1) /\ yptr[t[i]] = Item(t, i - 1)
    /\ \A i, j \in 1..Len(t) : t[i] = t[j] => i = j

(* The pointers that change when kid becomes p's first child.               *)
PutFirst(p, kid) ==
    /\ \A x \in Task : yptr'[x] = IF x = cptr[p] THEN kid ELSE IF x = kid THEN NIL ELSE yptr[x]
    /\ cptr'[p] = kid /\ optr'[kid] = cptr[p] /\ parent'[kid] = p
    /\ \A x \in Task \ {kid} : optr'[x] = optr[x] /\ parent'[x] = parent[x]

(* The list of p when kid was put before the others.                        *)
LEMMA PrependChild ==
    ASSUME NEW p \in Task, NEW kid \in Task, NIL \notin Task, NEW t, OthersIn(p, kid, t),
           PutFirst(p, kid), NEW s, s = <<kid>> \o t
    PROVE  IsChildList(p, s)'
<1> USE DEF OthersIn, PutFirst
<1>4. Len(t) \in Nat /\ DOMAIN t = 1..Len(t) BY LenProperties
<1>5. /\ s \in Seq(Task) /\ Len(s) = Len(t) + 1 /\ DOMAIN s = 1..(Len(t) + 1)
      /\ s[1] = kid /\ \A i \in 2..(Len(t) + 1) : s[i] = t[i - 1]
  BY ConsIs
<1>1. cptr'[p] = Item(s, 1) BY <1>4, <1>5 DEF Item
<1>2. ASSUME NEW i \in 1..(Len(t) + 1)
      PROVE  optr'[s[i]] = Item(s, i + 1) /\ yptr'[s[i]] = Item(s, i - 1) /\ parent'[s[i]] = p
  <2>1. CASE i = 1
    <3>1. optr'[kid] = Item(s, 2) BY <1>4, <1>5 DEF Item
    <3>2. yptr'[kid] = NIL
      <4>1. cptr[p] # kid BY <1>4 DEF Item
      <4> QED BY <4>1
    <3>3. Item(s, 0) = NIL BY <1>5 DEF Item
    <3> QED BY <1>5, <2>1, <3>1, <3>2, <3>3
  <2>2. CASE i # 1
    <3> DEFINE x == t[i - 1]
    <3>1. i - 1 \in 1..Len(t) /\ i \in 2..(Len(t) + 1) /\ s[i] = x BY <1>4, <1>5, <2>2
    <3>2. x \in Task /\ x # kid /\ parent[x] = p BY <1>4, <3>1
    <3>3. optr'[x] = Item(t, i) /\ parent'[x] = p
      <4>1. (i - 1) + 1 = i OBVIOUS
      <4>2. optr[x] = Item(t, i) BY <3>1, <4>1
      <4> QED BY <3>2, <4>2
    <3>4. Item(t, i) = Item(s, i + 1) BY <1>4, <1>5, <3>1 DEF Item
    <3>5. yptr'[x] = Item(s, i - 1)
      <4>1. CASE i = 2
        <5>1. x = cptr[p] BY <1>4, <3>1, <4>1 DEF Item
        <5> QED BY <1>5, <3>2, <4>1, <5>1 DEF Item
      <4>2. CASE i # 2
        <5>1. x # cptr[p]
          <6>1. 1 \in 1..Len(t) /\ i - 1 # 1 /\ cptr[p] = t[1] BY <1>4, <3>1, <4>2 DEF Item
          <6> QED BY <1>4, <3>1, <6>1
        <5>2. yptr[x] = Item(t, (i - 1) - 1) BY <1>4, <3>1
        <5>3. (i - 1) - 1 \in 1..Len(t) /\ i - 1 \in 2..(Len(t) + 1) BY <1>4, <3>1, <4>2
        <5> QED BY <1>4, <1>5, <3>2, <5>1, <5>2, <5>3 DEF Item
      <4> QED BY <4>1, <4>2
    <3> QED BY <3>1, <3>3, <3>4, <3>5
  <2> QED BY <2>1, <2>2
<1>3. ASSUME NEW i \in 1..(Len(t) + 1), NEW j \in 1..(Len(t) + 1), s[i] = s[j] PROVE i = j
  <2>1. \A k \in 2..(Len(t) + 1) : k - 1 \in 1..Len(t) /\ s[k] = t[k - 1] /\ s[k] # kid
    BY <1>4, <1>5
  <2>2. i # 1 /\ j # 1 => i - 1 = j - 1
    <3> SUFFICES ASSUME i # 1, j # 1 PROVE i - 1 = j - 1
      OBVIOUS
    <3>1. i \in 2..(Len(t) + 1) /\ j \in 2..(Len(t) + 1) BY <1>4
    <3>2. t[i - 1] = t[j - 1] /\ i - 1 \in 1..Len(t) /\ j - 1 \in 1..Len(t) BY <1>3, <2>1, <3>1
    <3> QED BY <1>4, <3>2
  <2> QED BY <1>4, <1>5, <1>3, <2>1, <2>2
<1> QED BY <1>1, <1>2, <1>3, <1>5 DEF IsChildList

(* set_links puts the new child in front.                                   *)
LEMMA LinkChildFamily ==
    ASSUME LinksTypeOK, NEW kids, IsFamily(kids), NEW p \in Task, NEW kid \in Task,
           link_child(p, kid), NEW kk, kk = Born(kids, p, kid)
    PROVE  LinksTypeOK' /\ IsFamily(kk)'
<1>t. PICK t : t = kids[p] OBVIOUS
<1>s. PICK s : s = <<kid>> \o t OBVIOUS
<1> DEFINE y == [yptr EXCEPT ![kid] = NIL]
<1>1. /\ exiting = NIL /\ p \in Alive /\ kid \notin exists /\ p # kid
      /\ exists' = exists \cup {kid}
      /\ parent' = [parent EXCEPT ![kid] = p]
      /\ optr' = [optr EXCEPT ![kid] = cptr[p]]
      /\ yptr' = Set(y, cptr[p], kid)
      /\ cptr' = [cptr EXCEPT ![p] = kid, ![kid] = NIL]
      /\ zombies' = zombies /\ exiting' = exiting
  BY DEF link_child, set_links, Alive
<1>2. p \in exists /\ DOMAIN kids = exists /\ NIL \notin Task /\ cptr[p] \in Task \cup {NIL}
  BY <1>1, LinksAssumption DEF Alive, LinksTypeOK, IsFamily
<1>3. LinksTypeOK' BY <1>1, <1>2 DEF LinksTypeOK, Set
<1>4. /\ t \in Seq(exists) /\ Len(t) \in Nat /\ DOMAIN t = 1..Len(t)
      /\ cptr[p] = Item(t, 1)
      /\ \A i \in 1..Len(t) : t[i] \in exists /\ t[i] \in Task /\ t[i] # NIL /\ parent[t[i]] = p
                              /\ optr[t[i]] = Item(t, i + 1) /\ yptr[t[i]] = Item(t, i - 1)
      /\ \A i, j \in 1..Len(t) : t[i] = t[j] => i = j
  <2>1. ChildFacts(p, t) /\ p # exiting
    <3>1. ChildFacts(p, t) BY <1>2, <1>t, ListFacts
    <3> QED BY <1>1, <1>2, <3>1, LinksAssumption DEF LinksTypeOK
  <2> QED BY <2>1 DEF ChildFacts
<1>5. /\ s \in Seq(exists \cup {kid}) /\ Len(s) = Len(t) + 1 /\ DOMAIN s = 1..(Len(t) + 1)
      /\ s[1] = kid /\ \A i \in 2..(Len(t) + 1) : s[i] = t[i - 1]
  <2>1. t \in Seq(exists \cup {kid}) BY <1>4, SeqMonotonic
  <2> QED BY <1>s, <2>1, ConsIs
<1>6. \A x \in Task : yptr'[x] = IF x = cptr[p] THEN kid ELSE IF x = kid THEN NIL ELSE yptr[x]
  BY <1>1, <1>2 DEF Set, LinksTypeOK
<1>7. /\ cptr'[p] = kid /\ cptr'[kid] = NIL /\ \A x \in Task \ {p, kid} : cptr'[x] = cptr[x]
      /\ optr'[kid] = cptr[p] /\ parent'[kid] = p
      /\ \A x \in Task \ {kid} : optr'[x] = optr[x] /\ parent'[x] = parent[x]
  BY <1>1, <1>2 DEF LinksTypeOK
<1>8. kk \in [exists' -> Seq(exists')]
  <2>1. \A q \in exists : kids[q] \in Seq(exists \cup {kid}) BY SeqMonotonic DEF IsFamily
  <2>2. <<>> \in Seq(exists \cup {kid}) BY EmptySeq
  <2> QED BY <1>1, <1>2, <1>5, <1>s, <1>t, <2>1, <2>2 DEF Born
<1>9. kk[kid] = <<>> /\ kk[p] = s /\ \A q \in exists \ {p} : kk[q] = kids[q]
  BY <1>1, <1>2, <1>s, <1>t DEF Born
<1>10. ASSUME NEW q \in exists' PROVE IsChildList(q, kk[q])'
  <2>1. CASE q = kid BY <1>7, <1>9, <2>1 DEF IsChildList, Item
  <2>2. CASE q = p
    <3>1. t \in Seq(Task) /\ \A i \in 1..Len(t) : t[i] # kid
      BY <1>1, <1>4, <1>3, SeqMonotonic DEF LinksTypeOK
    <3>2. OthersIn(p, kid, t) BY <1>4, <3>1 DEF OthersIn
    <3>3. PutFirst(p, kid) BY <1>6, <1>7 DEF PutFirst
    <3>4. IsChildList(p, s)' BY <1>s, <1>2, <3>2, <3>3, PrependChild
    <3> QED BY <1>9, <2>2, <3>4
  <2>3. CASE q # kid /\ q # p
    <3> DEFINE r == kids[q]
    <3>1. q \in exists /\ kk[q] = r /\ q \in Task BY <1>1, <1>9, <2>3 DEF LinksTypeOK
    <3>2. /\ DOMAIN r = 1..Len(r) /\ Len(r) \in Nat /\ cptr[q] = Item(r, 1)
          /\ \A i \in 1..Len(r) : r[i] \in exists /\ r[i] \in Task /\ parent[r[i]] = q
                                  /\ optr[r[i]] = Item(r, i + 1) /\ yptr[r[i]] = Item(r, i - 1)
          /\ \A i, j \in 1..Len(r) : r[i] = r[j] => i = j
      <4>1. q # exiting BY <1>1, <3>1, LinksAssumption
      <4> QED BY <3>1, <4>1, FamilyFacts
    <3>3. ASSUME NEW i \in 1..Len(r) PROVE r[i] # kid /\ r[i] # cptr[p]
      <4>1. cptr[p] # NIL => parent[cptr[p]] = p BY <1>4 DEF Item
      <4> QED BY <1>1, <1>2, <2>3, <3>2, <4>1
    <3>4. ASSUME NEW i \in 1..Len(r)
          PROVE  optr'[r[i]] = optr[r[i]] /\ yptr'[r[i]] = yptr[r[i]] /\ parent'[r[i]] = parent[r[i]]
      BY <1>6, <1>7, <3>2, <3>3
    <3>5. cptr'[q] = cptr[q] BY <1>7, <2>3, <3>1
    <3>7. cptr'[q] = Item(r, 1) BY <3>2, <3>5
    <3>8. \A i \in DOMAIN r : /\ optr'[r[i]] = Item(r, i + 1) /\ yptr'[r[i]] = Item(r, i - 1)
                              /\ parent'[r[i]] = q
      BY <3>2, <3>4
    <3>9. PICK x : x = kids[q] OBVIOUS
    <3>10. IsChildList(q, x)' BY <3>2, <3>7, <3>8, <3>9 DEF IsChildList
    <3> QED BY <3>1, <3>9, <3>10
  <2> QED BY <2>1, <2>2, <2>3
<1>11. ASSUME NEW q \in exists' \ {init_task}
       PROVE  parent'[q] \in exists' /\ \E i \in DOMAIN kk[parent'[q]] : kk[parent'[q]][i] = q
  <2>1. CASE q = kid
    <3>1. 1 \in DOMAIN s /\ s[1] = kid BY <1>4, <1>5
    <3> QED BY <1>1, <1>2, <1>7, <1>9, <2>1, <3>1
  <2>2. CASE q # kid
    <3>1. q \in exists \ {init_task} /\ q \in Task BY <1>1, <2>2 DEF LinksTypeOK
    <3>2. parent[q] \in exists /\ \E i \in DOMAIN kids[parent[q]] : kids[parent[q]][i] = q
      BY <3>1 DEF IsFamily
    <3>3. parent'[q] = parent[q] BY <1>7, <2>2, <3>1
    <3>4. CASE parent[q] = p
      <4>1. PICK i \in 1..Len(t) : t[i] = q BY <1>4, <1>t, <3>2, <3>4
      <4>2. i + 1 \in DOMAIN s /\ s[i + 1] = q BY <1>4, <1>5, <4>1
      <4>3. kk[parent'[q]] = s /\ parent'[q] \in exists' BY <1>1, <1>2, <1>9, <3>3, <3>4
      <4> QED BY <4>2, <4>3
    <3>5. CASE parent[q] # p
      <4>1. kk[parent'[q]] = kids[parent[q]] /\ parent'[q] \in exists'
        BY <1>1, <1>9, <3>2, <3>3, <3>5
      <4> QED BY <3>2, <4>1
    <3> QED BY <3>4, <3>5
  <2> QED BY <2>1, <2>2
<1>12. init_task \in Alive' /\ parent'[init_task] = NIL
  BY <1>1, <1>7, LinksAssumption DEF IsFamily, Alive, LinksTypeOK
<1>13. \A z \in zombies' \ {exiting'} : kk[z] = <<>> BY <1>1, <1>9 DEF IsFamily, Alive, LinksTypeOK
<1>14. exiting' = NIL \/ exiting' \in zombies' BY <1>1
<1> QED BY <1>3, <1>8, <1>10, <1>11, <1>12, <1>13, <1>14 DEF IsFamily

(* A list none of whose pointers are assigned.                              *)
LEMMA KeptList ==
    ASSUME NEW q, NEW r, IsChildList(q, r), q # exiting \/ exiting' = exiting,
           cptr'[q] = cptr[q],
           \A i \in DOMAIN r : optr'[r[i]] = optr[r[i]] /\ yptr'[r[i]] = yptr[r[i]]
                               /\ parent'[r[i]] = parent[r[i]]
    PROVE  IsChildList(q, r)'
BY DEF IsChildList

(* The beginning of an exit changes no list.                                *)
LEMMA BeginExitFamily ==
    ASSUME LinksTypeOK, NEW kids, IsFamily(kids), NEW p \in Task, begin_exit(p)
    PROVE  LinksTypeOK' /\ IsFamily(kids)'
<1>1. /\ exiting = NIL /\ p \in exists \ zombies /\ p # init_task /\ zombies' = zombies \cup {p}
      /\ exiting' = p /\ exists' = exists /\ parent' = parent /\ cptr' = cptr
      /\ yptr' = yptr /\ optr' = optr
  BY DEF begin_exit, Alive
<1>2. LinksTypeOK' BY <1>1 DEF LinksTypeOK
<1>3. ASSUME NEW q \in exists' PROVE IsChildList(q, kids[q])'
  <2>1. q \in exists /\ q # exiting BY <1>1, LinksAssumption DEF LinksTypeOK
  <2>2. IsChildList(q, kids[q]) BY <2>1 DEF IsFamily
  <2> QED BY <1>1, <2>1, <2>2, KeptList
<1>4. init_task \in Alive' /\ exiting' \in zombies' BY <1>1 DEF IsFamily, Alive
<1>5. \A z \in zombies' \ {exiting'} : kids[z] = <<>>
  BY <1>1, LinksAssumption DEF IsFamily, LinksTypeOK
<1> QED BY <1>1, <1>2, <1>3, <1>4, <1>5 DEF IsFamily

(* The loop ends.                                                           *)
LEMMA AdoptedAll ==
    ASSUME LinksTypeOK, NEW kids, IsFamily(kids), adopt, cptr[exiting] = NIL
    PROVE  LinksTypeOK' /\ IsFamily(kids)'
<1>1. /\ exiting # NIL /\ exiting' = NIL /\ exists' = exists /\ zombies' = zombies
      /\ parent' = parent /\ cptr' = cptr /\ yptr' = yptr /\ optr' = optr
  BY DEF adopt
<1>2. LinksTypeOK' BY <1>1 DEF LinksTypeOK
<1>3. exiting \in zombies /\ exiting \in exists /\ kids[exiting] \in Seq(exists)
  BY <1>1 DEF IsFamily, LinksTypeOK
<1>4. kids[exiting] = <<>>
  <2>1. \A i \in 1..Len(kids[exiting]) : kids[exiting][i] # NIL BY <1>3, FamilyFacts
  <2>2. Item(kids[exiting], 1) = NIL BY <1>3, FamilyFacts
  <2> QED BY <1>3, <2>1, <2>2, EmptySeq DEF Item
<1>5. ASSUME NEW q \in exists' PROVE IsChildList(q, kids[q])'
  <2>1. IsChildList(q, kids[q]) BY <1>1 DEF IsFamily
  <2>2. CASE q = exiting BY <1>1, <1>4, <2>1, <2>2 DEF IsChildList
  <2>3. CASE q # exiting BY <1>1, <2>1, <2>3, KeptList
  <2> QED BY <2>2, <2>3
<1>6. init_task \in Alive' BY <1>1 DEF IsFamily, Alive
<1>7. \A z \in zombies' \ {exiting'} : kids[z] = <<>> BY <1>1, <1>4 DEF IsFamily
<1> QED BY <1>1, <1>2, <1>5, <1>6, <1>7 DEF IsFamily

(* The first child of e becomes that of init_task.                          *)
Handed(kids, e) == [kids EXCEPT ![e] = Tail(@), ![init_task] = <<Head(kids[e])>> \o @]

(* A round of adoption hands the first child over.                          *)
LEMMA AdoptFamily ==
    ASSUME LinksTypeOK, NEW kids, IsFamily(kids), adopt, cptr[exiting] # NIL,
           NEW kk, kk = Handed(kids, exiting)
    PROVE  /\ LinksTypeOK' /\ IsFamily(kk)'
           /\ exiting \in exists /\ exiting # init_task /\ kids[exiting] # <<>>
<1>e. PICK e : e = exiting OBVIOUS
<1>q. PICK q : q = cptr[e] OBVIOUS
<1> DEFINE y == [yptr EXCEPT ![q] = NIL]
<1>1. /\ e # NIL /\ q # NIL /\ exiting' = exiting /\ exists' = exists /\ zombies' = zombies
      /\ cptr' = [cptr EXCEPT ![e] = optr[q], ![init_task] = q]
      /\ optr' = [optr EXCEPT ![q] = cptr[init_task]]
      /\ yptr' = Set(y, cptr[init_task], q)
      /\ parent' = [parent EXCEPT ![q] = init_task]
  BY <1>e, <1>q DEF adopt
<1>2. /\ e \in zombies /\ e \in exists /\ init_task \in exists /\ e # init_task
      /\ e \in Task /\ init_task \in Task /\ NIL \notin Task /\ DOMAIN kids = exists
      /\ q \in Task /\ cptr[init_task] \in Task \cup {NIL} /\ exists \subseteq Task
  BY <1>1, <1>e, <1>q, LinksAssumption DEF IsFamily, Alive, LinksTypeOK
<1>t. PICK t : t = kids[e] OBVIOUS
<1>u. PICK u : u = kids[init_task] OBVIOUS
<1>3. /\ t \in Seq(exists) /\ t \in Seq(Task) /\ Len(t) \in Nat /\ DOMAIN t = 1..Len(t)
      /\ \A i \in 1..Len(t) : t[i] \in exists /\ t[i] \in Task /\ t[i] # NIL /\ parent[t[i]] = e
                              /\ t[i] # init_task
                              /\ optr[t[i]] = Item(t, i + 1)
                              /\ (yptr[t[i]] = Item(t, i - 1) \/ i = 1)
      /\ \A i, j \in 1..Len(t) : t[i] = t[j] => i = j
      /\ q = Item(t, 1)
  <2>1. ChildFacts(e, t) BY <1>2, <1>t, ListFacts
  <2> QED BY <1>q, <2>1, <1>2 DEF ChildFacts
<1>4. 1 \in 1..Len(t) /\ t[1] = q /\ t # <<>> /\ q \in exists /\ parent[q] = e
  BY <1>1, <1>3 DEF Item
<1>5. /\ u \in Seq(exists) /\ u \in Seq(Task) /\ Len(u) \in Nat /\ DOMAIN u = 1..Len(u)
      /\ \A i \in 1..Len(u) : u[i] \in exists /\ u[i] \in Task /\ u[i] # NIL /\ parent[u[i]] = init_task
                              /\ optr[u[i]] = Item(u, i + 1)
                              /\ yptr[u[i]] = Item(u, i - 1)
      /\ \A i, j \in 1..Len(u) : u[i] = u[j] => i = j
      /\ cptr[init_task] = Item(u, 1)
  <2>1. init_task # exiting BY <1>2, <1>e
  <2>2. ChildFacts(init_task, u) BY <1>2, <1>u, ListFacts
  <2> QED BY <2>1, <2>2 DEF ChildFacts
<1>6. /\ \A x \in Task : yptr'[x] = IF x = cptr[init_task] THEN q ELSE IF x = q THEN NIL ELSE yptr[x]
      /\ optr'[q] = cptr[init_task] /\ parent'[q] = init_task
      /\ \A x \in Task \ {q} : optr'[x] = optr[x] /\ parent'[x] = parent[x]
  BY <1>1, <1>2 DEF Set, LinksTypeOK
<1>7. /\ cptr'[e] = optr[q] /\ cptr'[init_task] = q
      /\ \A x \in Task \ {e, init_task} : cptr'[x] = cptr[x]
  BY <1>1, <1>2 DEF LinksTypeOK
<1>8. LinksTypeOK' BY <1>1, <1>2 DEF LinksTypeOK, Set
<1>v. PICK v : v = Tail(t) OBVIOUS
<1>s. PICK s : s = <<q>> \o u OBVIOUS
<1>9. /\ v \in Seq(exists) /\ DOMAIN v = 1..(Len(t) - 1) /\ Len(v) = Len(t) - 1
      /\ \A i \in 1..(Len(t) - 1) : v[i] = t[i + 1]
      /\ Head(t) = q
  BY <1>v, <1>3, <1>4, TailIs
<1>10. /\ s \in Seq(exists) /\ Len(s) = Len(u) + 1 /\ DOMAIN s = 1..(Len(u) + 1)
       /\ s[1] = q /\ \A i \in 2..(Len(u) + 1) : s[i] = u[i - 1]
  BY <1>s, <1>4, <1>5, ConsIs
<1>11. /\ DOMAIN kk = exists /\ kk[e] = v /\ kk[init_task] = s
       /\ \A x \in exists \ {e, init_task} : kk[x] = kids[x]
  BY <1>2, <1>e, <1>t, <1>u, <1>v, <1>s, <1>9 DEF Handed, IsFamily
<1>12. kk \in [exists' -> Seq(exists')]
  <2>1. \A x \in exists : kk[x] \in Seq(exists) BY <1>9, <1>10, <1>11 DEF IsFamily
  <2>2. kk = [x \in exists |-> kk[x]] BY <1>2, <1>e DEF Handed, IsFamily
  <2> QED BY <1>1, <2>1, <2>2
<1>13. ASSUME NEW x \in exists' PROVE IsChildList(x, kk[x])'
  <2>1. CASE x = init_task
    <3>1. \A i \in 1..Len(u) : u[i] # q BY <1>2, <1>4, <1>5
    <3>2. OthersIn(init_task, q, u) BY <1>5, <3>1 DEF OthersIn
    <3>3. PutFirst(init_task, q) BY <1>6, <1>7 DEF PutFirst
    <3>4. IsChildList(init_task, s)' BY <1>s, <1>2, <3>2, <3>3, PrependChild
    <3> QED BY <1>11, <2>1, <3>4
  <2>2. CASE x = e
    <3>1. ASSUME NEW i \in 1..(Len(t) - 1)
          PROVE  /\ optr'[v[i]] = Item(v, i + 1) /\ parent'[v[i]] = e
                 /\ yptr'[v[i]] = Item(v, i - 1) \/ i = 1
      <4> DEFINE z == t[i + 1]
      <4>1. i + 1 \in 1..Len(t) /\ v[i] = z /\ i + 1 # 1 BY <1>3, <1>9
      <4>2. z \in Task /\ z # q /\ parent[z] = e /\ optr[z] = Item(t, (i + 1) + 1)
        BY <1>3, <1>4, <4>1
      <4>3. z # cptr[init_task] BY <1>2, <1>5, <4>2 DEF Item
      <4>4. Item(t, (i + 1) + 1) = Item(v, i + 1) BY <1>3, <1>9 DEF Item
      <4>5. yptr[z] = Item(t, (i + 1) - 1) BY <1>3, <4>1
      <4>6. i # 1 => Item(t, (i + 1) - 1) = Item(v, i - 1) BY <1>3, <1>9 DEF Item
      <4> QED BY <1>6, <4>1, <4>2, <4>3, <4>4, <4>5, <4>6
    <3>2. cptr'[e] = Item(v, 1) BY <1>3, <1>4, <1>7, <1>9 DEF Item
    <3>3. ASSUME NEW i \in 1..(Len(t) - 1), NEW j \in 1..(Len(t) - 1), v[i] = v[j] PROVE i = j
      <4>1. i + 1 \in 1..Len(t) /\ j + 1 \in 1..Len(t) /\ t[i + 1] = t[j + 1] BY <1>3, <1>9, <3>3
      <4>2. i + 1 = j + 1 BY <1>3, <4>1
      <4> QED BY <4>2
    <3>4. exiting' = e BY <1>1, <1>e
    <3> QED BY <1>9, <1>11, <2>2, <3>1, <3>2, <3>3, <3>4 DEF IsChildList
  <2>3. CASE x # e /\ x # init_task
    <3>0. PICK r : r = kids[x] OBVIOUS
    <3>1. x \in exists /\ kk[x] = r /\ x \in Task /\ IsChildList(x, r)
      BY <1>1, <1>2, <1>11, <2>3, <3>0 DEF IsFamily
    <3>2. DOMAIN r = 1..Len(r) /\ \A i \in 1..Len(r) : r[i] \in Task /\ parent[r[i]] = x
      BY <3>0, <3>1, FamilyFacts
    <3>3. ASSUME NEW i \in DOMAIN r PROVE r[i] \in Task /\ r[i] # q /\ r[i] # cptr[init_task]
      BY <1>2, <1>4, <1>5, <2>3, <3>2 DEF Item
    <3>4. \A i \in DOMAIN r : optr'[r[i]] = optr[r[i]] /\ yptr'[r[i]] = yptr[r[i]]
                              /\ parent'[r[i]] = parent[r[i]]
      BY <1>6, <3>3
    <3>5. cptr'[x] = cptr[x] BY <1>7, <2>3, <3>1
    <3>6. IsChildList(x, r)'
      <4>1. exiting' = exiting BY <1>1
      <4> QED BY <3>1, <3>4, <3>5, <4>1, KeptList, Zenon
    <3> QED BY <3>1, <3>6
  <2> QED BY <2>1, <2>2, <2>3
<1>14. ASSUME NEW x \in exists' \ {init_task}
       PROVE  parent'[x] \in exists' /\ \E i \in DOMAIN kk[parent'[x]] : kk[parent'[x]][i] = x
  <2>0. x \in exists \ {init_task} /\ x \in Task BY <1>1, <1>2
  <2>1. CASE x = q
    <3>1. parent'[x] = init_task /\ kk[init_task] = s /\ init_task \in exists'
      BY <1>1, <1>2, <1>6, <1>11, <2>1
    <3>2. 1 \in DOMAIN s /\ s[1] = x BY <1>5, <1>10, <2>1
    <3> QED BY <3>1, <3>2
  <2>2. CASE x # q
    <3>1. /\ parent'[x] = parent[x] /\ parent[x] \in exists
          /\ \E i \in DOMAIN kids[parent[x]] : kids[parent[x]][i] = x
      BY <1>6, <2>0, <2>2 DEF IsFamily
    <3>2. CASE parent[x] = e
      <4>1. PICK i \in 1..Len(t) : t[i] = x BY <1>t, <1>3, <3>1, <3>2
      <4>2. i - 1 \in DOMAIN v /\ v[i - 1] = x BY <1>3, <1>4, <1>9, <2>2, <4>1
      <4>3. kk[parent'[x]] = v /\ parent'[x] \in exists' BY <1>1, <1>2, <1>11, <3>1, <3>2
      <4> QED BY <4>2, <4>3
    <3>3. CASE parent[x] = init_task
      <4>1. PICK i \in 1..Len(u) : u[i] = x BY <1>u, <1>5, <3>1, <3>3
      <4>2. i + 1 \in DOMAIN s /\ s[i + 1] = x BY <1>5, <1>10, <4>1
      <4>3. kk[parent'[x]] = s /\ parent'[x] \in exists' BY <1>1, <1>2, <1>11, <3>1, <3>3
      <4> QED BY <4>2, <4>3
    <3>4. CASE parent[x] # e /\ parent[x] # init_task
      <4>1. kk[parent'[x]] = kids[parent[x]] /\ parent'[x] \in exists' BY <1>1, <1>11, <3>1, <3>4
      <4> QED BY <3>1, <4>1
    <3> QED BY <3>2, <3>3, <3>4
  <2> QED BY <2>1, <2>2
<1>15. init_task \in Alive' /\ parent'[init_task] = NIL
  <2>1. q # init_task BY <1>3, <1>4
  <2> QED BY <1>1, <1>2, <1>6, <2>1 DEF IsFamily, Alive
<1>16. \A z \in zombies' \ {exiting'} : kk[z] = <<>>
  BY <1>1, <1>e, <1>11 DEF IsFamily, Alive, LinksTypeOK
<1>17. exiting' \in zombies' BY <1>1, <1>2, <1>e
<1> QED BY <1>2, <1>4, <1>e, <1>t, <1>8, <1>12, <1>13, <1>14, <1>15, <1>16, <1>17 DEF IsFamily

(* The k-th child of p is gone.                                             *)
Without(kids, p, k) ==
    [q \in DOMAIN kids \ {kids[p][k]} |-> IF q = p THEN RemoveAt(kids[p], k) ELSE kids[q]]

(* The list of p after remove_links of its k-th child.                      *)
LEMMA ShorterList ==
    ASSUME NEW p \in Task, NIL \notin Task, NEW s \in Seq(Task), NEW k \in 1..Len(s), NEW r,
           r = RemoveAt(s, k),
           cptr[p] = Item(s, 1),
           \A i \in 1..Len(s) : /\ s[i] \in Task /\ s[i] # NIL /\ parent[s[i]] = p
                                /\ optr[s[i]] = Item(s, i + 1) /\ yptr[s[i]] = Item(s, i - 1),
           \A i, j \in 1..Len(s) : s[i] = s[j] => i = j,
           cptr'[p] = IF Item(s, k - 1) = NIL THEN Item(s, k + 1) ELSE cptr[p],
           \A x \in Task : /\ yptr'[x] = IF x = Item(s, k + 1) THEN Item(s, k - 1) ELSE yptr[x]
                           /\ optr'[x] = IF x = Item(s, k - 1) THEN Item(s, k + 1) ELSE optr[x],
           parent' = parent
    PROVE  IsChildList(p, r)'
<1>1. Len(s) \in Nat /\ DOMAIN s = 1..Len(s) BY LenProperties
<1>2. /\ DOMAIN r = 1..(Len(s) - 1)
      /\ \A i \in 1..(Len(s) - 1) : r[i] = IF i < k THEN s[i] ELSE s[i + 1]
  <2>1. k \in DOMAIN s BY <1>1
  <2> QED BY <2>1, RemoveAtIs
<1>3. cptr'[p] = Item(r, 1)
  <2>1. CASE k = 1
    <3>1. Item(s, k - 1) = NIL /\ Item(s, k + 1) = Item(r, 1) BY <1>1, <1>2, <2>1 DEF Item
    <3> QED BY <3>1
  <2>2. CASE k # 1
    <3>1. k - 1 \in 1..Len(s) /\ 1 \in 1..Len(s) /\ 1 \in 1..(Len(s) - 1) /\ 1 < k BY <1>1, <2>2
    <3>2. Item(s, k - 1) # NIL /\ Item(s, 1) = s[1] /\ Item(r, 1) = s[1]
      BY <1>1, <1>2, <3>1 DEF Item
    <3> QED BY <3>2
  <2> QED BY <2>1, <2>2
<1>4. ASSUME NEW i \in 1..(Len(s) - 1)
      PROVE  optr'[r[i]] = Item(r, i + 1) /\ yptr'[r[i]] = Item(r, i - 1) /\ parent'[r[i]] = p
  <2>1. CASE i < k
    <3>1. /\ i \in 1..Len(s) /\ r[i] = s[i] /\ i - 1 < k /\ i - 1 \in 0..(Len(s) - 1)
          /\ i + 1 \in 1..Len(s) /\ i # k + 1
      BY <1>1, <1>2, <2>1
    <3>2. s[i] # Item(s, k + 1) BY <1>1, <3>1 DEF Item
    <3>3. yptr'[s[i]] = Item(s, i - 1) BY <3>1, <3>2
    <3>4. Item(s, i - 1) = Item(r, i - 1) BY <1>1, <1>2, <3>1 DEF Item
    <3>5. CASE i = k - 1
      <4>1. Item(s, k - 1) = s[i] /\ Item(s, k + 1) = Item(r, i + 1)
        BY <1>1, <1>2, <3>1, <3>5 DEF Item
      <4>2. optr'[s[i]] = Item(s, k + 1) BY <3>1, <4>1
      <4> QED BY <3>1, <3>3, <3>4, <4>1, <4>2
    <3>6. CASE i # k - 1
      <4>1. i + 1 < k /\ i + 1 \in 1..(Len(s) - 1)
        <5>1. k \in Int /\ k <= Len(s) /\ i \in Int /\ 1 <= i BY <1>1
        <5> QED BY <1>1, <2>1, <3>6, <5>1
      <4>2. Item(s, i + 1) = Item(r, i + 1) BY <1>1, <1>2, <3>1, <4>1 DEF Item
      <4>3. s[i] # Item(s, k - 1) BY <1>1, <3>1, <3>6 DEF Item
      <4>4. optr'[s[i]] = Item(s, i + 1) BY <3>1, <4>3
      <4> QED BY <3>1, <3>3, <3>4, <4>2, <4>4
    <3> QED BY <3>5, <3>6
  <2>2. CASE ~(i < k)
    <3> DEFINE j == i + 1
    <3>1. j \in 1..Len(s) /\ r[i] = s[j] /\ j # k - 1 /\ j > k /\ j - 1 = i BY <1>1, <1>2, <2>2
    <3>2. s[j] # Item(s, k - 1) BY <1>1, <3>1 DEF Item
    <3>3. optr'[s[j]] = Item(s, j + 1) BY <3>1, <3>2
    <3>4. Item(s, j + 1) = Item(r, i + 1) BY <1>1, <1>2, <3>1 DEF Item
    <3>5. CASE i = k
      <4>1. Item(s, k + 1) = s[j] BY <1>1, <3>1, <3>5 DEF Item
      <4>2. yptr'[s[j]] = Item(s, k - 1) BY <3>1, <4>1
      <4>3. Item(s, k - 1) = Item(r, i - 1) BY <1>1, <1>2, <3>5 DEF Item
      <4> QED BY <3>1, <3>3, <3>4, <4>2, <4>3
    <3>6. CASE i # k
      <4>1. s[j] # Item(s, k + 1) BY <1>1, <3>1, <3>6 DEF Item
      <4>2. yptr'[s[j]] = Item(s, j - 1) BY <3>1, <4>1
      <4>3. i - 1 \in 1..(Len(s) - 1) /\ ~(i - 1 < k) /\ (i - 1) + 1 = i /\ i \in 1..Len(s)
        BY <1>1, <2>2, <3>6
      <4>4. Item(s, j - 1) = Item(r, i - 1) BY <1>1, <1>2, <3>1, <4>3 DEF Item
      <4> QED BY <3>1, <3>3, <3>4, <4>2, <4>4
    <3> QED BY <3>5, <3>6
  <2> QED BY <2>1, <2>2
<1>5. ASSUME NEW i \in 1..(Len(s) - 1), NEW j \in 1..(Len(s) - 1), r[i] = r[j] PROVE i = j
  <2> DEFINE seen(n) == IF n < k THEN n ELSE n + 1
  <2>1. /\ seen(i) \in 1..Len(s) /\ seen(j) \in 1..Len(s) /\ s[seen(i)] = r[i] /\ s[seen(j)] = r[j]
    BY <1>1, <1>2
  <2>2. seen(i) = seen(j)
    <3>1. s[seen(i)] = s[seen(j)] BY <1>5, <2>1
    <3> HIDE DEF seen
    <3> QED BY <2>1, <3>1
  <2> QED BY <2>2
<1> QED BY <1>2, <1>3, <1>4, <1>5 DEF IsChildList

(* remove_links takes the dead child out of its parent's list.              *)
LEMMA ReapFamily ==
    ASSUME LinksTypeOK, NEW kids, IsFamily(kids), exiting = NIL,
           NEW x \in zombies, Reap(x)
    PROVE  \E p, k : /\ p \in exists /\ k \in DOMAIN kids[p] /\ kids[p][k] = x /\ kids[x] = <<>>
                     /\ LinksTypeOK' /\ IsFamily(Without(kids, p, k))'
<1>p. PICK p : p = parent[x] OBVIOUS
<1>s. PICK s : s = kids[p] OBVIOUS
<1>1. /\ x \in exists /\ x \in Task /\ x # init_task /\ NIL \notin Task /\ kids[x] = <<>>
      /\ DOMAIN kids = exists /\ exists \subseteq Task /\ x # exiting
  BY LinksAssumption DEF LinksTypeOK, IsFamily, Alive
<1>2. p \in exists /\ p \in Task /\ \E i \in DOMAIN s : s[i] = x BY <1>1, <1>p, <1>s DEF IsFamily
<1>3. /\ s \in Seq(exists) /\ s \in Seq(Task) /\ Len(s) \in Nat /\ DOMAIN s = 1..Len(s)
      /\ cptr[p] = Item(s, 1)
      /\ \A i \in 1..Len(s) : s[i] \in exists /\ s[i] \in Task /\ s[i] # NIL /\ parent[s[i]] = p
                              /\ optr[s[i]] = Item(s, i + 1) /\ yptr[s[i]] = Item(s, i - 1)
      /\ \A i, j \in 1..Len(s) : s[i] = s[j] => i = j
  <2>1. p # exiting BY <1>1, <1>2
  <2> QED BY <1>2, <1>s, <2>1, FamilyFacts
<1>k. PICK k \in 1..Len(s) : s[k] = x BY <1>2, <1>3
<1>4. p # x BY <1>1, <1>k, <1>s, <1>3, EmptySeq
<1>o. PICK o : o = Item(s, k + 1) OBVIOUS
<1>y. PICK y : y = Item(s, k - 1) OBVIOUS
<1>5. optr[x] = o /\ yptr[x] = y BY <1>3, <1>k, <1>o, <1>y
<1>6. /\ o \in Task \cup {NIL} /\ y \in Task \cup {NIL}
      /\ (o # NIL => parent[o] = p) /\ (y # NIL => parent[y] = p)
  BY <1>3, <1>o, <1>y DEF Item
<1>7. /\ yptr' = Set(yptr, o, y) /\ optr' = Set(optr, y, o)
      /\ cptr' = IF y = NIL THEN [cptr EXCEPT ![p] = o] ELSE cptr
      /\ exists' = exists \ {x} /\ zombies' = zombies \ {x} /\ parent' = parent /\ exiting' = exiting
  BY <1>5, <1>p DEF Reap, remove_links
<1>8. /\ \A z \in Task : /\ yptr'[z] = IF z = o THEN y ELSE yptr[z]
                         /\ optr'[z] = IF z = y THEN o ELSE optr[z]
                         /\ z # p => cptr'[z] = cptr[z]
      /\ cptr'[p] = IF y = NIL THEN o ELSE cptr[p]
  BY <1>1, <1>2, <1>7 DEF Set, LinksTypeOK
<1>9. LinksTypeOK' BY <1>1, <1>2, <1>6, <1>7 DEF LinksTypeOK, Set
<1>r. PICK r : r = RemoveAt(s, k) OBVIOUS
<1>10. /\ DOMAIN r = 1..(Len(s) - 1) /\ Len(r) = Len(s) - 1
       /\ \A i \in 1..(Len(s) - 1) : r[i] = IF i < k THEN s[i] ELSE s[i + 1]
       /\ r \in Seq(exists)
  <2>1. k \in DOMAIN s /\ s \in Seq(exists) BY <1>3, <1>k
  <2> QED BY <1>r, <2>1, RemoveAtIs
<1>g. PICK kk : kk = Without(kids, p, k) OBVIOUS
<1>11. /\ DOMAIN kk = exists' /\ kk[p] = r /\ p \in exists'
       /\ \A q \in exists' : q # p => kk[q] = kids[q]
       /\ kk = [q \in exists' |-> kk[q]]
  BY <1>1, <1>2, <1>4, <1>7, <1>g, <1>k, <1>r, <1>s DEF Without
<1>12. ASSUME NEW q \in exists' PROVE kk[q] \in Seq(exists')
  <2>1. CASE q = p
    <3>1. ASSUME NEW i \in 1..(Len(s) - 1) PROVE r[i] \in exists'
      <4>1. CASE i < k BY <1>3, <1>7, <1>10, <1>k, <4>1
      <4>2. CASE ~(i < k)
        <5>1. i + 1 \in 1..Len(s) /\ i + 1 # k /\ r[i] = s[i + 1] BY <1>3, <1>10, <4>2
        <5> QED BY <1>3, <1>7, <1>k, <5>1
      <4> QED BY <4>1, <4>2
    <3>2. r \in [1..(Len(s) - 1) -> exists'] /\ Len(s) - 1 \in Nat
      <4>1. r = [i \in 1..(Len(s) - 1) |-> r[i]] BY <1>10, <1>3
      <4> QED BY <1>3, <3>1, <4>1
    <3> QED BY <1>11, <2>1, <3>2
  <2>2. CASE q # p
    <3>0. PICK u : u = kids[q] OBVIOUS
    <3>1. q \in exists /\ u \in Seq(exists) /\ Len(u) \in Nat /\ DOMAIN u = 1..Len(u)
          /\ \A i \in 1..Len(u) : parent[u[i]] = q /\ u[i] \in exists
      BY <1>7, <3>0, FamilyFacts
    <3>2. \A i \in 1..Len(u) : u[i] \in exists' BY <1>7, <1>p, <2>2, <3>1
    <3>3. u \in [1..Len(u) -> exists'] BY <3>1, <3>2
    <3> QED BY <1>11, <2>2, <3>0, <3>1, <3>3
  <2> QED BY <2>1, <2>2
<1>13. ASSUME NEW q \in exists' PROVE IsChildList(q, kk[q])'
  <2>1. CASE q = p
    <3>1. IsChildList(p, r)'
      <4>1. k \in 1..Len(s) /\ parent' = parent BY <1>7
      <4>2. \A z \in Task : /\ yptr'[z] = IF z = Item(s, k + 1) THEN Item(s, k - 1) ELSE yptr[z]
                            /\ optr'[z] = IF z = Item(s, k - 1) THEN Item(s, k + 1) ELSE optr[z]
        BY <1>8, <1>o, <1>y
      <4>3. cptr'[p] = IF Item(s, k - 1) = NIL THEN Item(s, k + 1) ELSE cptr[p] BY <1>8, <1>o, <1>y
      <4>4. \A i \in 1..Len(s) : /\ s[i] \in Task /\ s[i] # NIL /\ parent[s[i]] = p
                                 /\ optr[s[i]] = Item(s, i + 1) /\ yptr[s[i]] = Item(s, i - 1)
        BY <1>3
      <4>5. p \in Task /\ NIL \notin Task /\ s \in Seq(Task) /\ cptr[p] = Item(s, 1)
            /\ \A i, j \in 1..Len(s) : s[i] = s[j] => i = j
        BY <1>1, <1>2, <1>3
      <4> QED BY <1>r, <4>1, <4>2, <4>3, <4>4, <4>5, ShorterList
    <3> QED BY <1>11, <2>1, <3>1
  <2>2. CASE q # p
    <3>0. PICK u : u = kids[q] OBVIOUS
    <3>1. /\ q \in exists /\ q \in Task /\ kk[q] = u /\ IsChildList(q, u)
      BY <1>1, <1>7, <1>11, <2>2, <3>0 DEF IsFamily
    <3>2. /\ DOMAIN u = 1..Len(u)
          /\ \A i \in 1..Len(u) : u[i] \in Task /\ parent[u[i]] = q /\ u[i] # NIL
      BY <3>0, <3>1, FamilyFacts
    <3>3. \A i \in DOMAIN u : u[i] \in Task /\ u[i] # o /\ u[i] # y BY <1>6, <2>2, <3>2
    <3>4. \A i \in DOMAIN u : optr'[u[i]] = optr[u[i]] /\ yptr'[u[i]] = yptr[u[i]]
                              /\ parent'[u[i]] = parent[u[i]]
      BY <1>7, <1>8, <3>3
    <3>5. cptr'[q] = cptr[q] BY <1>8, <2>2, <3>1
    <3>6. IsChildList(q, u)' BY <1>7, <3>1, <3>4, <3>5, KeptList
    <3> QED BY <3>1, <3>6
  <2> QED BY <2>1, <2>2
<1>14. ASSUME NEW q \in exists' \ {init_task}
       PROVE  parent'[q] \in exists' /\ \E i \in DOMAIN kk[parent'[q]] : kk[parent'[q]][i] = q
  <2>1. /\ q \in exists \ {init_task} /\ q # x
        /\ parent'[q] = parent[q] /\ parent[q] \in exists
        /\ \E i \in DOMAIN kids[parent[q]] : kids[parent[q]][i] = q
    BY <1>7 DEF IsFamily
  <2>2. CASE parent[q] = p
    <3>1. PICK i \in 1..Len(s) : s[i] = q BY <1>s, <1>3, <2>1, <2>2
    <3>2. i # k BY <1>k, <2>1, <3>1
    <3>3. \E j \in DOMAIN r : r[j] = q
      <4>1. CASE i < k
        <5>1. i \in 1..(Len(s) - 1) BY <1>3, <4>1
        <5> QED BY <1>10, <3>1, <4>1, <5>1
      <4>2. CASE ~(i < k)
        <5>1. i - 1 \in 1..(Len(s) - 1) /\ ~(i - 1 < k) /\ (i - 1) + 1 = i BY <1>3, <3>2, <4>2
        <5> QED BY <1>10, <3>1, <5>1
      <4> QED BY <4>1, <4>2
    <3>4. kk[parent'[q]] = r /\ parent'[q] \in exists' BY <1>11, <2>1, <2>2
    <3> QED BY <3>3, <3>4
  <2>3. CASE parent[q] # p
    <3>1. parent[q] # x BY <1>1, <2>1, EmptySeq
    <3>2. kk[parent'[q]] = kids[parent[q]] /\ parent'[q] \in exists'
      BY <1>7, <1>11, <2>1, <2>3, <3>1
    <3> QED BY <2>1, <3>2
  <2> QED BY <2>2, <2>3
<1>15. init_task \in Alive' /\ parent'[init_task] = NIL /\ exiting' = NIL
  BY <1>1, <1>7 DEF IsFamily, Alive
<1>16. \A z \in zombies' \ {exiting'} : kk[z] = <<>>
  <2>1. \A z \in zombies' : z \in exists' /\ z \in zombies \ {exiting}
    BY <1>7, LinksAssumption DEF LinksTypeOK
  <2>2. p \notin zombies
    <3>1. p # exiting BY <1>2, <1>1
    <3>2. s # <<>> BY <1>3, <1>k, EmptySeq
    <3> QED BY <1>s, <3>1, <3>2 DEF IsFamily
  <2> QED BY <1>7, <1>11, <2>1, <2>2 DEF IsFamily
<1>17. kk \in [exists' -> Seq(exists')] BY <1>11, <1>12
<1>18. IsFamily(kk)' BY <1>13, <1>14, <1>15, <1>16, <1>17 DEF IsFamily
<1>19. IsFamily(Without(kids, p, k))' BY <1>18, <1>g
<1>20. p \in exists /\ k \in DOMAIN kids[p] /\ kids[p][k] = x BY <1>2, <1>3, <1>k, <1>s
<1> QED BY <1>1, <1>9, <1>19, <1>20, Zenon

(* A step of the family, or none.                                           *)
FamilyStep(kids, kk) ==
    \/ kk = kids
    \/ \E p \in DOMAIN kids :
          \/ \E kid \in Task \ DOMAIN kids : kk = Born(kids, p, kid)
          \/ p # init_task /\ kids[p] # <<>> /\ kk = Handed(kids, p)
          \/ \E i \in DOMAIN kids[p] : kids[kids[p][i]] = <<>> /\ kk = Without(kids, p, i)

(* Every step of the pointers is a step on the lists.                       *)
LEMMA LinksStep ==
    ASSUME LinksTypeOK, NEW kids, IsFamily(kids), LinksNext
    PROVE  LinksTypeOK' /\ \E kk : IsFamily(kk)' /\ FamilyStep(kids, kk)
<1>0. DOMAIN kids = exists BY DEF IsFamily
<1>1. CASE adopt /\ cptr[exiting] = NIL
  <2>1. LinksTypeOK' /\ IsFamily(kids)' BY <1>1, AdoptedAll, Zenon
  <2> QED BY <2>1, Zenon DEF FamilyStep
<1>2. CASE adopt /\ cptr[exiting] # NIL
  <2>1. PICK e : e = exiting OBVIOUS
  <2>2. PICK kk : kk = Handed(kids, e) OBVIOUS
  <2>3. LinksTypeOK' /\ IsFamily(kk)' /\ e \in exists /\ e # init_task /\ kids[e] # <<>>
    BY <1>2, <2>1, <2>2, AdoptFamily
  <2>4. FamilyStep(kids, kk) BY <1>0, <2>2, <2>3 DEF FamilyStep
  <2> QED BY <2>3, <2>4, Zenon
<1>3. ASSUME NEW p \in Task, begin_exit(p)
      PROVE  LinksTypeOK' /\ \E kk : IsFamily(kk)' /\ FamilyStep(kids, kk)
  <2>1. LinksTypeOK' /\ IsFamily(kids)' BY <1>3, BeginExitFamily, Zenon
  <2> QED BY <2>1, Zenon DEF FamilyStep
<1>4. ASSUME NEW p \in Task, NEW q \in Task, link_child(p, q)
      PROVE  LinksTypeOK' /\ \E kk : IsFamily(kk)' /\ FamilyStep(kids, kk)
  <2>2. PICK kk : kk = Born(kids, p, q) OBVIOUS
  <2>3. LinksTypeOK' /\ IsFamily(kk)' BY <1>4, <2>2, LinkChildFamily, Zenon
  <2>4. p \in exists /\ q \notin exists BY <1>4 DEF link_child, Alive
  <2>5. FamilyStep(kids, kk) BY <1>0, <2>2, <2>4 DEF FamilyStep
  <2> QED BY <2>3, <2>5, Zenon
<1>5. ASSUME NEW x \in zombies, Reap(x), exiting = NIL
      PROVE  LinksTypeOK' /\ \E kk : IsFamily(kk)' /\ FamilyStep(kids, kk)
  <2>1. PICK p, k : /\ p \in exists /\ k \in DOMAIN kids[p] /\ kids[p][k] = x /\ kids[x] = <<>>
                    /\ LinksTypeOK' /\ IsFamily(Without(kids, p, k))'
    BY <1>5, ReapFamily, Zenon
  <2>2. PICK kk : kk = Without(kids, p, k) OBVIOUS
  <2>3. IsFamily(kk)' BY <2>1, <2>2
  <2>4. FamilyStep(kids, kk) BY <1>0, <2>1, <2>2 DEF FamilyStep
  <2> QED BY <2>1, <2>3, <2>4, Zenon
<1>6. ASSUME NEW p \in Task, do_wait_any(p)
      PROVE  \E x \in zombies : Reap(x) /\ exiting = NIL
  BY <1>6 DEF do_wait_any
<1>7. ASSUME NEW p \in Task, NEW q \in Task, do_wait_pid(p, q)
      PROVE  \E x \in zombies : Reap(x) /\ exiting = NIL
  BY <1>7 DEF do_wait_pid
<1>8. CASE \E p \in Task : do_wait_any(p) \/ \E q \in Task : do_wait_pid(p, q)
  <2>1. \E x \in zombies : Reap(x) /\ exiting = NIL BY <1>6, <1>7, <1>8, Zenon
  <2> QED BY <1>5, <2>1, Zenon
<1>9. CASE \E p \in Task : begin_exit(p) BY <1>3, <1>9, Zenon
<1>10. CASE \E p \in Task : \E q \in Task : link_child(p, q) BY <1>4, <1>10, Zenon
<1> QED BY <1>1, <1>2, <1>8, <1>9, <1>10, Zenon DEF LinksNext

(* Other steps leave the lists alone.                                       *)
LEMMA LinksUnchanged ==
    ASSUME LinksTypeOK, NEW kids, IsFamily(kids), UNCHANGED linksVars
    PROVE  LinksTypeOK' /\ IsFamily(kids)'
BY DEF linksVars, LinksTypeOK, IsFamily, IsChildList, Alive

(* In the beginning there is one process without children.                  *)
LEMMA LinksInitFamily ==
    ASSUME LinksInit, NEW kids, kids = [p \in {init_task} |-> <<>>]
    PROVE  LinksTypeOK /\ IsFamily(kids)
<1>1. LinksTypeOK BY LinksAssumption DEF LinksInit, LinksTypeOK
<1>2. kids \in [exists -> Seq(exists)] BY EmptySeq DEF LinksInit
<1>3. IsChildList(init_task, <<>>) BY LinksAssumption DEF LinksInit, IsChildList, Item
<1>4. /\ exists = {init_task} /\ zombies = {} /\ exiting = NIL /\ parent[init_task] = NIL
      /\ kids[init_task] = <<>> /\ init_task \in Alive
  BY LinksAssumption DEF LinksInit, Alive
<1>5. \A p \in exists : IsChildList(p, kids[p]) BY <1>3, <1>4
<1> QED BY <1>1, <1>2, <1>4, <1>5 DEF IsFamily

(* The lists that the pointers encode are always a family.                  *)
LEMMA LinksInvariant == LinksSpec => []LinksIInv
<1>1. LinksInit => LinksIInv
  <2> SUFFICES ASSUME LinksInit PROVE LinksIInv
    OBVIOUS
  <2>1. PICK kids : kids = [p \in {init_task} |-> <<>>] OBVIOUS
  <2>2. LinksTypeOK /\ IsFamily(kids) BY <2>1, LinksInitFamily
  <2>3. kids = [p \in exists |-> ChildList(p)] BY <2>2, FamilyIs
  <2> QED BY <2>2, <2>3 DEF LinksIInv
<1>2. LinksIInv /\ [LinksNext]_linksVars => LinksIInv'
  <2> SUFFICES ASSUME LinksIInv, [LinksNext]_linksVars PROVE LinksIInv'
    OBVIOUS
  <2>1. PICK kids : kids = [p \in exists |-> ChildList(p)] OBVIOUS
  <2>2. LinksTypeOK /\ IsFamily(kids) BY <2>1 DEF LinksIInv
  <2>3. LinksTypeOK' /\ \E kk : IsFamily(kk)'
    <3>1. CASE LinksNext BY <2>2, <3>1, LinksStep, Zenon
    <3>2. CASE UNCHANGED linksVars BY <2>2, <3>2, LinksUnchanged, Zenon
    <3> QED BY <3>1, <3>2
  <2>4. PICK kk : IsFamily(kk)' BY <2>3
  <2>5. kk = [p \in exists |-> ChildList(p)]' BY <2>3, <2>4, NextFamilyIs
  <2>6. IsFamily([p \in exists |-> ChildList(p)])' BY <2>4, <2>5
  <2> QED BY <2>3, <2>6, Zenon DEF LinksIInv
<1> QED BY <1>1, <1>2, PTL DEF LinksSpec

(* optr and yptr are inverse to each other where the lists are cut.         *)
LEMMA FamilyLinks ==
    ASSUME LinksTypeOK, NEW kids, IsFamily(kids), exiting = NIL
    PROVE  BackPointersMatch
<1> SUFFICES ASSUME NEW q \in exists \ {init_task}
             PROVE  /\ optr[q] # NIL => optr[q] \in exists /\ yptr[optr[q]] = q
                    /\ IF yptr[q] = NIL THEN cptr[parent[q]] = q
                       ELSE yptr[q] \in exists /\ optr[yptr[q]] = q
  BY Zenon DEF BackPointersMatch
<1>1. PICK p, s : p = parent[q] /\ s = kids[p] OBVIOUS
<1>2. p \in exists /\ \E i \in DOMAIN s : s[i] = q BY <1>1 DEF IsFamily
<1>3. /\ Len(s) \in Nat /\ DOMAIN s = 1..Len(s)
      /\ cptr[p] = Item(s, 1)
      /\ \A i \in 1..Len(s) : s[i] \in exists /\ s[i] # NIL
                              /\ optr[s[i]] = Item(s, i + 1) /\ yptr[s[i]] = Item(s, i - 1)
  <2>1. p # exiting BY <1>2, LinksAssumption DEF LinksTypeOK
  <2> QED BY <1>1, <1>2, <2>1, FamilyFacts
<1>4. PICK i \in 1..Len(s) : s[i] = q BY <1>2, <1>3
<1>5. optr[q] # NIL => optr[q] \in exists /\ yptr[optr[q]] = q
  <2> SUFFICES ASSUME optr[q] # NIL PROVE optr[q] \in exists /\ yptr[optr[q]] = q
    OBVIOUS
  <2>1. i + 1 \in 1..Len(s) /\ optr[q] = s[i + 1] /\ (i + 1) - 1 = i BY <1>3, <1>4 DEF Item
  <2>2. yptr[s[i + 1]] = Item(s, i) BY <1>3, <2>1
  <2> QED BY <1>3, <1>4, <2>1, <2>2 DEF Item
<1>6. CASE i = 1
  <2>1. yptr[q] = NIL /\ cptr[p] = q BY <1>3, <1>4, <1>6 DEF Item
  <2> QED BY <1>1, <1>5, <2>1
<1>7. CASE i # 1
  <2>1. i - 1 \in 1..Len(s) /\ yptr[q] = s[i - 1] /\ (i - 1) + 1 = i BY <1>3, <1>4, <1>7 DEF Item
  <2>2. optr[s[i - 1]] = Item(s, i) /\ s[i - 1] \in exists /\ s[i - 1] # NIL BY <1>3, <2>1
  <2> QED BY <1>3, <1>4, <1>5, <2>1, <2>2 DEF Item
<1> QED BY <1>6, <1>7

(* The length of a list without repetitions.                                *)
LEMMA ListCardinality ==
    ASSUME NEW T, NEW s \in Seq(T), \A i, j \in DOMAIN s : s[i] = s[j] => i = j
    PROVE  Len(s) = Cardinality(ToSet(s))
<1>1. Len(s) \in Nat /\ DOMAIN s = 1..Len(s) OBVIOUS
<1>2. s \in [1..Len(s) -> ToSet(s)] BY <1>1 DEF ToSet
<1>3. s \in Bijection(1..Len(s), ToSet(s))
  BY <1>1, <1>2 DEF Bijection, Injection, IsInjective, Surjection, ToSet
<1> QED BY <1>1, <1>3, FS_CountingElements DEF ExistsBijection

(* A list holds exactly those that name its owner as parent.                *)
LEMMA FamilyChildren ==
    ASSUME LinksTypeOK, NEW kids, IsFamily(kids)
    PROVE  ListIsChildren
<1> SUFFICES ASSUME NEW p \in exists
             PROVE  /\ ToSet(ChildList(p)) = {q \in exists : parent[q] = p}
                    /\ Len(ChildList(p)) = Cardinality(ToSet(ChildList(p)))
  BY Zenon DEF ListIsChildren
<1>1. PICK s : s = ChildList(p) OBVIOUS
<1>2. s = kids[p] BY <1>1, FamilyIs
<1>3. /\ s \in Seq(exists) /\ DOMAIN s = 1..Len(s)
      /\ \A i \in 1..Len(s) : s[i] \in exists /\ parent[s[i]] = p
      /\ \A i, j \in 1..Len(s) : s[i] = s[j] => i = j
  BY <1>2, FamilyFacts
<1>4. ASSUME NEW q \in exists, parent[q] = p PROVE \E i \in DOMAIN s : s[i] = q
  <2>1. q # init_task BY <1>4, LinksAssumption DEF IsFamily, LinksTypeOK
  <2> QED BY <1>2, <1>4, <2>1 DEF IsFamily
<1>5. ToSet(s) = {q \in exists : parent[q] = p} BY <1>3, <1>4 DEF ToSet
<1>6. Len(s) = Cardinality(ToSet(s)) BY <1>3, ListCardinality
<1> QED BY <1>1, <1>5, <1>6

(* The sibling pointers are inverse to each other, and a list holds exactly *)
(* the children (set_links, remove_links, the loop in do_exit).             *)
THEOREM LinksCorrect == LinksSpec => []LinksInv
<1>1. LinksIInv => LinksInv
  <2> SUFFICES ASSUME LinksIInv PROVE LinksInv
    OBVIOUS
  <2>1. PICK kids : kids = [p \in exists |-> ChildList(p)] OBVIOUS
  <2>2. LinksTypeOK /\ IsFamily(kids) BY <2>1 DEF LinksIInv
  <2>3. ListIsChildren BY <2>2, FamilyChildren, Zenon
  <2>4. BackPointersMatch
    <3>1. CASE exiting = NIL BY <2>2, <3>1, FamilyLinks, Zenon
    <3>2. CASE exiting # NIL BY <3>2, Zenon DEF BackPointersMatch
    <3> QED BY <3>1, <3>2
  <2> QED BY <2>2, <2>3, <2>4 DEF LinksInv
<1> QED BY <1>1, LinksInvariant, PTL

(* set_links, the adoption loop and remove_links do to the pointers what    *)
(* Family does to the lists of children: fork, exit and wait see one tree.  *)
THEOREM FamilyRefinement == LinksSpec => ImplementsFamily
<1>1. LinksInit => Tree!Init
  <2> SUFFICES ASSUME LinksInit PROVE Tree!Init
    OBVIOUS
  <2>1. PICK kids : kids = [p \in {init_task} |-> <<>>] OBVIOUS
  <2>2. kids = [p \in exists |-> ChildList(p)] BY <2>1, LinksInitFamily, FamilyIs
  <2> QED BY <2>1, <2>2 DEF Tree!Init
<1>2. LinksIInv /\ [LinksNext]_linksVars => [Tree!Next]_([p \in exists |-> ChildList(p)])
  <2> SUFFICES ASSUME LinksIInv, [LinksNext]_linksVars
               PROVE  [Tree!Next]_([p \in exists |-> ChildList(p)])
    OBVIOUS
  <2>1. PICK kids : kids = [p \in exists |-> ChildList(p)] OBVIOUS
  <2>2. LinksTypeOK /\ IsFamily(kids) BY <2>1 DEF LinksIInv
  <2>3. LinksTypeOK' /\ \E kk : IsFamily(kk)' /\ FamilyStep(kids, kk)
    <3>1. CASE LinksNext BY <2>2, <3>1, LinksStep, Zenon
    <3>2. CASE UNCHANGED linksVars
      <4>1. LinksTypeOK' /\ IsFamily(kids)' BY <2>2, <3>2, LinksUnchanged, Zenon
      <4> QED BY <4>1, Zenon DEF FamilyStep
    <3> QED BY <3>1, <3>2
  <2>4. PICK kk : IsFamily(kk)' /\ FamilyStep(kids, kk) BY <2>3
  <2>5. kk = [p \in exists |-> ChildList(p)]' BY <2>3, <2>4, NextFamilyIs
  <2>6. CASE kk = kids BY <2>1, <2>5, <2>6
  <2>7. CASE kk # kids
    <3>1. DOMAIN kids = DOMAIN [p \in exists |-> ChildList(p)] BY <2>1
    <3>2. PICK p \in DOMAIN kids :
             \/ \E kid \in Task \ DOMAIN kids : kk = Born(kids, p, kid)
             \/ p # init_task /\ kids[p] # <<>> /\ kk = Handed(kids, p)
             \/ \E i \in DOMAIN kids[p] : kids[kids[p][i]] = <<>> /\ kk = Without(kids, p, i)
      BY <2>4, <2>7, Zenon DEF FamilyStep
    <3>3. ASSUME NEW kid \in Task \ DOMAIN kids, kk = Born(kids, p, kid) PROVE Tree!Next
      <4>1. Tree!Born(p, kid) BY <2>1, <2>5, <3>3, Zenon DEF Tree!Born, Tree!Exists, Born
      <4> QED BY <2>1, <3>2, <3>3, <4>1, Zenon DEF Tree!Next, Tree!Exists
    <3>4. CASE p # init_task /\ kids[p] # <<>> /\ kk = Handed(kids, p)
      <4>1. Tree!Adopted(p) BY <2>1, <2>5, <3>4, Zenon DEF Tree!Adopted, Handed
      <4> QED BY <2>1, <3>2, <3>4, <4>1, Zenon DEF Tree!Next, Tree!Exists
    <3>5. ASSUME NEW i \in DOMAIN kids[p], kids[kids[p][i]] = <<>>, kk = Without(kids, p, i)
          PROVE  Tree!Next
      <4>1. Tree!Gone(p, i)
        BY <2>1, <2>5, <3>5, Zenon DEF Tree!Gone, Tree!Exists, Tree!RemoveAt, Without, RemoveAt
      <4> QED BY <2>1, <3>2, <3>5, <4>1, Zenon DEF Tree!Next, Tree!Exists
    <3> QED BY <3>2, <3>3, <3>4, <3>5, Zenon
  <2> QED BY <2>6, <2>7
<1> QED BY <1>1, <1>2, LinksInvariant, PTL DEF LinksSpec, ImplementsFamily, Tree!Spec
=============================================================================
