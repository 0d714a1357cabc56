------------------------------- MODULE SfsFile -------------------------------
(***************************************************************************)
(* Regular files of the simple file system (sfs_inode.c): the map from a   *)
(* file's blocks to disk blocks, direct and through one indirect block,    *)
(* the bitmap of free blocks, sizes, truncation and the inode's dirty flag,*)
(* under descriptors that each keep an offset (file.c).                    *)
(*                                                                         *)
(* Sizes count cells; a disk block holds SFS_BLKSIZE of them, be it data   *)
(* or the entries of an indirect block.  The device does not fail: only    *)
(* a full disk does.  A failed assertion stops the kernel.                 *)
(***************************************************************************)
EXTENDS Integers, Sequences, FiniteSets, FiniteSetsExt

CONSTANTS Ino,                    \* numbers of the inodes of regular files
          Desc, NoFile,           \* descriptors; no file under one
          Blocks,                 \* numbers of the disk blocks for data
          SFS_BLKSIZE, SFS_NDIRECT, SFS_MAX_FILE_SIZE,
          MaxIO                   \* bound on the length of a transfer

ASSUME SfsAssumption ==
    /\ NoFile \notin Ino
    /\ Blocks \subseteq Nat \ {0} /\ IsFiniteSet(Blocks)
    /\ {SFS_BLKSIZE, SFS_NDIRECT, SFS_MAX_FILE_SIZE, MaxIO} \subseteq Nat \ {0}

SFS_BLK_NENTRY == SFS_BLKSIZE

VARIABLES fs,            \* in memory: din and dirty of each file, the bitmap, the
                         \* superblock's count; and store, the data blocks on disk
          disk_din,      \* the inodes on disk
          file, pos,     \* of each descriptor
          halted,        \* "NO", or the assertion that failed
          unsaved        \* history: the files whose inode left memory changed and not marked dirty

sfsVars == <<fs, disk_din, file, pos, halted, unsaved>>

Cell == 0..(SFS_BLKSIZE - 1)
Zeros == [c \in Cell |-> 0]
EmptyDin == [size |-> 0, blocks |-> 0, direct |-> [i \in 0..(SFS_NDIRECT - 1) |-> 0], indirect |-> 0]

\* ROUNDUP_DIV(n, SFS_BLKSIZE)
NBlocks(n) == (n + SFS_BLKSIZE - 1) \div SFS_BLKSIZE
Least(a, b) == IF a < b THEN a ELSE b

-----------------------------------------------------------------------------
(* Blocks.  The operators take a state s of the file system and return the *)
(* next one, with err # "OK" after a failure; once failed, nothing more    *)
(* happens.                                                                *)

Fail(s, err) == [s EXCEPT !.err = err]
NewBlock(s) == Min(s.free)

\* A block is handed out with what it held.
Mutant_NotCleared(s) ==
    IF s.free = {} THEN Fail(s, "E_NO_MEM")
    ELSE [s EXCEPT !.free = @ \ {NewBlock(s)}, !.unused_blocks = @ - 1]

sfs_block_alloc(s) ==
    IF s.free = {} THEN Fail(s, "E_NO_MEM")
    ELSE [s EXCEPT !.free = @ \ {NewBlock(s)}, !.unused_blocks = @ - 1,
                   !.store[NewBlock(s)] = Zeros]

sfs_block_free(s, b) == [s EXCEPT !.free = @ \cup {b}, !.unused_blocks = @ + 1]

\* The disk block of f's block index, or 0.
sfs_bmap_get(s, f, index) ==
    LET din == s.din[f] IN
    IF index < SFS_NDIRECT THEN din.direct[index]
    ELSE IF din.indirect = 0 THEN 0 ELSE s.store[din.indirect][index - SFS_NDIRECT]

\* A direct block is added.
AddDirect(s, f, index) ==
    LET a == sfs_block_alloc(s) IN
    IF a.err # "OK" THEN a
    ELSE [a EXCEPT !.din[f].direct[index] = NewBlock(s), !.dirty[f] = TRUE]

\* The block for the entries is lost when there is none left for the data.
Mutant_KeepsEntryBlock(s, f, slot) ==
    LET e == IF s.din[f].indirect = 0 THEN sfs_block_alloc(s) ELSE s
        ent == IF s.din[f].indirect = 0 THEN NewBlock(s) ELSE s.din[f].indirect
        a == sfs_block_alloc(e) IN
    IF e.err # "OK" THEN e
    ELSE IF a.err # "OK" THEN a
    ELSE [a EXCEPT !.store[ent][slot] = NewBlock(e), !.din[f].indirect = ent,
                   !.dirty[f] = @ \/ s.din[f].indirect = 0]

\* sfs_bmap_get_sub_nolock with create: the indirect block first, if there is
\* none, then the data block; the former is given back when the latter fails.
AddIndirect(s, f, slot) ==
    LET e == IF s.din[f].indirect = 0 THEN sfs_block_alloc(s) ELSE s
        ent == IF s.din[f].indirect = 0 THEN NewBlock(s) ELSE s.din[f].indirect
        a == sfs_block_alloc(e) IN
    IF e.err # "OK" THEN e
    ELSE IF a.err # "OK" THEN Fail(s, a.err)
    ELSE [a EXCEPT !.store[ent][slot] = NewBlock(e), !.din[f].indirect = ent,
                   !.dirty[f] = @ \/ s.din[f].indirect = 0]

\* sfs_bmap_load_nolock: the block just behind the last one is created.
sfs_bmap_load(s, f, index) ==
    LET blocks == s.din[f].blocks
        got == IF index < blocks \/ sfs_bmap_get(s, f, index) # 0 THEN s
               ELSE IF index < SFS_NDIRECT THEN AddDirect(s, f, index)
               ELSE AddIndirect(s, f, index - SFS_NDIRECT) IN
    IF s.err # "OK" THEN s
    ELSE IF index > blocks THEN Fail(s, "index <= din->blocks")
    ELSE IF index >= SFS_NDIRECT + SFS_BLK_NENTRY THEN Fail(s, "index out of range")
    ELSE IF got.err # "OK" \/ index < blocks THEN got
    ELSE [got EXCEPT !.din[f].blocks = @ + 1]

\* sfs_bmap_free_nolock: the block goes, the indirect block stays.
sfs_bmap_free(s, f, index) ==
    LET b == sfs_bmap_get(s, f, index)
        freed == sfs_block_free(s, b) IN
    IF b = 0 THEN s
    ELSE IF index < SFS_NDIRECT THEN [freed EXCEPT !.din[f].direct[index] = 0]
    ELSE [freed EXCEPT !.store[s.din[f].indirect][index - SFS_NDIRECT] = 0]

\* sfs_bmap_truncate_nolock: the last block goes.
sfs_bmap_truncate(s, f) ==
    LET index == s.din[f].blocks - 1 IN
    [sfs_bmap_free(s, f, index) EXCEPT !.din[f].blocks = index, !.dirty[f] = TRUE]

-----------------------------------------------------------------------------
(* sfs_truncfile and sfs_io_nolock.                                        *)

\* The loops of sfs_truncfile: f gets its blocks up to new, or loses those from new on.
Enlarged(s, f, new) ==
    LET old == s.din[f].blocks
        After[k \in 0..(new - old)] ==
           IF k = 0 THEN s ELSE sfs_bmap_load(After[k - 1], f, old + k - 1) IN
    After[new - old]
Cut(s, f, new) ==
    LET After[k \in 0..(s.din[f].blocks - new)] ==
           IF k = 0 THEN s ELSE sfs_bmap_truncate(After[k - 1], f) IN
    After[s.din[f].blocks - new]

sfs_truncfile(s, f, len) ==
    LET old == s.din[f].blocks
        new == NBlocks(len)
        t == IF old <= new THEN Enlarged(s, f, new) ELSE Cut(s, f, new) IN
    IF s.din[f].size = len
    THEN IF old = new THEN s ELSE Fail(s, "tblks == din->blocks")
    ELSE IF t.err # "OK" THEN t
    ELSE [t EXCEPT !.din[f].size = len, !.dirty[f] = TRUE]

\* Where a transfer of n cells at offset ends.
EndPos(s, f, offset, n, write) ==
    Least(offset + n, IF write THEN SFS_MAX_FILE_SIZE ELSE s.din[f].size)

\* One round of a transfer r, in the block index; nothing after a failure.
NextBlock(r, f, index, endpos, write) ==
    LET t == sfs_bmap_load(r.s, f, index)
        b == sfs_bmap_get(t, f, index)
        until == Least(endpos, (index + 1) * SFS_BLKSIZE)
        inside == {i \in Cell : index * SFS_BLKSIZE + i \in r.at..(until - 1)} IN
    IF t.err # "OK" THEN [r EXCEPT !.s = t]
    ELSE [s |-> IF write THEN [t EXCEPT !.store[b] = [i \in Cell |-> IF i \in inside THEN f ELSE @[i]]]
                ELSE t,
          at |-> until]

\* A transfer: its state and how far it came, after n blocks.
Transferred(s, f, offset, endpos, write) ==
    LET first == offset \div SFS_BLKSIZE
        n == (endpos - 1) \div SFS_BLKSIZE - first + 1
        After[k \in 0..n] ==
           IF k = 0 THEN [s |-> s, at |-> offset]
           ELSE NextBlock(After[k - 1], f, first + k - 1, endpos, write) IN
    After[n]

\* The size at the label out, however far the transfer came.
Grown(s, f, at) ==
    IF at > s.din[f].size THEN [s EXCEPT !.din[f].size = at, !.dirty[f] = TRUE] ELSE s

sfs_io(s, f, offset, n, write) ==
    LET endpos == EndPos(s, f, offset, n, write)
        r == Transferred(s, f, offset, endpos, write) IN
    IF offset >= SFS_MAX_FILE_SIZE \/ n = 0 \/ endpos <= offset
    THEN [s |-> s, at |-> offset]
    ELSE [s |-> Grown(r.s, f, r.at), at |-> r.at]

-----------------------------------------------------------------------------
(* System calls.                                                           *)

Panics == {"index <= din->blocks", "index out of range", "tblks == din->blocks"}

\* The call ends in state s with offset p, unless the kernel stopped in it.
Ends(d, s, p) ==
    IF s.err \in Panics
    THEN halted' = s.err /\ UNCHANGED <<fs, pos>>
    ELSE fs' = [s EXCEPT !.err = "OK"] /\ pos' = [pos EXCEPT ![d] = p] /\ UNCHANGED halted

Opened(d) == halted = "NO" /\ file[d] # NoFile

\* Without flags, with O_APPEND, and with O_TRUNC or O_CREAT (which truncates too).
sfs_open(d) ==
    /\ halted = "NO" /\ file[d] = NoFile
    /\ \E f \in Ino :
          /\ file' = [file EXCEPT ![d] = f]
          /\ Ends(d, fs, 0) \/ Ends(d, fs, fs.din[f].size) \/ Ends(d, sfs_truncfile(fs, f, 0), 0)
    /\ UNCHANGED <<disk_din, unsaved>>

\* sfs_close and sfs_reclaim: the inode is saved if it is marked dirty, and
\* leaves memory; the next open reads what is on disk.
LastClose(f) ==
    /\ disk_din' = IF fs.dirty[f] THEN [disk_din EXCEPT ![f] = fs.din[f]] ELSE disk_din
    /\ fs' = [fs EXCEPT !.din[f] = disk_din'[f], !.dirty[f] = FALSE]
    /\ unsaved' = unsaved \cup {g \in {f} : fs.din[g] # disk_din'[g]}

sfs_close(d) ==
    /\ Opened(d)
    /\ file' = [file EXCEPT ![d] = NoFile]
    /\ pos' = [pos EXCEPT ![d] = 0]
    /\ IF \E e \in Desc \ {d} : file[e] = file[d] THEN UNCHANGED <<fs, disk_din, unsaved>>
       ELSE LastClose(file[d])
    /\ UNCHANGED halted

\* file_write and file_read of up to n cells.
Transfer(d, n, write) ==
    /\ Opened(d)
    /\ LET r == sfs_io(fs, file[d], pos[d], n, write) IN Ends(d, r.s, r.at)
    /\ UNCHANGED <<file, disk_din, unsaved>>

\* file_seek: sfs_tryseek enlarges the file up to a position behind its end.
file_seek(d, p) ==
    /\ Opened(d)
    /\ IF p > fs.din[file[d]].size
       THEN LET s == sfs_truncfile(fs, file[d], p) IN Ends(d, s, IF s.err = "OK" THEN p ELSE pos[d])
       ELSE Ends(d, fs, p)
    /\ UNCHANGED <<file, disk_din, unsaved>>

sfs_fsync(d) ==
    /\ Opened(d) /\ fs.dirty[file[d]]
    /\ disk_din' = [disk_din EXCEPT ![file[d]] = fs.din[file[d]]]
    /\ fs' = [fs EXCEPT !.dirty[file[d]] = FALSE]
    /\ UNCHANGED <<file, pos, halted, unsaved>>

SfsNext ==
    \E d \in Desc : \/ sfs_open(d) \/ sfs_close(d) \/ sfs_fsync(d)
                    \/ \E n \in 1..MaxIO, write \in BOOLEAN : Transfer(d, n, write)
                    \/ \E p \in 0..(SFS_MAX_FILE_SIZE - 1) : file_seek(d, p)

SfsInit == /\ fs = [din |-> [f \in Ino |-> EmptyDin], dirty |-> [f \in Ino |-> FALSE],
                 free |-> Blocks, unused_blocks |-> Cardinality(Blocks),
                 store |-> [b \in Blocks |-> Zeros], err |-> "OK"]
        /\ disk_din = [f \in Ino |-> EmptyDin]
        /\ file = [d \in Desc |-> NoFile]
        /\ pos = [d \in Desc |-> 0]
        /\ halted = "NO"
        /\ unsaved = {}

SfsSpec == SfsInit /\ [][SfsNext]_sfsVars

-----------------------------------------------------------------------------
Slots == 0..(SFS_NDIRECT + SFS_BLK_NENTRY - 1)
\* The places where the number of a disk block is kept.
Pointers == {[of |-> f, at |-> index] : f \in Ino, index \in Slots \cup {-1}}
Target(p) == IF p.at = -1 THEN fs.din[p.of].indirect ELSE sfs_bmap_get(fs, p.of, p.at)

SfsTypeOK ==
    /\ \A f \in Ino :
          /\ fs.din[f] \in [size : 0..SFS_MAX_FILE_SIZE, blocks : 0..(SFS_NDIRECT + SFS_BLK_NENTRY),
                            direct : [0..(SFS_NDIRECT - 1) -> Blocks \cup {0}],
                            indirect : Blocks \cup {0}]
          /\ fs.dirty[f] \in BOOLEAN
    /\ fs.free \subseteq Blocks /\ fs.unused_blocks \in 0..Cardinality(Blocks) /\ fs.err = "OK"
    /\ file \in [Desc -> Ino \cup {NoFile}]
    /\ pos \in [Desc -> 0..SFS_MAX_FILE_SIZE]
    /\ halted \in Panics \cup {"NO"}
    /\ unsaved \subseteq Ino

\* A block that is not free is named by exactly one pointer of one file, a
\* free one by none, and the superblock counts the free ones.
BlocksOwnedOnce ==
    /\ \A b \in Blocks :
          Cardinality({p \in Pointers : Target(p) = b}) = IF b \in fs.free THEN 0 ELSE 1
    /\ fs.unused_blocks = Cardinality(fs.free)

\* Every block below din->blocks exists.
NoHoles == \A f \in Ino : \A index \in 0..(fs.din[f].blocks - 1) : sfs_bmap_get(fs, f, index) # 0

\* The files show what was written to them and nothing else, through full
\* disks, truncation under other descriptors, and leaving and entering memory,
\* as long as no inode leaves memory with changes that nobody marked: a block it
\* loses that way keeps its data and is named by the indirect block, and when the
\* file grows over it again, after a truncation, the old data shows.
Content(f) ==
    [i \in 1..fs.din[f].size |->
        LET b == sfs_bmap_get(fs, f, (i - 1) \div SFS_BLKSIZE) IN
        IF b = 0 THEN 0 ELSE fs.store[b][(i - 1) % SFS_BLKSIZE]]
Flat == INSTANCE FlatFiles
           WITH File <- Ino, content <- [f \in Ino |-> Content(f)], MaxSize <- SFS_MAX_FILE_SIZE
ImplementsFlatFiles == Flat!Init /\ [][unsaved' = {} => Flat!Next]_(Flat!vars)

\* sfs.h: "bool dirty; true if inode modified".  Violated: a block appended
\* behind an existing indirect block by a call that does not change the size
\* raises din->blocks only.
DirtyIfModified == \A f \in Ino : fs.din[f] # disk_din[f] => fs.dirty[f]

\* sfs_bmap_load_nolock: assert(index <= din->blocks).  Violated by a
\* descriptor whose offset lies behind the end another one has set.
IndexInFile == halted # "index <= din->blocks"

\* sfs_truncfile: assert(tblks == din->blocks).  Violated after an
\* enlargement that stopped half-way on a full disk.
SizeMatchesBlocks == halted # "tblks == din->blocks"

\* What holds of the blocks between any two calls.
BlocksInv == SfsTypeOK /\ BlocksOwnedOnce /\ NoHoles
=============================================================================
