-------------------------------- MODULE Ext2 --------------------------------
(***************************************************************************)
(* fs/ext2.c: the ext2 file system, as the calls of posix/io.c drive it.   *)
(*                                                                         *)
(* A block is a sequence of W words: a word is a byte of a file or the     *)
(* number of a block in an indirect block.  The root directory is the one  *)
(* directory (nothing in the code makes another); its blocks hold entries. *)
(* The block bitmap of the group used last is kept in memory and reaches   *)
(* the disk when another group's is loaded or by sync(); the counts of the *)
(* superblock never do (ext2.c:480-505 writes back what it read).          *)
(*                                                                         *)
(* Left out: the block cache (not configured, config.h:112), errors of the *)
(* disk, times and modes, and the doubly and triply indirect blocks, which *)
(* files of at most MaxSize words do not reach.                            *)
(*                                                                         *)
(* The callers are careful where the code needs them to be; "Care" names   *)
(* each of these conditions and the line that breaks without it.           *)
(***************************************************************************)
EXTENDS Integers, Sequences, FiniteSets, SequencesExt, FiniteSetsExt

CONSTANTS Names,         \* file names, none a prefix of another
          W,             \* words of a block (block_size, max_ind_blocks)
          NDir,          \* EXT2_NDIR_BLOCKS
          Groups,        \* 0..num_groups-1
          GroupBlocks,   \* s_blocks_per_group
          Meta,          \* blocks of the superblock, bitmaps and inode tables
          RootBlock,     \* the block of the root directory
          Inodes,        \* inode numbers, from 1
          Reserved,      \* those that are in use from the start
          Slots,         \* room of a directory's block, in entries
          Mark,          \* a number for each name: the bytes written through it carry it
          Counts,        \* sizes of a write
          MaxSize,       \* bound on the size of a file
          ReadsDir,      \* whether the directory is read
          MaxReboots     \* bound on the restarts

VARIABLES fs,            \* the disk and the state of the mounted file system
          opened,        \* struct ext2_fs_entry of each open file
          dir,           \* the directory being read: dir_pos, and history: the
                         \* names seen, those there all the time, those missed
          reboots,
          want           \* history: what a file was given to hold

vars == <<fs, opened, dir, reboots, want>>

Root == 2                               \* ROOT_INODE_NUM
Null == 0
NoGroup == -1                           \* last_blocks_bitmap_pos = 0
Blocks == 0..(Cardinality(Groups) * GroupBlocks - 1)
Ind == NDir                             \* EXT2_IND_BLOCK
Absent == <<-1>>

EmptyInode == [size |-> 0, blocks |-> 0, block |-> [n \in 0..Ind |-> Null]]
Entry(name, inode, rec) == [name |-> name, inode |-> inode, rec |-> rec]
Unread == [open |-> FALSE, pos |-> 0, seen |-> {}, since |-> {}, missed |-> {}]
BlocksOf(size) == (size + W - 1) \div W

\* ext2_mount(): what the disk holds, the counts and no bitmap
Mounted(f) == [f EXCEPT !.last = [pos |-> NoGroup, used |-> {}], !.free = f.count]

Mkfs ==
    LET used == [g \in Groups |-> {b % GroupBlocks : b \in {m \in Meta \cup {RootBlock} : m \div GroupBlocks = g}}]
    IN [disk |-> [b \in Blocks |-> [w \in 0..(W-1) |-> Null]],
        ents |-> [b \in Blocks |-> IF b = RootBlock THEN <<Entry(".", Root, 1), Entry("..", Root, Slots - 1)>> ELSE <<>>],
        itbl |-> [i \in Inodes |-> IF i = Root
                                   THEN [EmptyInode EXCEPT !.size = W, !.blocks = 1, !.block[0] = RootBlock]
                                   ELSE EmptyInode],
        imap |-> {i - 1 : i \in Reserved},
        bmaps |-> used,
        count |-> Cardinality(Blocks \ (Meta \cup {RootBlock})),
        last |-> [pos |-> NoGroup, used |-> {}], free |-> 0]

---------------------------------------------------------------------------
(* Allocation.                                                             *)

\* ext2_refill_blocks_bitmap()
RefillUnflushed(f, g) ==                \* mutant: the old bitmap is not written back
    IF f.last.pos = g THEN f ELSE [f EXCEPT !.last = [pos |-> g, used |-> f.bmaps[g]]]
Refill(f, g) ==
    IF f.last.pos = g THEN f
    ELSE LET flushed == IF f.last.pos = NoGroup THEN f.bmaps ELSE [f.bmaps EXCEPT ![f.last.pos] = f.last.used]
         IN [f EXCEPT !.bmaps = flushed, !.last = [pos |-> g, used |-> flushed[g]]]

Marked(f) == [g \in Groups |-> IF g = f.last.pos THEN f.last.used ELSE f.bmaps[g]]

\* ext2_alloc_block(): the groups' bitmaps are loaded one after another; 0 when
\* all are full, and when the first free block found is block 0
LoadUpTo(f, g) == FoldLeft(Refill, f, [i \in 1..(g + 1) |-> i - 1])
FirstFree(f) == Min((0..(GroupBlocks-1)) \ f.last.used)
TakeFirst(f, i) ==
    [f |-> [f EXCEPT !.last.used = @ \cup {i}, !.free = @ - 1], b |-> f.last.pos * GroupBlocks + i]
TakeFirstFree(f) == TakeFirst(f, FirstFree(f))
AllocIn(f, groups) ==
    IF groups = {} THEN [f |-> LoadUpTo(f, Max(Groups)), b |-> Null]
    ELSE TakeFirstFree(LoadUpTo(f, Min(groups)))
AllocBlock(f) == AllocIn(f, {g \in Groups : Marked(f)[g] # 0..(GroupBlocks-1)})

FreeBlock(f, b) ==
    LET l == Refill(f, b \div GroupBlocks)
    IN [l EXCEPT !.last.used = @ \ {b % GroupBlocks}, !.free = @ + 1]

FreeBlocks(f, bs) == FoldLeft(FreeBlock, f, bs)

\* ext2_alloc_inode(): a 0-based index, and 0 when there is none
AllocInode(f) ==
    LET free == {i - 1 : i \in Inodes} \ f.imap
    IN IF free = {} THEN [f |-> f, i |-> 0]
       ELSE [f |-> [f EXCEPT !.imap = @ \cup {Min(free)}], i |-> Min(free)]

FreeInode(f, idx) == [f EXCEPT !.imap = @ \ {idx}]

ReadInodeTbl(f, num) == f.itbl[num]
WriteInodeTbl(f, num, inode) == [f EXCEPT !.itbl[num] = inode]

---------------------------------------------------------------------------
(* The blocks of an inode.                                                 *)

NeededBlocks(count) == IF count <= NDir THEN count ELSE count + 1

\* one round of the allocation loop: the indirect block before its first entry,
\* then the block; s.n is curr_block_num, s.ind is ind_block
AllocTable(s, a) ==
    IF a.b = Null THEN [s EXCEPT !.f = a.f, !.failed = TRUE]
    ELSE [s EXCEPT !.f = a.f, !.inode = [@ EXCEPT !.block[Ind] = a.b, !.blocks = @ + 1],
                   !.ind = [w \in 0..(W-1) |-> Null]]
AllocData(s, a) ==
    IF a.b = Null THEN [s EXCEPT !.f = a.f, !.failed = TRUE]
    ELSE [s EXCEPT !.f = a.f, !.n = @ + 1, !.first = IF @ = Null THEN a.b ELSE @,
                   !.inode = [@ EXCEPT !.blocks = @ + 1,
                                       !.block = IF s.n < NDir THEN [@ EXCEPT ![s.n] = a.b] ELSE @],
                   !.ind = IF s.n < NDir THEN @ ELSE [@ EXCEPT ![s.n - NDir] = a.b],
                   !.commit = s.n >= NDir]
AllocMore(s) == IF s.failed THEN s ELSE AllocData(s, AllocBlock(s.f))
AllocNext(s) == AllocMore(IF s.n = Ind /\ ~s.failed THEN AllocTable(s, AllocBlock(s.f)) ELSE s)
Committed(s) == IF s.commit /\ ~s.failed THEN [s EXCEPT !.f.disk[s.inode.block[Ind]] = s.ind] ELSE s

\* ext2_inode_alloc_blocks_count(): failing half-way it keeps the blocks it took
\* and writes no indirect block
InodeAlloc(f, inode, count) ==
    LET n == BlocksOf(inode.size)
        s0 == [f |-> f, inode |-> inode, n |-> n, first |-> Null, commit |-> FALSE,
               failed |-> NeededBlocks(count) >= (f.free * 95) \div 100,
               ind |-> IF n > Ind THEN f.disk[inode.block[Ind]] ELSE [w \in 0..(W-1) |-> Null]]
    IN Committed(FoldLeft(LAMBDA s, k : AllocNext(s), s0, [k \in 1..count |-> k]))

\* the block that holds word "at" of a file, as ext2_inode_io() finds it
BlockAt(f, inode, at) ==
    LET n == at \div W
    IN IF n < NDir THEN inode.block[n] ELSE f.disk[inode.block[Ind]][n - NDir]

InodeRead(f, inode, offs, count) ==
    IF offs >= inode.size THEN <<>>
    ELSE [k \in 1..Min({count, inode.size - offs}) |->
            LET at == offs + k - 1 IN f.disk[BlockAt(f, inode, at)][at % W]]

InodeWrite(f, inode, offs, data) ==
    LET d[k \in 0..Len(data)] ==
          IF k = 0 THEN f.disk
          ELSE LET prev == d[k-1]
                   at == offs + k - 1
               IN [prev EXCEPT ![BlockAt(f, inode, at)][at % W] = data[k]]
    IN [f EXCEPT !.disk = d[Len(data)]]

---------------------------------------------------------------------------
(* The directory.                                                          *)

DirBlocks(f) == [n \in 1..BlocksOf(f.itbl[Root].size) |-> f.itbl[Root].block[n - 1]]

\* memcmp() over the name of the entry: a blank entry matches every name
Matches(e, name) == e.name \in {name, "blank"}

Offset(es, k) == FoldLeft(LAMBDA n, e : n + e.rec, 0, SubSeq(es, 1, k - 1))

\* ext2_dirent_read(): the block and the place of the entry
Found(f, name) ==
    {<<n, k>> \in (DOMAIN DirBlocks(f)) \X (1..Slots) :
        LET es == f.ents[DirBlocks(f)[n]] IN k \in DOMAIN es /\ Matches(es[k], name)}
FirstOf(places) == CHOOSE p \in places : \A q \in places : p[1] < q[1] \/ (p[1] = q[1] /\ p[2] <= q[2])
Lookup(f, name) == LET p == FirstOf(Found(f, name)) IN f.ents[DirBlocks(f)[p[1]]][p[2]].inode

\* ext2_dirent_create(): an entry with room is split; an entry is not looked at
\* when the one before it would reach the end of the block from there
Room(f) ==
    {<<n, k>> \in (DOMAIN DirBlocks(f)) \X (1..Slots) :
        LET es == f.ents[DirBlocks(f)[n]]
        IN /\ k \in DOMAIN es /\ es[k].rec >= 2
           /\ \A j \in 2..k : Offset(es, j) + es[j-1].rec < Slots}

Split(es, k, name, inode) ==
    SubSeq(es, 1, k - 1) \o <<[es[k] EXCEPT !.rec = 1], Entry(name, inode, es[k].rec - 1)>>
        \o SubSeq(es, k + 1, Len(es))
CreateAt(f, p, name, inode) == [f EXCEPT !.ents[DirBlocks(f)[p[1]]] = Split(@, p[2], name, inode)]
DirentCreate(f, name, inode) == CreateAt(f, FirstOf(Room(f)), name, inode)

Joined(es, k) ==
    CASE es[k].rec = Slots -> <<Entry("blank", 0, Slots)>>
      [] es[k].rec # Slots /\ k = 1 ->
            <<[es[2] EXCEPT !.rec = es[1].rec + es[2].rec]>> \o SubSeq(es, 3, Len(es))
      [] OTHER -> RemoveAt([es EXCEPT ![k-1].rec = @ + es[k].rec], k)
DeleteAt(f, p) == [f EXCEPT !.ents[DirBlocks(f)[p[1]]] = Joined(@, p[2])]
DirentDelete(f, name) == DeleteAt(f, FirstOf(Found(f, name)))

\* ext2_inode_unlink() of a file without an indirect block
InodeUnlink(f, num) ==
    LET inode == ReadInodeTbl(f, num)
        freed == FreeBlocks(f, [n \in 1..inode.blocks |-> inode.block[n - 1]])
    IN FreeInode(WriteInodeTbl(freed, num, [inode EXCEPT !.blocks = 0]), num - 1)

---------------------------------------------------------------------------
(* The generic interface.                                                  *)

Exists(name) == Found(fs, name) # {}
Unopened(name) == \A h \in DOMAIN opened : opened[h].num # Lookup(fs, name)

\* Care: a second open of a file has its own copy of the inode (ext2.c:1903)
FileOpen(name) ==
    /\ Exists(name) /\ Unopened(name)
    /\ LET num == Lookup(fs, name)
       IN opened' = (name :> [num |-> num, inode |-> ReadInodeTbl(fs, num)]) @@ opened
    /\ UNCHANGED <<fs, dir, reboots, want>>

\* Care: no check that the name is new (ext2.c:1944); no inode left gives out
\* inode 1 (ext2.c:557); a full directory's last block is written over
\* (ext2.c:1706)
FileCreat(name) ==
    LET a == AllocInode(fs)
        num == a.i + 1
        f1 == WriteInodeTbl(a.f, num, EmptyInode)
    IN /\ ~Exists(name) /\ fs.imap # {i - 1 : i \in Inodes} /\ Room(f1) # {}
       /\ fs' = DirentCreate(f1, name, num)
       /\ opened' = (name :> [num |-> num, inode |-> EmptyInode]) @@ opened
       /\ want' = [want EXCEPT ![name] = <<>>]
       /\ UNCHANGED <<dir, reboots>>

\* Care: blocks skipped by a write past the end hold what they held (ext2.c:2009)
Extended(h, more) ==
    IF more > 0 THEN InodeAlloc(fs, opened[h].inode, more)
    ELSE [f |-> fs, inode |-> opened[h].inode, first |-> Null, failed |-> FALSE]
NotWritten(h, a) ==
    /\ fs' = a.f /\ opened' = [opened EXCEPT ![h].inode = a.inode]
    /\ UNCHANGED want
Written(h, f, inode, offs, data) ==
    /\ fs' = WriteInodeTbl(InodeWrite(f, inode, offs, data), opened[h].num, inode)
    /\ opened' = [opened EXCEPT ![h].inode = inode]
    /\ want' = [want EXCEPT ![h] = SubSeq(@, 1, offs) \o data \o SubSeq(@, offs + Len(data) + 1, Len(@))]
WrittenTo(h, more, a, offs, data) ==
    IF more > 0 /\ (a.failed \/ a.first = Null) THEN NotWritten(h, a)
    ELSE Written(h, a.f, [a.inode EXCEPT !.size = Max({@, offs + Len(data)})], offs, data)
FileWrite(h, offs, data) ==
    LET more == BlocksOf(offs + Len(data)) - BlocksOf(opened[h].inode.size)
    IN /\ offs <= opened[h].inode.size
       /\ WrittenTo(h, more, Extended(h, more), offs, data)
       /\ UNCHANGED <<dir, reboots>>

FileClose(h) ==
    /\ fs' = WriteInodeTbl(fs, opened[h].num, opened[h].inode)
    /\ opened' = [x \in DOMAIN opened \ {h} |-> opened[x]]
    /\ UNCHANGED <<dir, reboots, want>>

\* Care: closing writes the inode again (ext2.c:2035), and i_blocks counts the
\* indirect block too, so with it one entry too many is freed, block 0 or what
\* a table that is not there holds (ext2.c:1443, 1453)
FileUnlink(name) ==
    /\ Exists(name) /\ Unopened(name) /\ fs.itbl[Lookup(fs, name)].blocks <= NDir
    /\ fs' = DirentDelete(InodeUnlink(fs, Lookup(fs, name)), name)
    /\ want' = [want EXCEPT ![name] = Absent] /\ dir' = [dir EXCEPT !.since = @ \ {name}]
    /\ UNCHANGED <<opened, reboots>>

FileRename(src, dest) ==
    /\ src # dest /\ Exists(src) /\ ~Exists(dest) /\ Room(fs) # {} /\ Unopened(src)
    /\ fs' = DirentDelete(DirentCreate(fs, dest, Lookup(fs, src)), src)
    /\ want' = [want EXCEPT ![dest] = want[src], ![src] = Absent]
    /\ dir' = [dir EXCEPT !.since = @ \ {src}]
    /\ UNCHANGED <<opened, reboots>>

\* Care: dir_pos is the file system's, one for all open directories (io.h:121)
OpenDir ==
    /\ ReadsDir /\ ~dir.open
    /\ dir' = [dir EXCEPT !.open = TRUE, !.since = {name \in Names : Exists(name)}]
    /\ UNCHANGED <<fs, opened, reboots, want>>

\* ext2_read_dir(): the first entry from dir_pos on; the end of the directory
\* ends the reading
ReadNext(p, e) ==
    dir' = [dir EXCEPT !.pos = (p[1] - 1) * Slots + Offset(fs.ents[DirBlocks(fs)[p[1]]], p[2]) + e.rec,
                       !.seen = @ \cup {e.name}]
ReadFirst(p) == ReadNext(p, fs.ents[DirBlocks(fs)[p[1]]][p[2]])
ReadDir ==
    LET later == {p \in (DOMAIN DirBlocks(fs)) \X (1..Slots) :
                    LET es == fs.ents[DirBlocks(fs)[p[1]]]
                    IN p[2] \in DOMAIN es /\ (p[1] - 1) * Slots + Offset(es, p[2]) >= dir.pos}
    IN /\ dir.open
       /\ IF later = {} THEN dir' = [Unread EXCEPT !.missed = dir.since \ dir.seen]
                        ELSE ReadFirst(FirstOf(later))
       /\ UNCHANGED <<fs, opened, reboots, want>>

\* Care: with no bitmap loaded the empty buffer is written to block 0, over the
\* superblock (ext2.c:2315)
Sync ==
    /\ fs.last.pos # NoGroup
    /\ fs' = [fs EXCEPT !.bmaps[fs.last.pos] = fs.last.used]
    /\ UNCHANGED <<opened, dir, reboots, want>>

\* the machine stops and mounts the disk again.  Care: the bitmap in memory is
\* lost (ext2.c:1878)
Reboot ==
    /\ reboots < MaxReboots /\ Marked(fs) = fs.bmaps
    /\ fs' = Mounted(fs) /\ opened' = <<>> /\ dir' = Unread /\ reboots' = reboots + 1
    /\ UNCHANGED want

Init ==
    /\ fs = Mounted(Mkfs) /\ opened = <<>> /\ dir = Unread /\ reboots = 0
    /\ want = [name \in Names |-> Absent]

Next ==
    \/ \E name \in Names : FileOpen(name) \/ FileCreat(name) \/ FileUnlink(name)
    \/ \E src, dest \in Names : FileRename(src, dest)
    \/ \E h \in DOMAIN opened, offs \in 0..MaxSize, n \in Counts :
          offs + n <= MaxSize /\ FileWrite(h, offs, [k \in 1..n |-> Mark[h] + offs + k])
    \/ \E h \in DOMAIN opened : FileClose(h)
    \/ OpenDir \/ ReadDir
    \/ Sync \/ Reboot

Spec == Init /\ [][Next]_vars

---------------------------------------------------------------------------

TypeOK ==
    /\ \A g \in Groups : fs.bmaps[g] \subseteq 0..(GroupBlocks-1)
    /\ fs.last.pos \in Groups \cup {NoGroup} /\ fs.last.used \subseteq 0..(GroupBlocks-1)
    /\ \A i \in Inodes : fs.itbl[i].size \in 0..Max({MaxSize, W}) /\ \A n \in 0..Ind : fs.itbl[i].block[n] \in Blocks

\* A file that was created, written, renamed, closed and opened again, on this
\* side of a restart or the other, holds what was written to it, whatever was
\* done to the other files.
FilesKeepData ==
    \A name \in Names :
        /\ Exists(name) <=> want[name] # Absent
        /\ Exists(name) => LET inode == fs.itbl[Lookup(fs, name)]
                           IN InodeRead(fs, inode, 0, MaxSize) = want[name]

\* Who reads the directory while files come and go sees every file that was
\* there all the time.
DirectoryWhollyRead == dir.missed = {}

\* the blocks of a file, in order, its indirect block last
FileBlocks(i) ==
    LET inode == fs.itbl[i]
        n == BlocksOf(inode.size)
    IN [k \in 1..n |-> BlockAt(fs, inode, (k - 1) * W)] \o (IF n > NDir THEN <<inode.block[Ind]>> ELSE <<>>)

\* No block is in two places of the files and the file system's own data, and
\* each block in use is marked so, in the bitmap in memory or on the disk.
BlocksOwnedOnce ==
    LET used == {i \in Inodes : i - 1 \in fs.imap}
        places == UNION {{<<i, k>> : k \in DOMAIN FileBlocks(i)} : i \in used}
        block(p) == FileBlocks(p[1])[p[2]]
    IN /\ \A p \in places : block(p) \notin Meta
                            /\ (block(p) % GroupBlocks) \in Marked(fs)[block(p) \div GroupBlocks]
       /\ \A p, q \in places : block(p) = block(q) => p = q
=============================================================================
