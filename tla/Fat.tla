-------------------------------- MODULE Fat --------------------------------
(***************************************************************************)
(* fs/fat.c: a FAT16 volume, made by another system, as the calls of       *)
(* posix/io.c drive it.  A cluster is a sequence of W cells: units of a    *)
(* file's data or entries of a sub-directory.  The code counts clusters    *)
(* from 0 and the table from 2; numbers here are the table's, except where *)
(* the code mixes the two (FileSize).                                      *)
(*                                                                         *)
(* Creating and unlinking work in sub-directories only: for a name in the  *)
(* root the parent's path is "", whose entry is an uninitialised variable  *)
(* (fat.c:944, 1130).  Not modelled: FAT12, whose updates lose bits        *)
(* (fat.c:388), and rename, which nothing calls.  The conditions marked    *)
(* Care keep clear of what the code breaks:                                *)
(*   - fat_file_write() writes whole clusters from a buffer it fills only  *)
(*     where it writes (1077): files are written in whole clusters, and    *)
(*     for an entry the stack still holds the cluster read just before;    *)
(*   - fat_alloc_clusters_count() links what it allocates to the cluster   *)
(*     that prev_cluster names, which it never set (408, 417): Care has it *)
(*     name none of the volume's, as 0, what is reserved and what is past  *)
(*     the end do, lest it cut another file's chain;                       *)
(*   - the file's size never changes (1054-1070): what is appended is      *)
(*     chained to the file, and never read;                                *)
(*   - a new entry zeroes the one after it, used or not (822), and with    *)
(*     none after it links the directory to cluster 1 and writes below the *)
(*     data area (1099).                                                   *)
(***************************************************************************)
EXTENDS Integers, Sequences, FiniteSets, SequencesExt, FiniteSetsExt

CONSTANTS
  N,            \* clusters of the data area, numbered from 2
  Total,        \* total_sectors / sectors_per_cluster
  W,            \* units, or directory entries, of a cluster
  Stack,        \* what the uninitialised prev_cluster (417) may hold
  Images,       \* the clusters of D, F and G on the volumes to start from
  Handles,      \* open files at a time
  MaxWrites     \* bound on the writes

VARIABLES
  fat,          \* the allocation table
  data,         \* the clusters
  root,         \* the root directory
  opened,       \* struct fat_dir_entry copies of the open files
  dir,          \* the directory being read: dir_pos
  writes

vars == <<fat, data, root, opened, dir, writes>>

Clusters == 2 .. N + 1
LastUsed == 900                        \* FAT16_LAST_USED_CLUSTER
EndMark == 999                         \* FAT16_LAST_CLUSTER_MIN

(* A directory entry: its kind (or first character), name, first cluster   *)
(* and size.                                                               *)
Avail == <<"avail", "", 0, 0>>         \* FAT_AVAIL_DIR_ENTRY
Erased(e) == <<"erased", e[2], e[3], e[4]>>
Entry(kind, name, first, size) == <<kind, name, first, size>>
First(e) == e[3]
Unit(name, i) == <<"unit", name, i, 0>>
NoEntry == <<"none", "", 0, 0>>

(* fat_next_cluster; the table's sectors past the last cluster are zeroed. *)
NextCluster(f, c) == IF c \in 0 .. N + 1 THEN f[c] ELSE 0
(* The clusters a loop over a chain visits.  A walk longer than the volume *)
(* has met itself and never ends.                                          *)
Chain(f, first) ==
  LET walk[k \in 0 .. N] ==
        IF k = 0 THEN IF first \in 2 .. LastUsed THEN <<first>> ELSE <<>>
        ELSE LET s == walk[k - 1]
                 next == NextCluster(f, Last(s)) IN
             IF Len(s) = k /\ next \in 2 .. LastUsed THEN Append(s, next) ELSE s
  IN walk[N]

(* fat_get_file_size: a directory's clusters are counted along the chain   *)
(* of the cluster two after its first.                                     *)
FileSize(e) == IF e[1] = "dir" THEN W * (1 + Len(Chain(fat, First(e) + 2)))
                               ELSE e[4]

CellAt(chain, i) == data[chain[i \div W + 1]][(i % W) + 1]
(* fat_file_read of count cells from offs, inside the file's chain.        *)
FileRead(e, offs, count) ==
  [i \in 1 .. Min({count, FileSize(e) - offs}) |->
     CellAt(Chain(fat, First(e)), offs + i - 1)]
InChain(e, offs) == offs < W * Len(Chain(fat, First(e)))

(* fat_commit_entry: numbers from Total on are refused, and nobody looks.  *)
Commit(f, c, value) == IF c < Total /\ c \in DOMAIN f THEN [f EXCEPT ![c] = value] ELSE f
-----------------------------------------------------------------------------
(* fat_alloc_clusters_count: the first free entries from 3 on, each linked *)
(* to the one before; the first is linked to whatever prev_cluster held.   *)
FreeEntries(f) == SetToSortSeq({c \in Clusters : f[c] = 0}, <)
LinkAll(f, cs, prev) ==
  FoldLeft(LAMBDA g, i :
             IF i > 1 THEN Commit(g, cs[i - 1], cs[i])
             ELSE IF prev # 0 THEN Commit(g, prev, cs[1]) ELSE g,
           f, [i \in 1 .. Len(cs) |-> i])
UnmarkedEnd(f, cs) == f                    \* mutant: the last is not marked
MarkEnd(f, cs) == Commit(f, Last(cs), EndMark)
Alloc(f, count, prev) ==
  LET free == FreeEntries(f)
      usable == SelectSeq(free, LAMBDA c : c # 2)
      cs == SubSeq(usable, 1, Min({count, Len(usable)}))
      linked == LinkAll(f, cs, prev)
      enough == Len(usable) >= count
  IN [ok |-> enough,
      clusters |-> cs,
      fat |-> IF Len(free) < count THEN f               \* fat_check_avail_clusters
              ELSE IF enough THEN MarkEnd(linked, cs)
              ELSE linked]                              \* cluster 2 is counted, not used

NewClusters(e, offs, count) == (offs + count - FileSize(e) + W - 1) \div W
(* fat_file_write of whole clusters (Care: offs and count are multiples of *)
(* W) into an open file.  A write past the recorded size allocates clusters for all that is past it, and  *)
(* links them only if the chain has no room for the data.                  *)
FileWrite(h, offs, count) ==
  LET e == opened[h]
      grows == offs + count > FileSize(e) IN
  /\ e[1] = "file" /\ writes < MaxWrites
  /\ writes' = writes + 1
  /\ \E prev \in Stack \ Clusters :                                    \* Care
       LET got == IF grows THEN Alloc(fat, NewClusters(e, offs, count), prev)
                  ELSE [ok |-> TRUE, clusters |-> <<>>, fat |-> fat] IN
       IF ~got.ok
       THEN fat' = got.fat /\ UNCHANGED <<data, opened>>
       ELSE LET old == Chain(got.fat, First(e))
                first == IF First(e) = 0 THEN got.clusters[1] ELSE First(e)
                fits == W * Len(Chain(got.fat, first)) >= offs + count
                whole == IF fits THEN Chain(got.fat, first) ELSE old \o got.clusters
            IN /\ fat' = IF fits THEN got.fat
                         ELSE Commit(got.fat, Last(old), got.clusters[1])
               /\ opened' = [opened EXCEPT ![h] = [e EXCEPT ![3] = first]]
               /\ data' = [c \in Clusters |->
                    IF \E k \in (offs \div W) + 1 .. (offs + count) \div W : whole[k] = c
                    THEN LET k == CHOOSE k \in 1 .. Len(whole) : whole[k] = c IN
                         [i \in 1 .. W |-> Unit(e[2], (k - 1) * W + i - 1)]
                    ELSE data[c]]
  /\ UNCHANGED <<root, dir>>
-----------------------------------------------------------------------------
(* Looking up a name: the root directory's entries up to the first that    *)
(* was never used; a sub-directory's cells in the same way.                *)
Matches(s, name) == {i \in 1 .. Len(s) :
  /\ s[i][2] = name /\ s[i][1] \in {"file", "dir"}
  /\ \A j \in 1 .. i - 1 : s[j][1] # "avail"}
RootFind(name) == IF Matches(root, name) = {} THEN NoEntry
                  ELSE root[Min(Matches(root, name))]
Cells(d) == LET chain == Chain(fat, First(d)) IN
  [i \in 1 .. Min({FileSize(d), W * Len(chain)}) |-> CellAt(chain, i - 1)]
DirFind(d, name) == IF Matches(Cells(d), name) = {} THEN NoEntry
                    ELSE Cells(d)[Min(Matches(Cells(d), name))]
(* fat_find_dir_entry of "/name" or "/dir/name".                           *)
Find(path) == IF Len(path) = 1 THEN RootFind(path[1])
              ELSE IF RootFind(path[1])[1] # "dir" THEN NoEntry
              ELSE DirFind(RootFind(path[1]), path[2])

FileOpen(path) ==
  /\ Find(path) # NoEntry
  /\ \E h \in Handles :
       /\ opened[h] = NoEntry /\ \A k \in Handles : k < h => opened[k] # NoEntry
       /\ opened' = [opened EXCEPT ![h] = Find(path)]
  /\ UNCHANGED <<fat, data, root, dir, writes>>
FileClose(h) ==
  /\ opened[h] # NoEntry
  /\ opened' = [opened EXCEPT ![h] = NoEntry]
  /\ UNCHANGED <<fat, data, root, dir, writes>>

(* Writing one entry of a sub-directory in place.                          *)
PutCell(f, d, i, cell) ==
  LET c == Chain(fat, First(d))[i \div W + 1] IN [f EXCEPT ![c][(i % W) + 1] = cell]

(* fat_file_creat, through fat_dir_entry_write: the first unused entry is  *)
(* taken and the next is zeroed.                                           *)
FileCreat(dname, name) ==
  LET d == RootFind(dname)
      free == {i \in 0 .. Len(Cells(d)) - 1 : Cells(d)[i + 1][1] \in {"avail", "erased"}}
      i == Min(free)
      e == Entry("file", name, 0, 0) IN
  /\ d[1] = "dir" /\ DirFind(d, name) = NoEntry
  /\ free # {} /\ InChain(d, i + 1) /\ Cells(d)[i + 2] = Avail     \* Care
  /\ data' = PutCell(PutCell(data, d, i, e), d, i + 1, Avail)
  /\ \E h \in Handles : opened[h] = NoEntry /\ opened' = [opened EXCEPT ![h] = e]
  /\ UNCHANGED <<fat, root, dir, writes>>

(* fat_file_unlink: the entry is marked erased; its clusters stay taken.   *)
FileUnlink(dname, name) ==
  LET d == RootFind(dname)
      i == Min(Matches(Cells(d), name)) - 1 IN
  /\ d[1] = "dir" /\ DirFind(d, name) # NoEntry
  /\ data' = PutCell(data, d, i, Erased(Cells(d)[i + 1]))
  /\ UNCHANGED <<fat, root, opened, dir, writes>>
-----------------------------------------------------------------------------
(* fat_read_dir: entries of long names are passed over, erased ones are    *)
(* not; the listing ends at an entry that was never used, or past the end. *)
NoDir == [of |-> "", pos |-> 0]
OpenDir(name) ==
  /\ dir = NoDir /\ (name = "/" \/ RootFind(name)[1] = "dir")
  /\ dir' = [NoDir EXCEPT !.of = name]
  /\ UNCHANGED <<fat, data, root, opened, writes>>
Listing(of) == IF of = "/" THEN root ELSE Cells(RootFind(of))
ReadDir ==
  LET s == Listing(dir.of)
      rest == {i \in dir.pos + 1 .. Len(s) : s[i][1] # "lfn"} IN
  /\ dir # NoDir
  /\ dir' = IF rest = {} \/ s[Min(rest)] = Avail THEN NoDir
            ELSE [dir EXCEPT !.pos = Min(rest)]
  /\ UNCHANGED <<fat, data, root, opened, writes>>
(* fat_seek_dir keeps the remainder of the position instead of the record  *)
(* it falls in: it always goes back to the first entry.                    *)
SeekDir(pos) ==
  /\ dir # NoDir /\ pos < Len(Listing(dir.of))
  /\ dir' = [dir EXCEPT !.pos = 0]
  /\ UNCHANGED <<fat, data, root, opened, writes>>
-----------------------------------------------------------------------------
(* A mounted volume: file F of three units in the root, with a long name's *)
(* entry before it, and directory D with file G of two units.              *)
Image(d, f1, f2, g) ==
  /\ fat = [c \in 0 .. N + 1 |->
              IF c < 2 THEN EndMark ELSE IF c = f1 THEN f2
              ELSE IF c \in {d, f2, g} THEN EndMark ELSE 0]
  /\ root = <<Entry("lfn", "F", 0, 0), Entry("file", "F", f1, W + 1),
              Entry("dir", "D", d, 0), Avail>>
  /\ data = [c \in Clusters |->
              IF c = d THEN [i \in 1 .. W |-> IF i = 1 THEN Entry("file", "G", g, W)
                                              ELSE Avail]
              ELSE [i \in 1 .. W |-> Unit(IF c = g THEN "G" ELSE "F",
                                          IF c = f2 THEN W + i - 1 ELSE i - 1)]]
Init ==
  /\ \E i \in Images : Image(i[1], i[2], i[3], i[4])
  /\ opened = [h \in Handles |-> NoEntry]
  /\ dir = NoDir
  /\ writes = 0

Next ==
  \/ \E path \in {<<"F">>, <<"D", "G">>, <<"D", "H">>} : FileOpen(path)
  \/ \E h \in Handles :
       FileClose(h) \/ \E k, l \in 0 .. 2 : l > 0 /\ FileWrite(h, k * W, l * W)
  \/ \E name \in {"G", "H"} : FileCreat("D", name) \/ FileUnlink("D", name)
  \/ OpenDir("/") \/ OpenDir("D") \/ ReadDir
  \/ \E pos \in 0 .. W : SeekDir(pos)

Spec == Init /\ [][Next]_vars
-----------------------------------------------------------------------------
Files == {e \in {Find(p) : p \in {<<"F">>, <<"D", "G">>, <<"D", "H">>}} : e # NoEntry}
Held == (Files \cup {opened[h] : h \in Handles}) \ {NoEntry}

TypeOK ==
  /\ fat \in [0 .. N + 1 -> 0 .. N + 1 \cup {EndMark}]
  /\ DOMAIN data = Clusters /\ \A c \in Clusters : Len(data[c]) = W
  /\ DOMAIN opened = Handles

(* A file reads as what it was given: every unit inside its size is there, *)
(* in its place, whatever else is written, created or unlinked.            *)
FilesKeepData ==
  \A e \in Held : FileRead(e, 0, FileSize(e)) =
                    [i \in 1 .. e[4] |-> Unit(e[2], i - 1)]

(* Every chain ends, its clusters are taken, and different files have      *)
(* different clusters; the directory's are nobody's.                       *)
ChainsApart ==
  LET owners == Held \cup {RootFind("D")} IN
  \A e \in owners :
    LET chain == Chain(fat, First(e)) IN
    /\ IsInjective(chain) /\ \A i \in 1 .. Len(chain) : fat[chain[i]] # 0
    /\ chain # <<>> => fat[Last(chain)] = EndMark
    /\ \A other \in owners : First(other) # First(e) =>
         ToSet(chain) \cap ToSet(Chain(fat, First(other))) = {}
=============================================================================
