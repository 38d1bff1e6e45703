------------------------------- MODULE Fat32 -------------------------------
(***************************************************************************)
(* The FAT32 file system of fs/fat32fs.c: the allocation table, the        *)
(* FSInfo counters, the entries of one directory (the root) and the files  *)
(* and directories that they name.  A system call is one step: the disk is *)
(* written through, so a reboot may fall between any two of them.          *)
(*                                                                         *)
(* Names are left out: an entry carries the identity of its file.  The     *)
(* data of a cluster is the set of files whose bytes are in it.  A failed  *)
(* assertion, and a read or a write that leaves its file, end the          *)
(* behaviour in a state that says why (stopped).                           *)
(***************************************************************************)
EXTENDS Integers, Sequences, FiniteSets, FiniteSetsExt, SequencesExt

CONSTANTS
  Ids,          \* identities of files and directories
  ClusterCount, \* fs->clustercount: clusters 2 .. ClusterCount + 1 hold data
  Pad,          \* entries of the last FAT sector that stand for no cluster
  ClusterSize,  \* units of file data in a cluster
  DentsPerCluster,
  NameSlots,    \* entries that the name of each needs, its own one included
  MaxSize,      \* bound: largest size of a file, in units
  MaxRefs,      \* bound: references to one resource
  None

ASSUME SizesAssumption ==
  /\ {ClusterCount, ClusterSize, DentsPerCluster, MaxRefs} \subseteq Nat \ {0}
  /\ {Pad, MaxSize} \subseteq Nat
  /\ NameSlots \in [Ids -> Nat \ {0, 1}]

VARIABLES
  fs,        \* [fat, free, startat]: the table on disk and fs->fsinfo in memory
  fsinfo,    \* [free, startat] as last written to the FSInfo sector
  recounted, \* the disk came without counters: mount counted the free entries
  slots,     \* the 32-byte entries of the root directory
  node,      \* the resource of each file, or None
  data,      \* the files whose bytes are in each cluster
  stopped    \* "no", or what ended the behaviour

vars == <<fs, fsinfo, recounted, slots, node, data, stopped>>

RootCluster == 2
Real == 2 .. ClusterCount + 1
Entries == 2 .. ClusterCount + 1 + Pad
FINALCLUSTER == ClusterCount + Pad + 2
Ceil(a, b) == (a + b - 1) \div b

----------------------------------------------------------------------------
(* Cluster chains. *)

\* fat32fs_skip: n links from c, or fewer when the chain ends before.
Skip(fat, c, n) ==
  LET at[i \in 0 .. n] == IF i = 0 THEN c
                          ELSE IF fat[at[i - 1]] = FINALCLUSTER THEN at[i - 1]
                          ELSE fat[at[i - 1]]
  IN at[n]

Chain(fat, c) ==
  IF c = 0 THEN {} ELSE {Skip(fat, c, n) : n \in 0 .. Cardinality(Real)}

ChainSize(fat, c) == Cardinality(Chain(fat, c))

\* Mutant of FreeClusters: only the first cluster of the chain.
FreeFirst(f, c) ==
  [fat |-> [f.fat EXCEPT ![c] = 0], free |-> f.free + 1,
   startat |-> Min({c, f.startat})]

\* Mutant of FreeClusters: startat is not lowered.
FreeKeepsHint(f, c) ==
  LET gone == Chain(f.fat, c)
  IN [fat     |-> [e \in Entries |-> IF e \in gone THEN 0 ELSE f.fat[e]],
      free    |-> f.free + Cardinality(gone),
      startat |-> f.startat]

FreeClusters(f, c) ==
  LET gone == Chain(f.fat, c)
  IN [fat     |-> [e \in Entries |-> IF e \in gone THEN 0 ELSE f.fat[e]],
      free    |-> f.free + Cardinality(gone),
      startat |-> Min(gone \cup {f.startat})]

\* What fat32fs_allocateclusters walks over, from startat upwards; nextfree does
\* not wrap around, and does not stop at the end of the table.
Available(f) == {e \in Entries : e >= f.startat /\ f.fat[e] = 0}

AllocateClusters(f, n) ==
  LET picked == {e \in Available(f) :
                   Cardinality({d \in Available(f) : d < e}) < n}
      Link(e) == IF e = Max(picked) THEN FINALCLUSTER
                 ELSE Min({d \in picked : d > e})
  IN IF n > f.free THEN [status |-> "nospace"]
     ELSE IF Cardinality(picked) < n \/ ~ picked \subseteq Real
     THEN [status |-> "runoff"]
     ELSE [status |-> "ok", start |-> Min(picked), fresh |-> picked,
           fs |-> [fat |-> [e \in Entries |-> IF e \in picked THEN Link(e)
                                              ELSE f.fat[e]],
                   free |-> f.free - n, startat |-> Max(picked)]]

Resize(f, c, oldsize, newsize) ==
  LET grown == AllocateClusters(f, newsize - oldsize)
      last  == Skip(f.fat, c, Cardinality(Real))
      kept  == Skip(f.fat, c, newsize - 1)
      Same(g) == [status |-> "ok", start |-> c, fresh |-> {}, fs |-> g]
  IN IF newsize = oldsize THEN Same(f)
     ELSE IF c = 0 THEN AllocateClusters(f, newsize)
     ELSE IF newsize = 0 THEN [Same(FreeClusters(f, c)) EXCEPT !.start = 0]
     ELSE IF newsize > oldsize
     THEN IF f.fat[last] # FINALCLUSTER THEN [status |-> "chain"]
          ELSE IF grown.status # "ok" THEN grown
          ELSE [grown EXCEPT !.start = c, !.fs.fat[last] = grown.start]
     ELSE IF ChainSize(f.fat, c) < newsize THEN [status |-> "chain"]
     ELSE Same([FreeClusters(f, f.fat[kept]) EXCEPT !.fat[kept] = FINALCLUSTER])

----------------------------------------------------------------------------
(* The entries of the directory.  The attribute outlives the entry: deleting *)
(* one only changes its first byte.                                          *)

Slot(mark, attr, id, cluster, size) ==
  [mark |-> mark, attr |-> attr, id |-> id, cluster |-> cluster, size |-> size]
Vacant == Slot("end", "file", None, 0, 0)

EndSlots == {p \in DOMAIN slots : slots[p].mark = "end"}

\* insertdent: where the scan for `need' entries stops, and where the entry goes.
Unused(p) == slots[p].mark = "free"
Enough(p, need) == p >= need /\ \A q \in p - need + 1 .. p : Unused(q)
Stops(need) == {p \in DOMAIN slots : p \in EndSlots \/ Enough(p, need)}
FoundBefore(p) ==
  Max({k \in 0 .. p - 1 : \A q \in p - k .. p - 1 : Unused(q)})
Place(need) ==
  LET p == Min(Stops(need))
  IN IF p \in EndSlots THEN p + need - FoundBefore(p) - 1 ELSE p

\* The entry and the long-name entries in front of it; an entry that moves the
\* end of the directory is written after the new end.
Inserted(s, need, dent) ==
  LET p == Min(Stops(need))
      pos == Place(need)
  IN [q \in DOMAIN s |-> IF q = pos THEN dent
                         ELSE IF q \in pos - need + 1 .. pos - 1
                         THEN Slot("used", "lfn", dent.id, 0, 0)
                         ELSE IF p \in EndSlots /\ q = pos + 1 THEN s[p]
                         ELSE s[q]]

\* The entries a directory has once the chain of the root is `f.fat'.
Padded(f) ==
  slots \o [k \in 1 .. ChainSize(f.fat, RootCluster) * DentsPerCluster - Len(slots)
              |-> Vacant]

\* Mutant of Removed: the entry always becomes the end of the directory.
RemovedAsLast(pos) ==
  [slots EXCEPT ![pos].mark = "end", ![pos].id = None, ![pos].cluster = 0,
                ![pos].size = 0]

\* fat32fs_resunref: the byte that the freed entries get, and the long-name
\* entries that are walked back over.
Removed(pos) ==
  LET last == pos + 1 \notin DOMAIN slots \/ pos + 1 \in EndSlots
      Walked(q) == q < pos /\ \A r \in q .. pos - 1 : slots[r].attr = "lfn"
      Freed(s) == Slot(IF last THEN "end" ELSE "free", s.attr, None, 0, 0)
  IN [q \in DOMAIN slots |-> IF q = pos \/ Walked(q) THEN Freed(slots[q])
                             ELSE slots[q]]

----------------------------------------------------------------------------
(* Reading and writing: fat32fs_rwbytes over the chain from c. *)

FirstPart(off, cnt) == IF off % ClusterSize = 0 THEN 0
                  ELSE IF cnt > ClusterSize THEN ClusterSize - (off % ClusterSize)
                  ELSE cnt

\* The clusters read or written whole by fat32fs_rwclusters.
Whole(fat, c, off, cnt) ==
  LET first == off \div ClusterSize + (IF off % ClusterSize = 0 THEN 0 ELSE 1)
  IN {Skip(fat, c, k) :
        k \in first .. first + (cnt - FirstPart(off, cnt)) \div ClusterSize - 1}

Touched(fat, c, off, cnt) ==
  {Skip(fat, c, k) : k \in off \div ClusterSize .. (off + cnt - 1) \div ClusterSize}

\* The first part is not cut at the end of its cluster unless it is longer than one.
Spills(off, cnt) == (off % ClusterSize) + FirstPart(off, cnt) > ClusterSize

RwStatus(fat, c, off, cnt) ==
  IF ChainSize(fat, c) <= off \div ClusterSize THEN "chain"
  ELSE IF Whole(fat, c, off, cnt) \cap {e \in Real : e >= ClusterCount} # {}
  THEN "limit"
  ELSE "no"

\* The clusters that give or receive the bytes; a spill goes on into the next cluster
\* of the disk, whoever owns it, and not into the next one of the file.
Target(fat, c, off, cnt) ==
  LET first == Skip(fat, c, off \div ClusterSize)
  IN IF Spills(off, cnt) THEN {first, first + 1} ELSE Touched(fat, c, off, cnt)

----------------------------------------------------------------------------
Live == {i \in Ids : node[i] # None}
File(i) == i \in Live /\ node[i].kind = "file"
Opened(i) == i \in Live /\ node[i].refs > (IF node[i].linked THEN 1 ELSE 0)
Running == stopped = "no"

Counters(f) == [free |-> f.free, startat |-> f.startat]

\* fat32fs_updatefsinfo on a disk whose counters are not known.
Recount(fat) ==
  LET zero == {e \in Entries : fat[e] = 0}
  IN [fat |-> fat, free |-> Cardinality(zero), startat |-> Min(zero)]

\* A disk as mkfs leaves it, with or without the counters, just mounted.
Init ==
  LET fat == [e \in Entries |-> IF e = RootCluster THEN FINALCLUSTER ELSE 0]
  IN /\ recounted \in BOOLEAN
     /\ fs = IF recounted THEN Recount(fat)
             ELSE [fat |-> fat, free |-> ClusterCount - 1, startat |-> RootCluster]
     /\ fsinfo = Counters(fs)
     /\ slots = [p \in 1 .. DentsPerCluster |-> Vacant]
     /\ node = [i \in Ids |-> None]
     /\ data = [c \in Real |-> {}]
     /\ stopped = "no"

Stop(why) ==
  /\ stopped' = why
  /\ UNCHANGED <<fs, fsinfo, recounted, slots, node, data>>

\* Mutant of Zero: a new cluster keeps what it held.
ZeroNothing(d, fresh) == d

Zero(d, fresh) == [c \in Real |-> IF c \in fresh THEN {} ELSE d[c]]

\* fat32fs_create: a directory gets its cluster first, the entry may make the
\* root grow, and any failure calls unref on a resource without an entry, whose
\* write at offset -1 fails an assertion of fat32fs_rwbytes.
Create(i, kind) ==
  /\ Running /\ i \notin Live
  /\ LET need == NameSlots[i]
         own == IF kind = "dir" THEN AllocateClusters(fs, 1)
                ELSE [status |-> "ok", start |-> 0, fresh |-> {}, fs |-> fs]
         blocks == Len(slots) \div DentsPerCluster
         last == IF Min(Stops(need)) \in EndSlots THEN Place(need) + 1
                 ELSE Place(need)
         root == Resize(own.fs, RootCluster, blocks,
                        Max({blocks, Ceil(last, DentsPerCluster)}))
         size == IF kind = "dir" THEN ClusterSize ELSE 0
         dent == Slot("used", kind, i, own.start, 0)
     IN IF Stops(need) = {} THEN Stop("overwrite")
        ELSE IF own.status # "ok"
        THEN Stop(IF own.status = "nospace" THEN "create" ELSE own.status)
        ELSE IF root.status # "ok"
        THEN Stop(IF root.status = "nospace" THEN "create" ELSE root.status)
        ELSE /\ fs' = root.fs
             /\ fsinfo' = Counters(root.fs)
             /\ slots' = Inserted(Padded(root.fs), need, dent)
             /\ node' = [node EXCEPT ![i] =
                  [kind |-> kind, cluster |-> own.start, size |-> size,
                   blocks |-> Ceil(size, ClusterSize), refs |-> 1,
                   linked |-> TRUE, pos |-> Place(need)]]
             /\ data' = [c \in Real |-> IF c \in own.fresh THEN {i}
                                        ELSE Zero(data, root.fresh)[c]]
             /\ UNCHANGED <<recounted, stopped>>

\* fd_create_from_resource: opening takes a reference of the resource.
Open(i) ==
  /\ Running /\ i \in Live /\ node[i].linked /\ node[i].refs < MaxRefs
  /\ node' = [node EXCEPT ![i].refs = @ + 1]
  /\ UNCHANGED <<fs, fsinfo, recounted, slots, data, stopped>>

\* fat32fs_resunref: the entry and the clusters go with the last reference.
Unref(i, linked) ==
  /\ IF node[i].refs > 1
     THEN /\ node' = [node EXCEPT ![i].refs = @ - 1, ![i].linked = linked]
          /\ UNCHANGED <<fs, fsinfo, slots>>
     ELSE LET f == IF node[i].cluster = 0 THEN fs
                   ELSE FreeClusters(fs, node[i].cluster)
          IN /\ slots' = Removed(node[i].pos)
             /\ fs' = f
             /\ fsinfo' = Counters(f)
             /\ node' = [node EXCEPT ![i] = None]
  /\ UNCHANGED <<recounted, data, stopped>>

Close(i) == Running /\ Opened(i) /\ Unref(i, node[i].linked)
Unlink(i) == Running /\ i \in Live /\ node[i].linked /\ Unref(i, FALSE)

\* The entry of a resized file, read and written back through the directory.
Redirected(i, start, size) ==
  [slots EXCEPT ![node[i].pos].cluster = start, ![node[i].pos].size = size]

Resized(i, r, size) ==
  /\ fs' = r.fs
  /\ fsinfo' = Counters(r.fs)
  /\ slots' = Redirected(i, r.start, size)
  /\ node' = [node EXCEPT ![i].cluster = r.start, ![i].size = size,
                          ![i].blocks = Ceil(size, ClusterSize)]

\* fat32fs_reswrite.
Write(i, off, cnt) ==
  /\ Running /\ File(i) /\ Opened(i)
  /\ LET size == Max({node[i].size, off + cnt})
         r == IF off + cnt > node[i].size
              THEN Resize(fs, node[i].cluster, node[i].blocks,
                          Ceil(off + cnt, ClusterSize))
              ELSE [status |-> "ok", start |-> node[i].cluster, fresh |-> {},
                    fs |-> fs]
         rw == RwStatus(r.fs.fat, r.start, off, cnt)
         hit == Target(r.fs.fat, r.start, off, cnt)
     IN IF r.status = "nospace" THEN UNCHANGED vars
        ELSE IF r.status # "ok" THEN Stop(r.status)
        ELSE /\ Resized(i, r, size)
             /\ stopped' = IF rw # "no" THEN rw
                           ELSE IF hit # Touched(r.fs.fat, r.start, off, cnt)
                           THEN "spill" ELSE "no"
             /\ data' = [c \in Real |->
                  LET d == Zero(data, r.fresh)[c]
                  IN IF rw # "no" \/ c \notin hit THEN d
                     ELSE IF c \in Whole(r.fs.fat, r.start, off, cnt) THEN {i}
                     ELSE d \cup {i}]
             /\ UNCHANGED recounted

\* fat32fs_resread: the count is cut at the size of the file.  A read that spills
\* gives its caller bytes of a cluster that need not be the file's.
Read(i, off, cnt) ==
  /\ Running /\ File(i) /\ Opened(i) /\ off < node[i].size
  /\ LET n == Min({cnt, node[i].size - off})
         c == node[i].cluster
         rw == RwStatus(fs.fat, c, off, n)
     IN IF rw # "no" THEN Stop(rw)
        ELSE IF Target(fs.fat, c, off, n) # Touched(fs.fat, c, off, n)
        THEN Stop("spill")
        ELSE UNCHANGED vars

\* fat32fs_restruncate.
Truncate(i, length) ==
  /\ Running /\ File(i) /\ Opened(i)
  /\ LET r == Resize(fs, node[i].cluster, node[i].blocks, Ceil(length, ClusterSize))
     IN IF r.status = "nospace" THEN UNCHANGED vars
        ELSE IF r.status # "ok" THEN Stop(r.status)
        ELSE /\ Resized(i, r, length)
             /\ data' = Zero(data, r.fresh)
             /\ UNCHANGED <<recounted, stopped>>

\* fat32fs_populate: the entries before the end of the directory.
Populated(i) ==
  LET end == Min(EndSlots \cup {Len(slots) + 1})
      at  == {p \in 1 .. end - 1 : slots[p].mark = "used" /\ slots[p].attr # "lfn"
                                   /\ slots[p].id = i}
      p   == CHOOSE q \in at : TRUE
      size == IF slots[p].attr = "dir"
              THEN ChainSize(fs.fat, slots[p].cluster) * ClusterSize
              ELSE slots[p].size
  IN IF at = {} THEN None
     ELSE [kind |-> slots[p].attr, cluster |-> slots[p].cluster, size |-> size,
           blocks |-> Ceil(size, ClusterSize), refs |-> 1, linked |-> TRUE,
           pos |-> p]

\* A reboot: fat32fs_mount reads the counters, the root is read whole.
Reboot ==
  /\ Running
  /\ IF Chain(fs.fat, RootCluster) \cap {e \in Real : e >= ClusterCount} # {}
     THEN Stop("limit")
     ELSE /\ node' = [i \in Ids |-> Populated(i)]
          /\ fs' = [fs EXCEPT !.free = fsinfo.free, !.startat = fsinfo.startat]
          /\ UNCHANGED <<fsinfo, recounted, slots, data, stopped>>

Next ==
  \/ \E i \in Ids, kind \in {"file", "dir"} : Create(i, kind)
  \/ \E i \in Ids : Open(i) \/ Close(i) \/ Unlink(i)
  \/ \E i \in Ids, off \in 0 .. MaxSize - 1 : \E cnt \in 1 .. MaxSize - off :
       Write(i, off, cnt) \/ Read(i, off, cnt)
  \/ \E i \in Ids, length \in 0 .. MaxSize : Truncate(i, length)
  \/ Reboot

Spec == Init /\ [][Next]_vars

----------------------------------------------------------------------------
(* Properties *)

Owners == Live \cup {RootCluster}
ClustersOf(o) == IF o = RootCluster THEN Chain(fs.fat, RootCluster)
                 ELSE Chain(fs.fat, node[o].cluster)
BlocksOf(o) == IF o = RootCluster THEN Len(slots) \div DentsPerCluster
               ELSE node[o].blocks

\* The chains of the files, of the directories and of the root have the length
\* their resources say, end, share no cluster, and there is no other cluster in
\* use: nothing that was written, truncated, unlinked while open or found again
\* after a reboot is cross-linked or leaked.  So the assertions on chains ("bad
\* cluster chain", "trying to free cluster chain beyond limit", ! end) never fail.
ChainsExact ==
  /\ stopped # "chain"
  /\ \A o \in Owners : /\ Cardinality(ClustersOf(o)) = BlocksOf(o)
                       /\ ClustersOf(o) \subseteq Real
                       /\ \A c \in ClustersOf(o) : fs.fat[c] # 0
  /\ \A o, p \in Owners : o # p => ClustersOf(o) \cap ClustersOf(p) = {}
  /\ {c \in Entries : fs.fat[c] # 0} = UNION {ClustersOf(o) : o \in Owners}

\* The free count is the number of free clusters, in memory and on disk, and no
\* free cluster lies below startat, from where nextfree only looks upwards: an
\* allocation that passes the check against the count never leaves the table.
\* A count made by mount includes the padding of the last sector of the table.
CountersExact ==
  /\ fs.free = Cardinality({c \in Real : fs.fat[c] = 0})
                 + (IF recounted THEN Pad ELSE 0)
  /\ \A c \in Entries : fs.fat[c] = 0 => c >= fs.startat
  /\ fsinfo = Counters(fs)
  /\ stopped = "runoff" => recounted

\* Every resource finds its entry on the disk with the cluster and the size it has
\* in memory, before the end of the directory, and there is always an end for
\* insertdent to find: a reboot brings back every file as it is.
EntriesAgree ==
  /\ EndSlots # {} /\ stopped # "overwrite"
  /\ \A i \in Live : LET n == node[i] IN
       /\ n.pos < Min(EndSlots)
       /\ slots[n.pos] = Slot("used", n.kind, i, n.cluster,
                              IF n.kind = "dir" THEN 0 ELSE n.size)
       /\ slots[n.pos - 1] = Slot("used", "lfn", i, 0, 0)

\* A cluster of a file holds no bytes of another file, and so a read gives only the
\* file's own, except by the read or the write that spilled: clusters are zeroed
\* when they are allocated.
NoForeignData ==
  stopped # "spill" =>
    \A i \in Live : \A c \in ClustersOf(i) : data[c] \subseteq {i}
=============================================================================
