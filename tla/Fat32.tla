-------------------------------- MODULE Fat32 --------------------------------
(***************************************************************************)
(* The FAT32 driver of src/src/fat32.c: the cluster disk, the cached FAT   *)
(* (driver_state.fat_table), the directory buffer (dir_table_buf) and the  *)
(* one call that can be in progress.                                       *)
(*                                                                         *)
(* A call runs in the kernel with interrupts off, on the only processor:   *)
(* nothing interleaves with it but a loss of power.  What a step of a call *)
(* leaves on the disk is therefore what matters.  Each cluster that a call *)
(* writes is one step; the memory-only code between two writes belongs to  *)
(* the step before the second one.  "queue" holds the clusters the call    *)
(* still has to write, in program order, once their contents are decided.  *)
(*                                                                         *)
(* pc: off      the machine has no power                                   *)
(*     format   create_fat32 has clusters to write                         *)
(*     idle     no call in progress                                        *)
(*     alloc    write, in the loop that places the data of a file          *)
(*     walk     delete, in the loop that frees a chain                     *)
(*     flush    write or delete, in the final write_clusters calls         *)
(*     chain    read, in the loop that follows a chain                     *)
(*     return   the return code is decided and not yet collected           *)
(***************************************************************************)
EXTENDS Fat32Layout, Sequences

CONSTANTS
  CallerNames,          \* the names in requests
  FolderExts,           \* the ext field of a request for a folder
  FileSizes,            \* buffer sizes of requests for file contents
  ReadSizes,            \* buffer sizes of requests to read a file
  ListingSizes,         \* buffer sizes of requests for a listing
  DeleteSizes,          \* buffer sizes of requests to delete, which are ignored
  CallerOps,            \* the operations that callers use
  PowerFailsAt          \* the values of pc at which power may be lost

Ops == {"write", "read", "delete", "read_directory"}

Phases ==
  {"off", "format", "idle", "alloc", "walk", "flush", "chain", "return"}

ASSUME RequestAssumption ==
  /\ CallerNames \subseteq AnyName
  /\ FolderExts \subseteq AnyExt
  /\ FileSizes \subseteq Nat \ {0}
  /\ ReadSizes \subseteq Nat /\ ListingSizes \subseteq Nat
  /\ DeleteSizes \subseteq Nat
  /\ CallerOps \subseteq Ops
  /\ PowerFailsAt \subseteq Phases \ {"off"}

VARIABLES
  disk,     \* the clusters of the disk
  fat,      \* driver_state.fat_table
  table,    \* driver_state.dir_table_buf, while a call uses it
  pc,
  req,      \* the request of the call in progress
  cur,      \* i of the allocation loop, or the cluster number of a chain
  prev,     \* prev_cluster_number of the allocation loop
  first,    \* fatIndex: the first cluster of the new file
  counter,  \* the part of the file the loop is at, from 1
  left,     \* total_bytes, or bytes_left_to_read
  got,      \* the clusters that read has put into the caller's buffer
  queue,    \* writes outstanding, << [cluster, cell], ... >>
  code,     \* the return code
  known     \* the directories callers have found since power-on

locals == <<cur, prev, first, counter, left, got>>
vars == <<disk, fat, table, pc, req, locals, queue, code, known>>

-----------------------------------------------------------------------------
(* Requests.  A parent cluster comes from a directory the caller has read. *)

FAT32DriverRequest ==
  [op : Ops, name : AnyName, ext : AnyExt,
   parent_cluster_number : Clusters, buffer_size : Nat]

NoRequest == [op |-> "read", name |-> NoName, ext |-> NoExt,
              parent_cluster_number |-> 0, buffer_size |-> 0]

Request(op, names, exts, sizes) ==
  [op : {op} \cap CallerOps, name : names, ext : exts,
   parent_cluster_number : known, buffer_size : sizes]

FileExts == Exts \cup {NoExt}

FolderRequests  == Request("write", CallerNames, FolderExts, {0})
FileRequests    == Request("write", CallerNames, FileExts, FileSizes)
ReadRequests    == Request("read", CallerNames, FileExts, ReadSizes)
DeleteRequests  == Request("delete", CallerNames, FileExts, DeleteSizes)
ListingRequests == Request("read_directory", CallerNames \cup {RootName},
                           {NoExt}, ListingSizes)

Parent(r) == AsTable(ReadCluster(disk, r.parent_cluster_number))

Item(c, cell) == [cluster |-> c, cell |-> cell]
Items == [cluster : Clusters, cell : Cells]

-----------------------------------------------------------------------------
(* Power-on. *)

Init ==
  /\ disk = [c \in Clusters |-> Blank]
  /\ fat = ZeroMap
  /\ table = ZeroTable
  /\ pc = "off"
  /\ req = NoRequest
  /\ cur = 0 /\ prev = 0 /\ first = 0 /\ counter = 1 /\ left = 0 /\ got = <<>>
  /\ queue = <<>>
  /\ code = 0
  /\ known = {ROOT_CLUSTER_NUMBER}

is_empty_storage == disk[BOOT_SECTOR] # Signature

RootTable == InitDirectoryTable(RootName, ROOT_CLUSTER_NUMBER)

\* initialize_filesystem_fat32 of an empty storage, up to the first write of
\* create_fat32.  The FAT is not loaded.
CreateFat32 ==
  /\ pc = "off"
  /\ is_empty_storage
  /\ pc' = "format"
  /\ queue' = << Item(BOOT_SECTOR, Signature),
                 Item(ROOT_CLUSTER_NUMBER, DirCell(RootTable)),
                 Item(FAT_CLUSTER_NUMBER, FatCell(FormattedMap)) >>
  /\ UNCHANGED <<disk, fat, table, req, locals, code, known>>

\* A mutation: the FAT is not read at power-on.
LoadFatSkipped ==
  /\ pc = "off"
  /\ ~is_empty_storage
  /\ pc' = "idle"
  /\ UNCHANGED <<disk, fat, table, req, locals, queue, code, known>>

\* initialize_filesystem_fat32 of a storage with the signature.
LoadFat ==
  /\ pc = "off"
  /\ ~is_empty_storage
  /\ fat' = AsFat(disk[FAT_CLUSTER_NUMBER])
  /\ pc' = "idle"
  /\ UNCHANGED <<disk, table, req, locals, queue, code, known>>

-----------------------------------------------------------------------------
(* The beginning of a call, and its end. *)

Answer(r, c) ==
  /\ pc = "idle"
  /\ req' = r
  /\ table' = Parent(r)
  /\ code' = c
  /\ pc' = "return"
  /\ UNCHANGED <<disk, fat, locals, queue, known>>

\* The directories that the caller finds in the table it was given.
Subdirectories(t) ==
  {c \in Clusters : \E s \in Slots : /\ t[s].attribute = ATTR_SUBDIRECTORY
                                     /\ t[s].cluster = c}

Return ==
  /\ pc = "return"
  /\ pc' = "idle"
  /\ known' = IF req.op = "read_directory" /\ code = 0
                THEN known \cup Subdirectories(table) ELSE known
  /\ table' = ZeroTable
  /\ req' = NoRequest
  /\ cur' = 0 /\ prev' = 0 /\ first' = 0 /\ counter' = 1 /\ left' = 0
  /\ got' = <<>>
  /\ code' = 0
  /\ UNCHANGED <<disk, fat, queue>>

\* The next write_clusters of the call.
FlushWrite ==
  /\ pc \in {"format", "flush"}
  /\ disk' = WriteCluster(disk, Head(queue).cluster, Head(queue).cell)
  /\ queue' = Tail(queue)
  /\ pc' = IF Len(queue) > 1 THEN pc
           ELSE IF pc = "format" THEN "idle" ELSE "return"
  /\ UNCHANGED <<fat, table, req, locals, code, known>>

-----------------------------------------------------------------------------
(* read_directory *)

ReadDirectory(r) ==
  Answer(r, IF r.buffer_size # ClusterSize THEN -1
            ELSE IF \E s \in Slots : /\ Parent(r)[s].name = r.name
                                     /\ Parent(r)[s].attribute
                                          = ATTR_SUBDIRECTORY
                   THEN 0 ELSE 2)

-----------------------------------------------------------------------------
(* read *)

\* s is the first entry with the name and extension of the request.
IsFirstNamed(t, r, s) ==
  /\ s \in Slots /\ t[s].name = r.name /\ t[s].ext = r.ext
  /\ \A q \in Slots : q < s => ~(t[q].name = r.name /\ t[q].ext = r.ext)

ReadNotFound(r) ==
  /\ ~Duplicate(Parent(r), r)
  /\ Answer(r, 3)

\* A folder, a buffer that is too small, or a file without contents.
ReadNothing(r) ==
  \E s \in Slots :
    /\ IsFirstNamed(Parent(r), r, s)
    /\ LET e == Parent(r)[s] IN
         \/ e.attribute = ATTR_SUBDIRECTORY /\ Answer(r, 1)
         \/ /\ e.attribute # ATTR_SUBDIRECTORY
            /\ r.buffer_size < e.filesize
            /\ Answer(r, 2)
         \/ /\ e.attribute # ATTR_SUBDIRECTORY
            /\ e.filesize = 0
            /\ Answer(r, 0)

ReadFile(r) ==
  /\ pc = "idle"
  /\ \E s \in Slots :
       /\ IsFirstNamed(Parent(r), r, s)
       /\ Parent(r)[s].attribute # ATTR_SUBDIRECTORY
       /\ Parent(r)[s].filesize > 0
       /\ r.buffer_size >= Parent(r)[s].filesize
       /\ cur' = Parent(r)[s].cluster
       /\ left' = Parent(r)[s].filesize
  /\ req' = r
  /\ table' = Parent(r)
  /\ pc' = "chain"
  /\ UNCHANGED <<disk, fat, prev, first, counter, got, queue, code, known>>

\* A mutation: the loop makes one turn more for what is left after a whole
\* number of clusters.
FollowChainOneMore ==
  /\ pc = "chain"
  /\ got' = Append(got, ReadCluster(disk, cur))
  /\ left' = left - ClusterSize
  /\ cur' = Link(fat, cur)
  /\ pc' = IF left >= ClusterSize THEN "chain" ELSE "return"
  /\ UNCHANGED <<disk, fat, table, req, prev, first, counter, queue, code,
                 known>>

\* One turn of the loop: a cluster is read, and the link to the next one is
\* taken from the cached FAT.
FollowChain ==
  /\ pc = "chain"
  /\ got' = Append(got, ReadCluster(disk, cur))
  /\ left' = left - ClusterSize
  /\ cur' = Link(fat, cur)
  /\ pc' = IF left > ClusterSize THEN "chain" ELSE "return"
  /\ UNCHANGED <<disk, fat, table, req, prev, first, counter, queue, code,
                 known>>

-----------------------------------------------------------------------------
(* write *)

WriteRefused(r) ==
  \/ /\ Parent(r)[0].attribute # ATTR_SUBDIRECTORY
     /\ Answer(r, 2)
  \/ /\ Parent(r)[0].attribute = ATTR_SUBDIRECTORY
     /\ Duplicate(Parent(r), r)
     /\ Answer(r, 1)

\* The checks passed: the FAT is read again and the parent is marked.
WriteAccepted(r) ==
  /\ pc = "idle"
  /\ Parent(r)[0].attribute = ATTR_SUBDIRECTORY
  /\ ~Duplicate(Parent(r), r)
  /\ req' = r

\* A mutation: the cached FAT is used as it is.
WriteFileCached(r) ==
  /\ WriteAccepted(r)
  /\ table' = MarkNotEmpty(Parent(r), r.parent_cluster_number)
  /\ cur' = 3
  /\ left' = r.buffer_size
  /\ pc' = "alloc"
  /\ UNCHANGED <<disk, fat, prev, first, counter, got, queue, code, known>>

\* buffer_size # 0: the data of a file is placed first.
WriteFile(r) ==
  /\ WriteAccepted(r)
  /\ fat' = AsFat(disk[FAT_CLUSTER_NUMBER])
  /\ table' = MarkNotEmpty(Parent(r), r.parent_cluster_number)
  /\ cur' = 3
  /\ left' = r.buffer_size
  /\ pc' = "alloc"
  /\ UNCHANGED <<disk, prev, first, counter, got, queue, code, known>>

\* A mutation: the directory before the FAT.
SaveOrderDirectoryFirst(p, m, t) ==
  << Item(p, DirCell(t)), Item(FAT_CLUSTER_NUMBER, FatCell(m)) >>

\* The FAT, then the directory: the order of the two writes.
SaveOrder(p, m, t) ==
  << Item(FAT_CLUSTER_NUMBER, FatCell(m)), Item(p, DirCell(t)) >>

\* The entry of the file goes into the table, and both go to the disk.
SaveFile(m, start, filesize) ==
  /\ fat' = m
  /\ table' = StoreEntry(table, FileEntry(req, start, filesize))
  /\ queue' = SaveOrder(req.parent_cluster_number, m, table')
  /\ pc' = "flush"

\* The link to the newly placed cluster, from the second one on.
Chained(i) == IF counter >= 2 THEN SetLink(fat, prev, i) ELSE fat

PlaceData(i) ==
  /\ pc = "alloc"
  /\ IsFirstFree(fat, cur, i)
  /\ disk' = WriteCluster(disk, i, DataCell(req.name, req.ext, counter))
  /\ left' = left - ClusterSize
  /\ first' = IF counter >= 2 THEN first ELSE i

AllocateCluster(i) ==
  /\ PlaceData(i)
  /\ left > ClusterSize
  /\ fat' = Chained(i)
  /\ prev' = i
  /\ cur' = i + 1
  /\ counter' = counter + 1
  /\ UNCHANGED <<table, pc, req, got, queue, code, known>>

\* The last cluster: the end-of-file mark goes to its predecessor.
AllocateLastCluster(i) ==
  /\ PlaceData(i)
  /\ left <= ClusterSize
  /\ SaveFile(SetLink(Chained(i), prev, FAT32_FAT_END_OF_FILE), first',
              req.buffer_size)
  /\ UNCHANGED <<req, cur, prev, counter, got, code, known>>

\* A mutation: the loop starts over until there is room.
DiskFullRetries ==
  /\ pc = "alloc"
  /\ NoneFree(fat, cur)
  /\ cur' = 3
  /\ UNCHANGED <<disk, fat, table, pc, req, prev, first, counter, left, got,
                 queue, code, known>>

\* The loop ran out of clusters: file_size is still zero.
DiskFull ==
  /\ pc = "alloc"
  /\ NoneFree(fat, cur)
  /\ SaveFile(fat, first, 0)
  /\ UNCHANGED <<disk, req, locals, code, known>>

\* buffer_size = 0: a folder.  The search for a free cluster starts at 0, and
\* index stays 0 when there is none.
WriteFolder(r, index) ==
  /\ WriteAccepted(r)
  /\ LET m == AsFat(disk[FAT_CLUSTER_NUMBER])
         p == r.parent_cluster_number IN
       /\ IsFirstFree(m, 0, index) \/ (NoneFree(m, 0) /\ index = 0)
       /\ fat' = SetLink(m, index, FAT32_FAT_END_OF_FILE)
       /\ table' = StoreEntry(MarkNotEmpty(Parent(r), p), FolderEntry(r, index))
       /\ queue' = Append(SaveOrder(p, fat', table'),
                          Item(index, DirCell(InitDirectoryTable(r.name, p))))
  /\ pc' = "flush"
  /\ UNCHANGED <<disk, locals, code, known>>

-----------------------------------------------------------------------------
(* delete *)

\* Entry s is one that delete stops at.
Deletable(t, r, s) ==
  /\ s \in Slots \ {0}
  /\ t[s].name = r.name /\ t[s].ext = r.ext /\ t[s].undelete = 1

IsFirstDeletable(t, r, s) ==
  /\ Deletable(t, r, s)
  /\ \A q \in Slots : q < s => ~Deletable(t, r, q)

IsNotEmptyFolder(e) ==
  e.attribute = ATTR_SUBDIRECTORY /\ e.user_attribute = UATTR_NOT_EMPTY

DeleteRefused(r) ==
  \/ /\ Parent(r)[0].attribute # ATTR_SUBDIRECTORY
     /\ Answer(r, -1)
  \/ /\ Parent(r)[0].attribute = ATTR_SUBDIRECTORY
     /\ \A s \in Slots : ~Deletable(Parent(r), r, s)
     /\ Answer(r, 1)
  \/ /\ Parent(r)[0].attribute = ATTR_SUBDIRECTORY
     /\ \E s \in Slots : /\ IsFirstDeletable(Parent(r), r, s)
                         /\ IsNotEmptyFolder(Parent(r)[s])
     /\ Answer(r, 2)

Delete(r) ==
  /\ pc = "idle"
  /\ Parent(r)[0].attribute = ATTR_SUBDIRECTORY
  /\ \E s \in Slots :
       /\ IsFirstDeletable(Parent(r), r, s)
       /\ ~IsNotEmptyFolder(Parent(r)[s])
       /\ cur' = Parent(r)[s].cluster
       /\ table' = [q \in Slots |-> IF q = s THEN ZeroEntry ELSE Parent(r)[q]]
  /\ fat' = AsFat(disk[FAT_CLUSTER_NUMBER])
  /\ req' = r
  /\ pc' = "walk"
  /\ UNCHANGED <<disk, prev, first, counter, left, got, queue, code, known>>

\* A cluster of the chain is overwritten with zeros and freed.
WalkChain ==
  /\ pc = "walk"
  /\ Link(fat, cur) # FAT32_FAT_END_OF_FILE
  /\ disk' = WriteCluster(disk, cur, Blank)
  /\ cur' = Link(fat, cur)
  /\ fat' = SetLink(fat, cur, 0)
  /\ UNCHANGED <<table, pc, req, prev, first, counter, left, got, queue, code,
                 known>>

\* The chain ends here: this cluster is freed, and both tables are saved.
EndOfChain ==
  /\ pc = "walk"
  /\ Link(fat, cur) = FAT32_FAT_END_OF_FILE
  /\ fat' = SetLink(fat, cur, 0)
  /\ queue' = SaveOrder(req.parent_cluster_number, fat', table)
  /\ pc' = "flush"
  /\ UNCHANGED <<disk, table, req, locals, code, known>>

-----------------------------------------------------------------------------
(* Loss of power: memory is gone, and the write under way may have reached *)
(* only the first blocks of its cluster.                                   *)

InterruptedWrite ==
  IF queue = <<>> THEN {disk}
  ELSE {disk} \cup {WriteCluster(disk, Head(queue).cluster,
                                 Torn(disk[Head(queue).cluster],
                                      Head(queue).cell, k))
                      : k \in 1 .. (Blocks - 1)}

PowerLoss ==
  /\ pc \in PowerFailsAt
  /\ disk' \in InterruptedWrite
  /\ fat' = ZeroMap
  /\ table' = ZeroTable
  /\ pc' = "off"
  /\ req' = NoRequest
  /\ cur' = 0 /\ prev' = 0 /\ first' = 0 /\ counter' = 1 /\ left' = 0
  /\ got' = <<>>
  /\ queue' = <<>>
  /\ code' = 0
  /\ known' = {ROOT_CLUSTER_NUMBER}

-----------------------------------------------------------------------------
(* The specification.  The kernel runs its own steps to the end; callers   *)
(* and power losses come as they please.                                   *)

Call ==
  \/ \E r \in ListingRequests : ReadDirectory(r)
  \/ \E r \in ReadRequests : ReadNotFound(r) \/ ReadNothing(r) \/ ReadFile(r)
  \/ \E r \in FolderRequests \cup FileRequests : WriteRefused(r)
  \/ \E r \in FileRequests : WriteFile(r)
  \/ \E r \in FolderRequests, index \in Clusters : WriteFolder(r, index)
  \/ \E r \in DeleteRequests : DeleteRefused(r) \/ Delete(r)

Kernel ==
  \/ CreateFat32
  \/ LoadFat
  \/ FollowChain
  \/ \E i \in Clusters : AllocateCluster(i) \/ AllocateLastCluster(i)
  \/ DiskFull
  \/ WalkChain
  \/ EndOfChain
  \/ FlushWrite
  \/ Return

Next == Call \/ Kernel \/ PowerLoss

Spec == Init /\ [][Next]_vars
FairSpec == Spec /\ WF_vars(Kernel)

-----------------------------------------------------------------------------
(* Properties that hold. *)

\* Every variable has its type, and a call has what its loop needs.
TypeOK ==
  /\ disk \in [Clusters -> Cells]
  /\ fat \in FatMaps
  /\ table \in FAT32DirectoryTable
  /\ pc \in Phases
  /\ req \in FAT32DriverRequest
  /\ cur \in Int /\ prev \in Clusters /\ first \in Clusters
  /\ counter \in Nat /\ left \in Int
  /\ got \in Seq(Cells \cup {Junk})
  /\ queue \in Seq(Items)
  /\ code \in -1 .. 3
  /\ known \subseteq Clusters

IsFat(cell) ==
  /\ cell.kind = "fat"
  /\ cell.map[FAT_CLUSTER_NUMBER] # 0
  /\ cell.map[ROOT_CLUSTER_NUMBER] # 0

IsRootTable(t) ==
  /\ t[0].name = RootName
  /\ t[0].attribute = ATTR_SUBDIRECTORY
  /\ t[0].cluster = ROOT_CLUSTER_NUMBER

IsRoot(cell) ==
  /\ cell.kind = "dir"
  /\ IsRootTable(cell.entries)

\* No sequence of calls and power losses lets the driver write file data, a
\* folder or zeros over the FAT or over the root directory, or hand out
\* either cluster: once formatted, cluster 1 holds a FAT that has both
\* clusters taken, and cluster 2 the root directory.  (It is the loops of
\* write at fat32.c:172 and 226 and of delete at fat32.c:297 that could.)
ReservedClustersIntact ==
  /\ disk[FAT_CLUSTER_NUMBER] = Blank \/ IsFat(disk[FAT_CLUSTER_NUMBER])
  /\ disk[ROOT_CLUSTER_NUMBER] = Blank \/ IsRoot(disk[ROOT_CLUSTER_NUMBER])
  /\ pc # "format" /\ disk[BOOT_SECTOR] = Signature
       => IsFat(disk[FAT_CLUSTER_NUMBER]) /\ IsRoot(disk[ROOT_CLUSTER_NUMBER])

\* read follows a chain through the FAT it has in memory, never reading it
\* from the disk (fat32.c:130): whenever it does, the two are the same,
\* although create_fat32 leaves the cached one empty.
ChainWalksUseCurrentFat ==
  pc = "chain" => fat = AsFat(disk[FAT_CLUSTER_NUMBER])

\* A directory table on the disk never has two entries of the same name and
\* extension, as long as requests for folders leave ext empty and clusters are
\* written whole: the scan of fat32.c:147-157 sees the whole table, holes left
\* by delete included, and a stale directory cluster does not defeat it.  (Half
\* of the table of a new directory over a stale one may: entry 0 then has the
\* name of a stale entry.)
NamesUnique ==
  \A c \in Clusters : disk[c].kind = "dir" =>
    LET t == disk[c].entries IN
      \A s, q \in Slots : s # q /\ t[s].name # NoName =>
        t[s].name # t[q].name \/ t[s].ext # t[q].ext

\* mkdir makes entry s of cluster c the entry of a folder.
FolderAppears(c, s) ==
  /\ req.op = "write" /\ req.buffer_size = 0
  /\ disk'[c].kind = "dir"
  /\ disk'[c].entries[s].attribute = ATTR_SUBDIRECTORY
  /\ ~ /\ disk[c].kind = "dir"
       /\ disk[c].entries[s].attribute = ATTR_SUBDIRECTORY
       /\ disk[c].entries[s].cluster = disk'[c].entries[s].cluster

\* mkdir lists a folder on the disk only when the FAT on the disk has its
\* cluster taken: a power loss between the writes of fat32.c:258-260 leaves a
\* cluster that nothing names, never a listed folder whose cluster is free.
FoldersListedAfterAllocation ==
  [][\A c \in Clusters, s \in Slots \ {0} :
       FolderAppears(c, s) =>
         AsFat(disk[FAT_CLUSTER_NUMBER])[disk'[c].entries[s].cluster]
           = FAT32_FAT_END_OF_FILE]_vars

\* Every call but delete comes to its end: the loops of read and of write
\* stop whatever the FAT contains, a full disk included, and so does
\* create_fat32.
CallsReturn ==
  pc \in {"format", "alloc", "flush", "chain", "return"}
    ~> pc \in {"idle", "off"}

-----------------------------------------------------------------------------
(* What a comment of lib-header/fat32.h and the code disagree on: this is    *)
(* violated.                                                               *)

\* fat32.h:30, "EOF also double as valid cluster / this is last valid cluster
\* in the chain", and fat32.h:228, "read a file from file system": what read
\* hands out are the parts of the file that the request names, in order.
ReadReturnsTheFile ==
  pc = "return" /\ req.op = "read" /\ code = 0 =>
    \A k \in DOMAIN got : got[k] = DataCell(req.name, req.ext, k)
=============================================================================
