----------------------------- MODULE Fat32Proofs -----------------------------
(***************************************************************************)
(* Theorems about Fat32, for every disk size, table size and set of names, *)
(* and for any number of calls and power losses.                           *)
(***************************************************************************)
EXTENDS Fat32, SequenceTheorems, WellFoundedInduction, TLAPS

-----------------------------------------------------------------------------
(***************************************************************************)
(* Lemmas about the operators of Fat32Layout: their types, and that they   *)
(* keep links and entries away from the two clusters that no file may use. *)
(***************************************************************************)

\* The first clusters exist, and the link values are integers outside them.
LEMMA ClusterFacts ==
  /\ 0 \in Clusters /\ 1 \in Clusters /\ 2 \in Clusters
  /\ Clusters \subseteq Nat
  /\ Links \subseteq Int
  /\ 0 \in Slots /\ Slots \subseteq Nat
BY LayoutAssumption
   DEF Clusters, Links, Slots, FAT32_FAT_END_OF_FILE, CLUSTER_0_VALUE

LEMMA ZeroMapType == ZeroMap \in FatMaps
BY ClusterFacts DEF ZeroMap, FatMaps, Links

LEMMA FormattedMapType == FormattedMap \in FatMaps
BY ClusterFacts DEF FormattedMap, FatMaps, Links, CLUSTER_1_VALUE

LEMMA LinkType ==
  ASSUME NEW m \in FatMaps, NEW c
  PROVE  Link(m, c) \in Links
BY ClusterFacts DEF Link, FatMaps, Links

LEMMA SetLinkType ==
  ASSUME NEW m \in FatMaps, NEW c, NEW v \in Links
  PROVE  SetLink(m, c, v) \in FatMaps
BY DEF SetLink, FatMaps

LEMMA EntryTypes ==
  /\ ZeroEntry \in FAT32DirectoryEntry
  /\ [ZeroEntry EXCEPT !.name = JunkName] \in FAT32DirectoryEntry
BY ClusterFacts DEF ZeroEntry, FAT32DirectoryEntry, AnyName, AnyExt

LEMMA EntryNumbers ==
  ASSUME NEW e \in FAT32DirectoryEntry
  PROVE  /\ e.cluster \in Clusters /\ e.cluster \in Int
         /\ e.filesize \in Nat /\ e.filesize \in Int
<1>1. e.cluster \in Clusters /\ e.filesize \in Nat
  BY DEF FAT32DirectoryEntry
<1>2. \A c \in Clusters : c \in Int
  BY LayoutAssumption DEF Clusters
<1> QED
  BY <1>1, <1>2

LEMMA TableTypes ==
  ZeroTable \in FAT32DirectoryTable /\ JunkTable \in FAT32DirectoryTable
BY EntryTypes DEF ZeroTable, JunkTable, FAT32DirectoryTable

LEMMA InitDirectoryTableType ==
  ASSUME NEW n \in AnyName, NEW p \in Clusters
  PROVE  InitDirectoryTable(n, p) \in FAT32DirectoryTable
BY ClusterFacts
   DEF InitDirectoryTable, ZeroEntry, FAT32DirectoryTable,
       FAT32DirectoryEntry, AnyName, AnyExt

LEMMA StoreEntryType ==
  ASSUME NEW t \in FAT32DirectoryTable, NEW e \in FAT32DirectoryEntry
  PROVE  StoreEntry(t, e) \in FAT32DirectoryTable
BY DEF StoreEntry, FAT32DirectoryTable

LEMMA MarkNotEmptyType ==
  ASSUME NEW t \in FAT32DirectoryTable, NEW p
  PROVE  MarkNotEmpty(t, p) \in FAT32DirectoryTable
<1>1. ASSUME NEW e \in FAT32DirectoryEntry
      PROVE  [e EXCEPT !.user_attribute = UATTR_NOT_EMPTY]
               \in FAT32DirectoryEntry
  BY DEF FAT32DirectoryEntry
<1> QED
  BY <1>1 DEF MarkNotEmpty, FAT32DirectoryTable

LEMMA CellTypes ==
  /\ Blank \in Cells /\ Signature \in Cells
  /\ \A m \in FatMaps : FatCell(m) \in Cells
  /\ \A t \in FAT32DirectoryTable : DirCell(t) \in Cells
  /\ \A n \in AnyName, e \in AnyExt, p \in Nat : DataCell(n, e, p) \in Cells
BY DEF Blank, Signature, FatCell, DirCell, DataCell, Cells

LEMMA AsTableType ==
  ASSUME NEW cell \in Cells \cup {Junk}
  PROVE  AsTable(cell) \in FAT32DirectoryTable
BY TableTypes DEF AsTable, Cells, Junk

LEMMA AsFatType ==
  ASSUME NEW cell \in Cells
  PROVE  AsFat(cell) \in FatMaps
BY ZeroMapType DEF AsFat, Cells

LEMMA ReadClusterType ==
  ASSUME NEW d \in [Clusters -> Cells], NEW c
  PROVE  ReadCluster(d, c) \in Cells \cup {Junk}
BY DEF ReadCluster

LEMMA WriteClusterType ==
  ASSUME NEW d \in [Clusters -> Cells], NEW c, NEW cell \in Cells
  PROVE  WriteCluster(d, c, cell) \in [Clusters -> Cells]
BY DEF WriteCluster

LEMMA TornType ==
  ASSUME NEW old \in Cells, NEW new \in Cells, NEW k \in Nat
  PROVE  Torn(old, new, k) \in Cells
<1>1. CASE new.kind = "dir"
  <2>1. new.entries \in FAT32DirectoryTable
    BY <1>1 DEF Cells
  <2>2. AsTable(old) \in FAT32DirectoryTable
    BY AsTableType
  <2> DEFINE t == [s \in Slots |-> IF s * Blocks < k * TableSize
                                     THEN new.entries[s] ELSE AsTable(old)[s]]
  <2>3. t \in FAT32DirectoryTable
    BY <2>1, <2>2 DEF FAT32DirectoryTable
  <2>4. Torn(old, new, k) = DirCell(t)
    BY <1>1 DEF Torn
  <2> QED
    BY <2>3, <2>4, CellTypes
<1>2. CASE new.kind = "fat"
  <2>1. new.map \in FatMaps
    BY <1>2 DEF Cells
  <2>2. AsFat(old) \in FatMaps
    BY AsFatType
  <2> DEFINE m == [c \in Clusters |-> IF c * Blocks < k * ClusterMapSize
                                        THEN new.map[c] ELSE AsFat(old)[c]]
  <2>3. m \in FatMaps
    BY <2>1, <2>2 DEF FatMaps
  <2>4. Torn(old, new, k) = FatCell(m)
    BY <1>2 DEF Torn
  <2> QED
    BY <2>3, <2>4, CellTypes
<1>3. CASE new.kind # "dir" /\ new.kind # "fat"
  BY <1>3 DEF Torn
<1> QED
  BY <1>1, <1>2, <1>3

-----------------------------------------------------------------------------
(* Type correctness.  FlushWrite takes the head of the queue, so what has  *)
(* to be known besides the types is that there is one.                     *)

QueueOK == pc \in {"format", "flush"} => queue # <<>>

TypeInv == TypeOK /\ QueueOK

LEMMA ParentType ==
  ASSUME TypeOK, NEW r
  PROVE  Parent(r) \in FAT32DirectoryTable
BY ReadClusterType, AsTableType DEF Parent, TypeOK

LEMMA ItemType ==
  ASSUME NEW c \in Clusters, NEW cell \in Cells
  PROVE  Item(c, cell) \in Items
BY DEF Item, Items

LEMMA SaveOrderType ==
  ASSUME NEW p \in Clusters, NEW m \in FatMaps, NEW t \in FAT32DirectoryTable
  PROVE  /\ SaveOrder(p, m, t) \in Seq(Items)
         /\ SaveOrder(p, m, t) # <<>>
         /\ \A item \in Items :
              /\ Append(SaveOrder(p, m, t), item) \in Seq(Items)
              /\ Append(SaveOrder(p, m, t), item) # <<>>
<1>1. Item(FAT_CLUSTER_NUMBER, FatCell(m)) \in Items
  BY ItemType, CellTypes, ClusterFacts DEF FAT_CLUSTER_NUMBER
<1>2. Item(p, DirCell(t)) \in Items
  BY ItemType, CellTypes
<1> QED
  BY <1>1, <1>2 DEF SaveOrder

LEMMA RequestTypes ==
  ASSUME TypeOK
  PROVE  /\ FolderRequests \subseteq FAT32DriverRequest
         /\ FileRequests \subseteq FAT32DriverRequest
         /\ ReadRequests \subseteq FAT32DriverRequest
         /\ DeleteRequests \subseteq FAT32DriverRequest
         /\ ListingRequests \subseteq FAT32DriverRequest
<1>1. ASSUME NEW op \in Ops, NEW names \in SUBSET AnyName,
             NEW exts \in SUBSET AnyExt, NEW sizes \in SUBSET Nat
      PROVE  Request(op, names, exts, sizes) \subseteq FAT32DriverRequest
  BY DEF Request, FAT32DriverRequest, TypeOK
<1>2. /\ CallerNames \in SUBSET AnyName
      /\ CallerNames \cup {RootName} \in SUBSET AnyName
      /\ FolderExts \in SUBSET AnyExt /\ FileExts \in SUBSET AnyExt
      /\ {NoExt} \in SUBSET AnyExt
      /\ FileSizes \in SUBSET Nat /\ ReadSizes \in SUBSET Nat
      /\ ListingSizes \in SUBSET Nat /\ DeleteSizes \in SUBSET Nat
      /\ {0} \in SUBSET Nat
  BY RequestAssumption DEF AnyName, AnyExt, FileExts
<1>3. "write" \in Ops /\ "read" \in Ops /\ "delete" \in Ops
      /\ "read_directory" \in Ops
  BY DEF Ops
<1> QED
  BY <1>1, <1>2, <1>3 DEF FolderRequests, FileRequests, ReadRequests,
     DeleteRequests, ListingRequests

LEMMA AnswerType ==
  ASSUME TypeInv, NEW r \in FAT32DriverRequest, NEW c \in -1 .. 3, Answer(r, c)
  PROVE  TypeInv'
BY ParentType DEF TypeInv, TypeOK, QueueOK, Answer, locals, Phases

LEMMA SaveFileType ==
  ASSUME TypeInv, NEW m \in FatMaps, NEW start \in Clusters, NEW size \in Nat,
         SaveFile(m, start, size)
  PROVE  /\ fat' \in FatMaps
         /\ table' \in FAT32DirectoryTable
         /\ queue' \in Seq(Items) /\ queue' # <<>>
         /\ pc' \in Phases
<1>1. FileEntry(req, start, size) \in FAT32DirectoryEntry
  BY DEF FileEntry, FAT32DirectoryEntry, TypeInv, TypeOK, FAT32DriverRequest
<1>2. table' \in FAT32DirectoryTable
  BY <1>1, StoreEntryType DEF SaveFile, TypeInv, TypeOK
<1>3. req.parent_cluster_number \in Clusters
  BY DEF TypeInv, TypeOK, FAT32DriverRequest
<1> QED
  BY <1>2, <1>3, SaveOrderType DEF SaveFile, Phases

LEMMA TypeInit ==
  ASSUME Init
  PROVE  TypeInv
<1>1. disk \in [Clusters -> Cells]
  BY CellTypes DEF Init
<1>2. req \in FAT32DriverRequest
  BY ClusterFacts DEF Init, NoRequest, FAT32DriverRequest, AnyName, AnyExt, Ops
<1> QED
  BY <1>1, <1>2, ZeroMapType, TableTypes, ClusterFacts
     DEF Init, TypeInv, TypeOK, QueueOK, Phases, ROOT_CLUSTER_NUMBER

LEMMA TypeBoot ==
  ASSUME TypeInv, CreateFat32 \/ LoadFat
  PROVE  TypeInv'
<1>1. CASE CreateFat32
  <2>1. /\ Item(BOOT_SECTOR, Signature) \in Items
        /\ Item(FAT_CLUSTER_NUMBER, FatCell(FormattedMap)) \in Items
    BY ItemType, CellTypes, ClusterFacts, FormattedMapType
       DEF BOOT_SECTOR, FAT_CLUSTER_NUMBER
  <2>2. RootTable \in FAT32DirectoryTable
    BY InitDirectoryTableType, ClusterFacts
       DEF RootTable, AnyName, ROOT_CLUSTER_NUMBER
  <2>3. Item(ROOT_CLUSTER_NUMBER, DirCell(RootTable)) \in Items
    BY <2>2, ItemType, CellTypes, ClusterFacts DEF ROOT_CLUSTER_NUMBER
  <2> QED
    BY <1>1, <2>1, <2>3
       DEF CreateFat32, TypeInv, TypeOK, QueueOK, Phases, locals
<1>2. CASE LoadFat
  <2>1. disk[FAT_CLUSTER_NUMBER] \in Cells
    BY ClusterFacts DEF TypeInv, TypeOK, FAT_CLUSTER_NUMBER
  <2> QED
    BY <1>2, <2>1, AsFatType
       DEF LoadFat, TypeInv, TypeOK, QueueOK, Phases, locals
<1> QED
  BY <1>1, <1>2

LEMMA TypeReturn ==
  ASSUME TypeInv, Return
  PROVE  TypeInv'
<1>1. NoRequest \in FAT32DriverRequest
  BY ClusterFacts DEF NoRequest, FAT32DriverRequest, AnyName, AnyExt, Ops
<1>2. Subdirectories(table) \subseteq Clusters
  BY DEF Subdirectories
<1>3. known' \subseteq Clusters
  BY <1>2 DEF Return, TypeInv, TypeOK
<1> QED
  BY <1>1, <1>3, TableTypes, ClusterFacts
     DEF Return, TypeInv, TypeOK, QueueOK, Phases

LEMMA TypeFlushWrite ==
  ASSUME TypeInv, FlushWrite
  PROVE  TypeInv'
<1>1. queue \in Seq(Items) /\ queue # <<>>
  BY DEF FlushWrite, TypeInv, TypeOK, QueueOK
<1>2. /\ Head(queue) \in Items /\ Tail(queue) \in Seq(Items)
      /\ Len(Tail(queue)) = Len(queue) - 1
  BY <1>1, HeadTailProperties
<1>3. Len(queue) > 1 => Tail(queue) # <<>>
  <2>1. Len(queue) \in Nat
    BY <1>1, LenProperties
  <2>2. Tail(queue) = <<>> => Len(Tail(queue)) = 0
    BY EmptySeq
  <2> QED
    BY <1>2, <2>1, <2>2
<1>4. disk' \in [Clusters -> Cells]
  BY <1>2, WriteClusterType DEF FlushWrite, Items, TypeInv, TypeOK
<1> QED
  BY <1>2, <1>3, <1>4
     DEF FlushWrite, TypeInv, TypeOK, QueueOK, Phases, locals

LEMMA TypeRead ==
  ASSUME TypeInv, NEW r \in FAT32DriverRequest,
         ReadNotFound(r) \/ ReadNothing(r) \/ ReadFile(r)
  PROVE  TypeInv'
<1>1. CASE ReadNotFound(r)
  BY <1>1, AnswerType DEF ReadNotFound
<1>2. CASE ReadNothing(r)
  BY <1>2, AnswerType DEF ReadNothing
<1>3. CASE ReadFile(r)
  <2>1. PICK s \in Slots : /\ cur' = Parent(r)[s].cluster
                           /\ left' = Parent(r)[s].filesize
    BY <1>3 DEF ReadFile, IsFirstNamed
  <2>2. Parent(r) \in FAT32DirectoryTable
    BY ParentType DEF TypeInv
  <2>3. Parent(r)[s] \in FAT32DirectoryEntry
    BY <2>2 DEF FAT32DirectoryTable
  <2>4. Parent(r)[s].cluster \in Int /\ Parent(r)[s].filesize \in Int
    BY <2>3, EntryNumbers
  <2>5. cur' \in Int /\ left' \in Int
    BY <2>1, <2>4, Zenon
  <2> QED
    BY <1>3, <2>2, <2>5
       DEF ReadFile, TypeInv, TypeOK, QueueOK, Phases
<1> QED
  BY <1>1, <1>2, <1>3

LEMMA TypeFollowChain ==
  ASSUME TypeInv, FollowChain
  PROVE  TypeInv'
<1>1. Append(got, ReadCluster(disk, cur)) \in Seq(Cells \cup {Junk})
  BY ReadClusterType DEF TypeInv, TypeOK
<1>2. Link(fat, cur) \in Int
  BY LinkType, ClusterFacts DEF TypeInv, TypeOK
<1>3. left - ClusterSize \in Int
  BY LayoutAssumption DEF TypeInv, TypeOK
<1> QED
  BY <1>1, <1>2, <1>3 DEF FollowChain, TypeInv, TypeOK, QueueOK, Phases

LEMMA TypeWriteRefused ==
  ASSUME TypeInv, NEW r \in FAT32DriverRequest, WriteRefused(r)
  PROVE  TypeInv'
BY AnswerType DEF WriteRefused

LEMMA TypeWriteFile ==
  ASSUME TypeInv, NEW r \in FAT32DriverRequest, WriteFile(r)
  PROVE  TypeInv'
<1>1. fat' \in FatMaps
  BY AsFatType, ClusterFacts
     DEF WriteFile, TypeInv, TypeOK, FAT_CLUSTER_NUMBER
<1>2. table' \in FAT32DirectoryTable
  BY ParentType, MarkNotEmptyType DEF WriteFile, TypeInv
<1>3. left' \in Int
  BY DEF WriteFile, FAT32DriverRequest
<1> QED
  BY <1>1, <1>2, <1>3
     DEF WriteFile, WriteAccepted, TypeInv, TypeOK, QueueOK, Phases

LEMMA PlaceDataType ==
  ASSUME TypeInv, NEW i \in Clusters, PlaceData(i)
  PROVE  /\ disk' \in [Clusters -> Cells]
         /\ left' \in Int
         /\ first' \in Clusters
         /\ Chained(i) \in FatMaps
<1>1. DataCell(req.name, req.ext, counter) \in Cells
  BY CellTypes DEF TypeInv, TypeOK, FAT32DriverRequest
<1>2. disk' \in [Clusters -> Cells]
  BY <1>1, WriteClusterType DEF PlaceData, TypeInv, TypeOK
<1>3. left' \in Int
  BY LayoutAssumption DEF PlaceData, TypeInv, TypeOK
<1>4. Chained(i) \in FatMaps
  BY SetLinkType DEF Chained, Links, TypeInv, TypeOK
<1> QED
  BY <1>2, <1>3, <1>4 DEF PlaceData, TypeInv, TypeOK

LEMMA TypeAllocate ==
  ASSUME TypeInv, NEW i \in Clusters,
         AllocateCluster(i) \/ AllocateLastCluster(i)
  PROVE  TypeInv'
<1>1. CASE AllocateCluster(i)
  <2>1. /\ disk' \in [Clusters -> Cells] /\ left' \in Int
        /\ first' \in Clusters /\ fat' \in FatMaps
    BY <1>1, PlaceDataType DEF AllocateCluster
  <2>2. i + 1 \in Int /\ counter + 1 \in Nat
    BY ClusterFacts DEF TypeInv, TypeOK
  <2> QED
    BY <1>1, <2>1, <2>2
       DEF AllocateCluster, PlaceData, TypeInv, TypeOK, QueueOK, Phases
<1>2. CASE AllocateLastCluster(i)
  <2>1. /\ disk' \in [Clusters -> Cells] /\ left' \in Int
        /\ first' \in Clusters /\ Chained(i) \in FatMaps
    BY <1>2, PlaceDataType DEF AllocateLastCluster
  <2>2. SetLink(Chained(i), prev, FAT32_FAT_END_OF_FILE) \in FatMaps
    BY <2>1, SetLinkType DEF Links
  <2>3. req.buffer_size \in Nat
    BY DEF TypeInv, TypeOK, FAT32DriverRequest
  <2>4. /\ fat' \in FatMaps /\ table' \in FAT32DirectoryTable
        /\ queue' \in Seq(Items) /\ queue' # <<>> /\ pc' \in Phases
    BY <1>2, <2>1, <2>2, <2>3, SaveFileType DEF AllocateLastCluster
  <2> QED
    BY <1>2, <2>1, <2>4 DEF AllocateLastCluster, TypeInv, TypeOK, QueueOK
<1> QED
  BY <1>1, <1>2

LEMMA TypeDiskFull ==
  ASSUME TypeInv, DiskFull
  PROVE  TypeInv'
<1>1. /\ fat' \in FatMaps /\ table' \in FAT32DirectoryTable
      /\ queue' \in Seq(Items) /\ queue' # <<>> /\ pc' \in Phases
  BY SaveFileType DEF DiskFull, TypeInv, TypeOK
<1> QED
  BY <1>1 DEF DiskFull, TypeInv, TypeOK, QueueOK, locals

LEMMA TypeWriteFolder ==
  ASSUME TypeInv, NEW r \in FAT32DriverRequest, NEW index \in Clusters,
         WriteFolder(r, index)
  PROVE  TypeInv'
<1> DEFINE m == AsFat(disk[FAT_CLUSTER_NUMBER])
           p == r.parent_cluster_number
<1>1. p \in Clusters /\ r.name \in AnyName
  BY DEF FAT32DriverRequest
<1>2. fat' \in FatMaps
  <2>1. m \in FatMaps
    BY AsFatType, ClusterFacts DEF TypeInv, TypeOK, FAT_CLUSTER_NUMBER
  <2> QED
    BY <2>1, SetLinkType DEF WriteFolder, Links
<1>3. table' \in FAT32DirectoryTable
  <2>1. FolderEntry(r, index) \in FAT32DirectoryEntry
    BY <1>1 DEF FolderEntry, FAT32DirectoryEntry, AnyExt
  <2>2. MarkNotEmpty(Parent(r), p) \in FAT32DirectoryTable
    BY ParentType, MarkNotEmptyType DEF TypeInv
  <2> QED
    BY <2>1, <2>2, StoreEntryType DEF WriteFolder
<1>4. queue' \in Seq(Items) /\ queue' # <<>>
  <2>1. Item(index, DirCell(InitDirectoryTable(r.name, p))) \in Items
    BY <1>1, InitDirectoryTableType, CellTypes, ItemType
  <2> QED
    BY <1>1, <1>2, <1>3, <2>1, SaveOrderType DEF WriteFolder
<1> QED
  BY <1>2, <1>3, <1>4
     DEF WriteFolder, WriteAccepted, TypeInv, TypeOK, QueueOK, Phases, locals

LEMMA TypeDelete ==
  ASSUME TypeInv, NEW r \in FAT32DriverRequest, DeleteRefused(r) \/ Delete(r)
  PROVE  TypeInv'
<1>1. CASE DeleteRefused(r)
  BY <1>1, AnswerType DEF DeleteRefused
<1>2. CASE Delete(r)
  <2>1. PICK s \in Slots :
          /\ cur' = Parent(r)[s].cluster
          /\ table' = [q \in Slots |-> IF q = s THEN ZeroEntry
                                                ELSE Parent(r)[q]]
    BY <1>2 DEF Delete
  <2>2. Parent(r) \in FAT32DirectoryTable
    BY ParentType DEF TypeInv
  <2>3. table' \in FAT32DirectoryTable
    BY <2>1, <2>2, EntryTypes DEF FAT32DirectoryTable
  <2>4. Parent(r)[s] \in FAT32DirectoryEntry
    BY <2>2 DEF FAT32DirectoryTable
  <2>5. cur' \in Int
    BY <2>1, <2>4, EntryNumbers, Zenon
  <2>6. fat' \in FatMaps
    BY <1>2, AsFatType, ClusterFacts
       DEF Delete, TypeInv, TypeOK, FAT_CLUSTER_NUMBER
  <2> QED
    BY <1>2, <2>3, <2>5, <2>6
       DEF Delete, TypeInv, TypeOK, QueueOK, Phases
<1> QED
  BY <1>1, <1>2

LEMMA TypeWalk ==
  ASSUME TypeInv, WalkChain \/ EndOfChain
  PROVE  TypeInv'
<1>1. SetLink(fat, cur, 0) \in FatMaps
  BY SetLinkType, ClusterFacts DEF Links, TypeInv, TypeOK
<1>2. CASE WalkChain
  <2>1. Link(fat, cur) \in Int
    BY LinkType, ClusterFacts DEF TypeInv, TypeOK
  <2>2. disk' \in [Clusters -> Cells]
    BY <1>2, CellTypes, WriteClusterType DEF WalkChain, TypeInv, TypeOK
  <2> QED
    BY <1>1, <1>2, <2>1, <2>2 DEF WalkChain, TypeInv, TypeOK, QueueOK, Phases
<1>3. CASE EndOfChain
  <2>1. req.parent_cluster_number \in Clusters
    BY DEF TypeInv, TypeOK, FAT32DriverRequest
  <2>2. queue' \in Seq(Items) /\ queue' # <<>>
    BY <1>1, <1>3, <2>1, SaveOrderType DEF EndOfChain, TypeInv, TypeOK
  <2> QED
    BY <1>1, <1>3, <2>2
       DEF EndOfChain, TypeInv, TypeOK, QueueOK, Phases, locals
<1> QED
  BY <1>2, <1>3

LEMMA TypeReadDirectory ==
  ASSUME TypeInv, NEW r \in FAT32DriverRequest, ReadDirectory(r)
  PROVE  TypeInv'
BY AnswerType DEF ReadDirectory

\* What the disk can be after a power loss.
LEMMA InterruptedWriteType ==
  ASSUME TypeInv, NEW d \in InterruptedWrite
  PROVE  d \in [Clusters -> Cells]
<1>1. CASE d = disk
  BY <1>1 DEF TypeInv, TypeOK
<1>2. CASE /\ queue # <<>>
           /\ \E k \in 1 .. (Blocks - 1) :
                d = WriteCluster(disk, Head(queue).cluster,
                                 Torn(disk[Head(queue).cluster],
                                      Head(queue).cell, k))
  <2>1. Head(queue) \in Items
    BY <1>2, HeadTailProperties DEF TypeInv, TypeOK
  <2>2. /\ disk[Head(queue).cluster] \in Cells
        /\ Head(queue).cell \in Cells
    BY <2>1 DEF Items, TypeInv, TypeOK
  <2>3. PICK k \in 1 .. (Blocks - 1) :
          d = WriteCluster(disk, Head(queue).cluster,
                           Torn(disk[Head(queue).cluster],
                                Head(queue).cell, k))
    BY <1>2
  <2>4. k \in Nat
    BY LayoutAssumption
  <2>5. Torn(disk[Head(queue).cluster], Head(queue).cell, k) \in Cells
    BY <2>2, <2>4, TornType
  <2> QED
    BY <2>3, <2>5, WriteClusterType DEF TypeInv, TypeOK
<1> QED
  BY <1>1, <1>2 DEF InterruptedWrite

LEMMA TypePowerLoss ==
  ASSUME TypeInv, PowerLoss
  PROVE  TypeInv'
<1>1. disk' \in [Clusters -> Cells]
  BY InterruptedWriteType DEF PowerLoss
<1>2. NoRequest \in FAT32DriverRequest
  BY ClusterFacts DEF NoRequest, FAT32DriverRequest, AnyName, AnyExt, Ops
<1> QED
  BY <1>1, <1>2, ZeroMapType, TableTypes, ClusterFacts
     DEF PowerLoss, TypeInv, TypeOK, QueueOK, Phases, ROOT_CLUSTER_NUMBER

LEMMA TypeStep ==
  ASSUME TypeInv, [Next]_vars
  PROVE  TypeInv'
<1>1. CASE Call
  BY <1>1, RequestTypes, TypeReadDirectory, TypeRead, TypeWriteRefused,
     TypeWriteFile, TypeWriteFolder, TypeDelete DEF Call, TypeInv
<1>2. CASE Kernel
  BY <1>2, TypeBoot, TypeFollowChain, TypeAllocate, TypeDiskFull, TypeWalk,
     TypeFlushWrite, TypeReturn DEF Kernel
<1>3. CASE PowerLoss
  BY <1>3, TypePowerLoss
<1>4. CASE UNCHANGED vars
  BY <1>4 DEF vars, locals, TypeInv, TypeOK, QueueOK
<1> QED
  BY <1>1, <1>2, <1>3, <1>4 DEF Next

\* Every state of the driver is well typed, and a call that has writes left
\* has one to do: no sequence of calls and power losses leads the directory
\* and FAT operators of fat32.c outside the structures they work on.
THEOREM TypeCorrect == Spec => []TypeOK
<1>1. Init => TypeInv
  BY TypeInit
<1>2. TypeInv /\ [Next]_vars => TypeInv'
  BY TypeStep
<1>3. TypeInv => TypeOK
  BY DEF TypeInv
<1> QED
  BY <1>1, <1>2, <1>3, PTL DEF Spec

-----------------------------------------------------------------------------
(* The reserved clusters.  That clusters 1 and 2 keep what they hold rests  *)
(* on what can lead a call to them: a link of the FAT, a directory entry,   *)
(* the loop counters, a parent cluster number.  None of these ever is one   *)
(* of the two, with two exceptions: entry 0 of a table may name the root    *)
(* directory, and so may a request, whose table then is the root's.         *)

Reserved == {FAT_CLUSTER_NUMBER, ROOT_CLUSTER_NUMBER}

SafeMap(m) ==
  /\ m[FAT_CLUSTER_NUMBER] # 0 /\ m[ROOT_CLUSTER_NUMBER] # 0
  /\ \A c \in Clusters : m[c] \notin Reserved

SafeTable(t) ==
  \A s \in Slots : /\ t[s].cluster # FAT_CLUSTER_NUMBER
                   /\ s # 0 => t[s].cluster # ROOT_CLUSTER_NUMBER

SafeCell(c, cell) ==
  /\ cell.kind = "dir" => SafeTable(cell.entries)
  /\ c = FAT_CLUSTER_NUMBER => cell.kind = "fat" /\ SafeMap(cell.map)
  /\ c = ROOT_CLUSTER_NUMBER => IsRoot(cell)

DiskSafe ==
  /\ \A c \in Clusters : disk[c] = Blank \/ SafeCell(c, disk[c])
  /\ \/ pc \notin {"off", "format"}
     \/ pc = "off" /\ disk[BOOT_SECTOR] = Signature
     => \A c \in Reserved : SafeCell(c, disk[c])

FormatWrites == << Item(BOOT_SECTOR, Signature),
                   Item(ROOT_CLUSTER_NUMBER, DirCell(RootTable)),
                   Item(FAT_CLUSTER_NUMBER, FatCell(FormattedMap)) >>

FormatSafe ==
  pc = "format" =>
    \/ queue = FormatWrites
    \/ queue = Tail(FormatWrites)
    \/ /\ queue = Tail(Tail(FormatWrites))
       /\ SafeCell(ROOT_CLUSTER_NUMBER, disk[ROOT_CLUSTER_NUMBER])

QueueSafe ==
  \A i \in 1 .. Len(queue) : SafeCell(queue[i].cluster, queue[i].cell)

CallSafe ==
  /\ SafeTable(table)
  /\ FAT_CLUSTER_NUMBER \notin known
  /\ pc \in {"alloc", "walk"} =>
       SafeMap(fat) /\ SafeCell(req.parent_cluster_number, DirCell(table))
  /\ first \notin Reserved
  /\ pc = "alloc" => cur >= 3
  /\ pc = "walk" => cur \notin Reserved

\* The inductive invariant.
SafeInv == TypeInv /\ DiskSafe /\ FormatSafe /\ QueueSafe /\ CallSafe

\* The operators of Fat32Layout keep maps, tables and cells safe.

LEMMA ReservedFacts ==
  /\ FAT_CLUSTER_NUMBER = 1 /\ ROOT_CLUSTER_NUMBER = 2 /\ BOOT_SECTOR = 0
  /\ Reserved \subseteq Clusters /\ 0 \in Clusters /\ 0 \notin Reserved
  /\ FAT32_FAT_END_OF_FILE \notin Reserved \cup {0}
  /\ CLUSTER_0_VALUE \notin Reserved \cup {0}
BY ClusterFacts
   DEF FAT_CLUSTER_NUMBER, ROOT_CLUSTER_NUMBER, BOOT_SECTOR, Reserved,
       FAT32_FAT_END_OF_FILE, CLUSTER_0_VALUE

LEMMA SetLinkSafe ==
  ASSUME NEW m, SafeMap(m), NEW c, NEW v, v \notin Reserved \cup {0}
  PROVE  SafeMap(SetLink(m, c, v))
BY ReservedFacts DEF SafeMap, SetLink, Reserved

LEMMA FreeLinkSafe ==
  ASSUME NEW m, SafeMap(m), NEW c, c \notin Reserved
  PROVE  SafeMap(SetLink(m, c, 0))
BY ReservedFacts DEF SafeMap, SetLink, Reserved

LEMMA LinkSafe ==
  ASSUME NEW m, SafeMap(m), NEW c
  PROVE  Link(m, c) \notin Reserved
BY ReservedFacts DEF SafeMap, Link

LEMMA FirstFreeSafe ==
  ASSUME NEW m, SafeMap(m), NEW from, NEW i, IsFirstFree(m, from, i)
  PROVE  i \notin Reserved
BY DEF SafeMap, IsFirstFree, Reserved

LEMMA FormattedMapSafe == SafeMap(FormattedMap)
BY ReservedFacts, ClusterFacts
   DEF SafeMap, FormattedMap, CLUSTER_1_VALUE, Reserved,
       FAT32_FAT_END_OF_FILE, CLUSTER_0_VALUE

LEMMA EntriesSafe ==
  /\ ZeroEntry.cluster = 0
  /\ SafeTable(ZeroTable) /\ SafeTable(JunkTable)
<1>1. ZeroEntry.cluster = 0
  BY DEF ZeroEntry
<1>2. \A s \in Slots : ZeroTable[s].cluster = 0 /\ JunkTable[s].cluster = 0
  BY DEF ZeroTable, JunkTable, ZeroEntry
<1> QED
  BY <1>1, <1>2, ReservedFacts DEF SafeTable

LEMMA AsTableSafe ==
  ASSUME NEW cell, cell.kind = "dir" => SafeTable(cell.entries)
  PROVE  SafeTable(AsTable(cell))
BY EntriesSafe DEF AsTable

LEMMA MarkNotEmptySafe ==
  ASSUME NEW t \in FAT32DirectoryTable, NEW p, SafeTable(t)
  PROVE  /\ SafeTable(MarkNotEmpty(t, p))
         /\ IsRootTable(t) => IsRootTable(MarkNotEmpty(t, p))
         /\ \A s \in Slots : MarkNotEmpty(t, p)[s].name = t[s].name
<1>1. \A s \in Slots : t[s] \in FAT32DirectoryEntry
  BY DEF FAT32DirectoryTable
<1>2. ASSUME NEW e \in FAT32DirectoryEntry
      PROVE  LET f == [e EXCEPT !.user_attribute = UATTR_NOT_EMPTY] IN
               /\ f.name = e.name /\ f.attribute = e.attribute
               /\ f.cluster = e.cluster
  BY DEF FAT32DirectoryEntry
<1>3. \A s \in Slots : LET f == MarkNotEmpty(t, p)[s] IN
        /\ f.name = t[s].name /\ f.attribute = t[s].attribute
        /\ f.cluster = t[s].cluster
  BY <1>1, <1>2 DEF MarkNotEmpty
<1> QED
  BY <1>3, ClusterFacts DEF SafeTable, IsRootTable

LEMMA StoreEntrySafe ==
  ASSUME NEW t, NEW e, SafeTable(t), e.cluster \notin Reserved
  PROVE  /\ SafeTable(StoreEntry(t, e))
         /\ IsRootTable(t) => IsRootTable(StoreEntry(t, e))
<1>1. SafeTable(StoreEntry(t, e))
  BY ReservedFacts DEF SafeTable, StoreEntry, Reserved
<1>2. RootName # NoName
  BY LayoutAssumption
<1>3. IsRootTable(t) => StoreEntry(t, e)[0] = t[0]
  BY <1>2, ClusterFacts DEF IsRootTable, StoreEntry, IsFirstUnused
<1> QED
  BY <1>1, <1>3 DEF IsRootTable

LEMMA InitDirectoryTableSafe ==
  ASSUME NEW n, NEW p, p # FAT_CLUSTER_NUMBER
  PROVE  /\ SafeTable(InitDirectoryTable(n, p))
         /\ IsRootTable(RootTable)
<1>1. ASSUME NEW nn, NEW pp
      PROVE  /\ InitDirectoryTable(nn, pp)[0].name = nn
             /\ InitDirectoryTable(nn, pp)[0].attribute = ATTR_SUBDIRECTORY
             /\ InitDirectoryTable(nn, pp)[0].cluster = pp
             /\ \A s \in Slots \ {0} : InitDirectoryTable(nn, pp)[s].cluster = 0
  BY ClusterFacts DEF InitDirectoryTable, ZeroEntry
<1> QED
  BY <1>1, ReservedFacts DEF SafeTable, IsRootTable, RootTable

LEMMA CellKinds ==
  /\ Blank.kind = "blank" /\ Signature.kind = "signature"
  /\ \A m : FatCell(m).kind = "fat" /\ FatCell(m).map = m
  /\ \A t : DirCell(t).kind = "dir" /\ DirCell(t).entries = t
  /\ \A n, e, p : DataCell(n, e, p).kind = "data"
BY DEF Blank, Signature, FatCell, DirCell, DataCell

LEMMA TornSafe ==
  ASSUME NEW c, NEW old \in Cells, NEW new \in Cells, NEW k \in Nat,
         SafeCell(c, old), SafeCell(c, new)
  PROVE  SafeCell(c, Torn(old, new, k))
<1>1. CASE new.kind = "dir"
  <2> DEFINE t == [s \in Slots |-> IF s * Blocks < k * TableSize
                                     THEN new.entries[s] ELSE AsTable(old)[s]]
  <2>1. Torn(old, new, k) = DirCell(t)
    BY <1>1 DEF Torn
  <2>2. \A s \in Slots : t[s] = new.entries[s] \/ t[s] = AsTable(old)[s]
    OBVIOUS
  <2>3. SafeTable(new.entries) /\ SafeTable(AsTable(old))
    BY <1>1, AsTableSafe DEF SafeCell
  <2> HIDE DEF t
  <2>4. SafeTable(t)
    BY <2>2, <2>3 DEF SafeTable
  <2>5. ASSUME c = ROOT_CLUSTER_NUMBER
        PROVE  IsRootTable(t)
    <3>1. IsRootTable(new.entries) /\ IsRootTable(old.entries)
          /\ old.kind = "dir"
      BY <1>1, <2>5 DEF SafeCell, IsRoot
    <3>2. AsTable(old) = old.entries
      BY <3>1 DEF AsTable
    <3> QED
      BY <2>2, <3>1, <3>2, ClusterFacts DEF IsRootTable
  <2>6. c # FAT_CLUSTER_NUMBER
    BY <1>1 DEF SafeCell
  <2> QED
    BY <2>1, <2>4, <2>5, <2>6, CellKinds DEF SafeCell, IsRoot
<1>2. CASE new.kind = "fat"
  <2> DEFINE m == [x \in Clusters |-> IF x * Blocks < k * ClusterMapSize
                                        THEN new.map[x] ELSE AsFat(old)[x]]
  <2>1. Torn(old, new, k) = FatCell(m)
    BY <1>2 DEF Torn
  <2>2. \A x \in Clusters : m[x] = new.map[x] \/ m[x] = AsFat(old)[x]
    OBVIOUS
  <2> HIDE DEF m
  <2>3. ASSUME c = FAT_CLUSTER_NUMBER
        PROVE  SafeMap(m)
    <3>1. SafeMap(new.map) /\ SafeMap(AsFat(old))
      BY <2>3 DEF SafeCell, AsFat
    <3> QED
      BY <2>2, <3>1, ReservedFacts DEF SafeMap, Reserved
  <2>4. c # ROOT_CLUSTER_NUMBER
    BY <1>2 DEF SafeCell, IsRoot
  <2> QED
    BY <2>1, <2>3, <2>4, CellKinds DEF SafeCell
<1>3. CASE new.kind # "dir" /\ new.kind # "fat"
  BY <1>3 DEF Torn
<1> QED
  BY <1>1, <1>2, <1>3

-----------------------------------------------------------------------------
(* The steps of the driver keep SafeInv.                                   *)

LEMMA BlankSafe ==
  ASSUME NEW c, c \notin Reserved
  PROVE  SafeCell(c, Blank)
BY CellKinds DEF SafeCell, Reserved

\* While the file system is up, no cluster is an exception.
LEMMA UpSafe ==
  ASSUME SafeInv, pc \notin {"off", "format"}
  PROVE  \A c \in Clusters : SafeCell(c, disk[c])
BY BlankSafe DEF SafeInv, DiskSafe

LEMMA UpDiskSafe ==
  ASSUME NEW d \in [Clusters -> Cells], \A c \in Clusters : SafeCell(c, d[c]),
         disk' = d
  PROVE  DiskSafe'
BY ReservedFacts DEF DiskSafe

\* One cluster of a disk is written.
LEMMA WriteSafe ==
  ASSUME NEW d \in [Clusters -> Cells], \A c \in Clusters : SafeCell(c, d[c]),
         NEW k, NEW cell, SafeCell(k, cell)
  PROVE  \A c \in Clusters : SafeCell(c, WriteCluster(d, k, cell)[c])
BY DEF WriteCluster

LEMMA ParentSafe ==
  ASSUME SafeInv, pc = "idle", NEW r, r.parent_cluster_number \in known
  PROVE  /\ r.parent_cluster_number \in Clusters \ {FAT_CLUSTER_NUMBER}
         /\ SafeTable(Parent(r))
         /\ r.parent_cluster_number = ROOT_CLUSTER_NUMBER
              => IsRootTable(Parent(r))
<1> DEFINE p == r.parent_cluster_number
<1>1. p \in Clusters \ {FAT_CLUSTER_NUMBER}
  BY DEF SafeInv, TypeInv, TypeOK, CallSafe
<1>2. SafeCell(p, disk[p])
  BY <1>1, UpSafe
<1>3. Parent(r) = AsTable(disk[p])
  BY <1>1 DEF Parent, ReadCluster
<1>4. SafeTable(Parent(r))
  BY <1>2, <1>3, AsTableSafe DEF SafeCell
<1>5. p = ROOT_CLUSTER_NUMBER => IsRootTable(Parent(r))
  BY <1>2, <1>3 DEF SafeCell, IsRoot, AsTable
<1> QED
  BY <1>1, <1>4, <1>5

LEMMA RequestsFromKnown ==
  \A r \in FolderRequests \cup FileRequests \cup ReadRequests
             \cup DeleteRequests \cup ListingRequests :
    r.parent_cluster_number \in known
BY DEF FolderRequests, FileRequests, ReadRequests, DeleteRequests,
       ListingRequests, Request

LEMMA DirCellSafe ==
  ASSUME NEW c, NEW t, c # FAT_CLUSTER_NUMBER, SafeTable(t),
         c = ROOT_CLUSTER_NUMBER => IsRootTable(t)
  PROVE  SafeCell(c, DirCell(t))
BY CellKinds DEF SafeCell, IsRoot

\* The FAT that a call reads from the disk.
LEMMA LoadedFatSafe ==
  ASSUME SafeInv, pc = "idle"
  PROVE  SafeMap(AsFat(disk[FAT_CLUSTER_NUMBER]))
<1>1. SafeCell(FAT_CLUSTER_NUMBER, disk[FAT_CLUSTER_NUMBER])
  BY UpSafe, ReservedFacts DEF Reserved
<1> QED
  BY <1>1 DEF SafeCell, AsFat

LEMMA SafeInit ==
  ASSUME Init
  PROVE  SafeInv
<1>1. TypeInv
  BY TypeInit
<1>2. DiskSafe
  BY CellKinds, ClusterFacts DEF Init, DiskSafe, BOOT_SECTOR
<1>3. FormatSafe /\ QueueSafe
  BY EmptySeq DEF Init, FormatSafe, QueueSafe
<1>4. CallSafe
  BY EntriesSafe, ReservedFacts DEF Init, CallSafe
<1> QED
  BY <1>1, <1>2, <1>3, <1>4 DEF SafeInv

\* A call that is answered at once leaves everything but the table alone.
LEMMA AnswerSafe ==
  ASSUME SafeInv, NEW r, r.parent_cluster_number \in known, NEW c, Answer(r, c),
         TypeInv'
  PROVE  SafeInv'
<1>1. SafeTable(Parent(r))
  BY ParentSafe DEF Answer
<1>2. DiskSafe'
  BY DEF SafeInv, DiskSafe, Answer
<1>3. FormatSafe' /\ QueueSafe'
  BY DEF SafeInv, FormatSafe, QueueSafe, Answer
<1>4. CallSafe'
  BY <1>1 DEF SafeInv, CallSafe, Answer, locals
<1> QED
  BY <1>2, <1>3, <1>4 DEF SafeInv

\* What the calls that save a directory have in common: the two writes.
LEMMA SaveOrderSafe ==
  ASSUME NEW p, NEW m, NEW t, SafeMap(m), SafeCell(p, DirCell(t))
  PROVE  LET q == SaveOrder(p, m, t) IN
           /\ Len(q) = 2
           /\ \A i \in 1 .. 2 : SafeCell(q[i].cluster, q[i].cell)
<1>1. SafeCell(FAT_CLUSTER_NUMBER, FatCell(m))
  BY CellKinds, ReservedFacts DEF SafeCell
<1>2. /\ Item(FAT_CLUSTER_NUMBER, FatCell(m)).cluster = FAT_CLUSTER_NUMBER
      /\ Item(FAT_CLUSTER_NUMBER, FatCell(m)).cell = FatCell(m)
      /\ Item(p, DirCell(t)).cluster = p
      /\ Item(p, DirCell(t)).cell = DirCell(t)
  BY DEF Item
<1> QED
  BY <1>1, <1>2 DEF SaveOrder

LEMMA SafeBoot ==
  ASSUME SafeInv, CreateFat32 \/ LoadFat, TypeInv'
  PROVE  SafeInv'
<1>1. CASE CreateFat32
  <2>1. DiskSafe'
    BY <1>1 DEF CreateFat32, SafeInv, DiskSafe
  <2>2. FormatSafe'
    BY <1>1 DEF CreateFat32, FormatSafe, FormatWrites
  <2>3. QueueSafe'
    <3>1. SafeCell(BOOT_SECTOR, Signature)
      BY CellKinds, ReservedFacts DEF SafeCell
    <3>2. SafeCell(ROOT_CLUSTER_NUMBER, DirCell(RootTable))
      BY InitDirectoryTableSafe, DirCellSafe, ReservedFacts DEF RootTable
    <3>3. SafeCell(FAT_CLUSTER_NUMBER, FatCell(FormattedMap))
      BY CellKinds, FormattedMapSafe, ReservedFacts DEF SafeCell
    <3>4. \A c, cell : Item(c, cell).cluster = c /\ Item(c, cell).cell = cell
      BY DEF Item
    <3> QED
      BY <1>1, <3>1, <3>2, <3>3, <3>4 DEF CreateFat32, QueueSafe
  <2>4. CallSafe'
    BY <1>1 DEF CreateFat32, SafeInv, CallSafe, locals
  <2> QED
    BY <2>1, <2>2, <2>3, <2>4 DEF SafeInv
<1>2. CASE LoadFat
  <2>1. DiskSafe'
    BY <1>2 DEF LoadFat, is_empty_storage, SafeInv, DiskSafe
  <2>2. FormatSafe' /\ QueueSafe'
    BY <1>2 DEF LoadFat, SafeInv, FormatSafe, QueueSafe
  <2>3. CallSafe'
    BY <1>2 DEF LoadFat, SafeInv, CallSafe, locals
  <2> QED
    BY <2>1, <2>2, <2>3 DEF SafeInv
<1> QED
  BY <1>1, <1>2

LEMMA SafeReturn ==
  ASSUME SafeInv, Return, TypeInv'
  PROVE  SafeInv'
<1>1. DiskSafe' /\ FormatSafe' /\ QueueSafe'
  BY DEF Return, SafeInv, DiskSafe, FormatSafe, QueueSafe
<1>2. FAT_CLUSTER_NUMBER \notin Subdirectories(table)
  BY DEF Subdirectories, SafeInv, CallSafe, SafeTable
<1>3. CallSafe'
  BY <1>2, EntriesSafe, ReservedFacts DEF Return, SafeInv, CallSafe
<1> QED
  BY <1>1, <1>3 DEF SafeInv

\* The queue after its head was taken.
LEMMA TailSafe ==
  ASSUME queue \in Seq(Items), queue # <<>>, QueueSafe
  PROVE  /\ SafeCell(Head(queue).cluster, Head(queue).cell)
         /\ \A i \in 1 .. Len(Tail(queue)) :
              SafeCell(Tail(queue)[i].cluster, Tail(queue)[i].cell)
<1>1. Len(queue) \in Nat /\ Len(queue) > 0
  BY EmptySeq, LenProperties
<1>2. Head(queue) = queue[1]
  OBVIOUS
<1>3. /\ Len(Tail(queue)) = Len(queue) - 1
      /\ \A i \in 1 .. Len(Tail(queue)) : Tail(queue)[i] = queue[i + 1]
  BY HeadTailProperties
<1>4. \A i \in 1 .. Len(Tail(queue)) : i + 1 \in 1 .. Len(queue)
  BY <1>1, <1>3
<1> QED
  BY <1>1, <1>2, <1>3, <1>4 DEF QueueSafe

LEMMA SafeFlushWrite ==
  ASSUME SafeInv, FlushWrite, TypeInv'
  PROVE  SafeInv'
<1> DEFINE h == Head(queue)
<1>1. queue \in Seq(Items) /\ queue # <<>>
  BY DEF FlushWrite, SafeInv, TypeInv, TypeOK, QueueOK
<1>2. SafeCell(h.cluster, h.cell)
  BY <1>1, TailSafe DEF SafeInv
<1>3. disk' = WriteCluster(disk, h.cluster, h.cell)
  BY DEF FlushWrite
<1>4. QueueSafe'
  BY <1>1, TailSafe DEF FlushWrite, QueueSafe, SafeInv
<1>5. CallSafe'
  BY DEF FlushWrite, SafeInv, CallSafe, locals
<1>6. CASE pc = "flush"
  <2>1. \A c \in Clusters : SafeCell(c, disk'[c])
    BY <1>2, <1>3, <1>6, UpSafe, WriteSafe DEF SafeInv, TypeInv, TypeOK
  <2>2. DiskSafe'
    BY <2>1, UpDiskSafe DEF TypeInv, TypeOK
  <2>3. FormatSafe'
    BY <1>6 DEF FlushWrite, FormatSafe
  <2> QED
    BY <1>4, <1>5, <2>2, <2>3 DEF SafeInv
<1>7. CASE pc = "format"
  <2>1. \A c \in Clusters : disk'[c] = Blank \/ SafeCell(c, disk'[c])
    BY <1>2, <1>3 DEF SafeInv, DiskSafe, WriteCluster
  <2>2. CASE queue = FormatWrites
    <3>1. Len(queue) = 3 /\ queue' = Tail(FormatWrites) /\ pc' = "format"
      BY <1>7, <2>2 DEF FlushWrite, FormatWrites
    <3> QED
      BY <1>4, <1>5, <2>1, <3>1 DEF SafeInv, DiskSafe, FormatSafe
  <2>3. CASE queue = Tail(FormatWrites)
    <3>1. /\ Len(queue) = 2
          /\ h = Item(ROOT_CLUSTER_NUMBER, DirCell(RootTable))
      BY <2>3 DEF FormatWrites
    <3>2. queue' = Tail(Tail(FormatWrites)) /\ pc' = "format"
      <4>1. queue' = Tail(queue)
        BY DEF FlushWrite
      <4>2. pc' = "format"
        BY <1>7, <3>1 DEF FlushWrite
      <4> QED
        BY <2>3, <4>1, <4>2, Zenon
    <3>3. h.cluster = ROOT_CLUSTER_NUMBER
      BY <3>1 DEF Item
    <3>4. SafeCell(ROOT_CLUSTER_NUMBER, disk'[ROOT_CLUSTER_NUMBER])
      BY <1>2, <1>3, <3>3, ReservedFacts DEF WriteCluster, Reserved
    <3> QED
      BY <1>4, <1>5, <2>1, <3>2, <3>4 DEF SafeInv, DiskSafe, FormatSafe
  <2>4. CASE /\ queue = Tail(Tail(FormatWrites))
             /\ SafeCell(ROOT_CLUSTER_NUMBER, disk[ROOT_CLUSTER_NUMBER])
    <3>1. /\ Len(queue) = 1
          /\ h = Item(FAT_CLUSTER_NUMBER, FatCell(FormattedMap))
      BY <2>4 DEF FormatWrites
    <3>2. h.cluster = FAT_CLUSTER_NUMBER
      BY <3>1 DEF Item
    <3>3. pc' = "idle"
      BY <1>7, <3>1 DEF FlushWrite
    <3>4. \A c \in Reserved : SafeCell(c, disk'[c])
      BY <1>2, <1>3, <2>4, <3>2, ReservedFacts DEF WriteCluster, Reserved
    <3> QED
      BY <1>4, <1>5, <2>1, <3>3, <3>4 DEF SafeInv, DiskSafe, FormatSafe
  <2> QED
    BY <1>7, <2>2, <2>3, <2>4 DEF SafeInv, FormatSafe
<1> QED
  BY <1>6, <1>7 DEF FlushWrite

LEMMA SafeRead ==
  ASSUME SafeInv, TypeInv', NEW r \in FAT32DriverRequest,
         r.parent_cluster_number \in known,
         ReadNotFound(r) \/ ReadNothing(r) \/ ReadFile(r)
  PROVE  SafeInv'
<1>2. CASE ReadNotFound(r)
  BY <1>2, AnswerSafe DEF ReadNotFound
<1>3. CASE ReadNothing(r)
  BY <1>3, AnswerSafe DEF ReadNothing
<1>4. CASE ReadFile(r)
  <2>1. SafeTable(table')
    BY <1>4, ParentSafe DEF ReadFile
  <2>2. DiskSafe' /\ FormatSafe' /\ QueueSafe'
    BY <1>4 DEF ReadFile, SafeInv, DiskSafe, FormatSafe, QueueSafe
  <2>3. CallSafe'
    BY <1>4, <2>1 DEF ReadFile, SafeInv, CallSafe
  <2> QED
    BY <2>2, <2>3 DEF SafeInv
<1> QED
  BY <1>2, <1>3, <1>4

LEMMA SafeFollowChain ==
  ASSUME SafeInv, FollowChain, TypeInv'
  PROVE  SafeInv'
<1>1. DiskSafe' /\ FormatSafe' /\ QueueSafe'
  BY DEF FollowChain, SafeInv, DiskSafe, FormatSafe, QueueSafe
<1>2. CallSafe'
  BY DEF FollowChain, SafeInv, CallSafe
<1> QED
  BY <1>1, <1>2 DEF SafeInv

LEMMA SafeWriteFile ==
  ASSUME SafeInv, TypeInv', NEW r \in FAT32DriverRequest,
         r.parent_cluster_number \in known,
         WriteFile(r)
  PROVE  SafeInv'
<1> DEFINE p == r.parent_cluster_number
<1>1. p \in known /\ pc = "idle"
  BY DEF WriteFile, WriteAccepted
<1>2. SafeMap(fat')
  BY <1>1, LoadedFatSafe DEF WriteFile
<1>3. SafeTable(table') /\ (p = ROOT_CLUSTER_NUMBER => IsRootTable(table'))
  BY <1>1, ParentSafe, ParentType, MarkNotEmptySafe
     DEF WriteFile, SafeInv, TypeInv
<1>4. SafeCell(p, DirCell(table'))
  BY <1>1, <1>3, ParentSafe, DirCellSafe
<1>6. CallSafe'
  BY <1>2, <1>3, <1>4
     DEF WriteFile, WriteAccepted, SafeInv, CallSafe
<1>7. DiskSafe' /\ FormatSafe' /\ QueueSafe'
  BY DEF WriteFile, WriteAccepted, SafeInv, DiskSafe, FormatSafe, QueueSafe
<1> QED
  BY <1>6, <1>7 DEF SafeInv

LEMMA SafeWriteRefused ==
  ASSUME SafeInv, TypeInv', NEW r \in FAT32DriverRequest,
         r.parent_cluster_number \in known,
         WriteRefused(r)
  PROVE  SafeInv'
BY AnswerSafe DEF WriteRefused

\* The entry of the new file goes into the table, and the call has its two
\* writes to do.
LEMMA SaveFileSafe ==
  ASSUME SafeInv, pc = "alloc", NEW m, SafeMap(m), NEW start,
         start \notin Reserved, NEW size, SaveFile(m, start, size)
  PROVE  SafeTable(table') /\ QueueSafe' /\ pc' = "flush"
<1> DEFINE p == req.parent_cluster_number
           e == FileEntry(req, start, size)
<1>1. /\ SafeTable(table) /\ p # FAT_CLUSTER_NUMBER
      /\ p = ROOT_CLUSTER_NUMBER => IsRootTable(table)
  BY CellKinds DEF SafeInv, CallSafe, SafeCell, IsRoot
<1>2. e.cluster = start
  BY DEF FileEntry
<1>3. SafeTable(table') /\ (p = ROOT_CLUSTER_NUMBER => IsRootTable(table'))
  BY <1>1, <1>2, StoreEntrySafe DEF SaveFile
<1>4. SafeCell(p, DirCell(table'))
  BY <1>1, <1>3, DirCellSafe
<1>5. QueueSafe'
  BY <1>4, SaveOrderSafe DEF SaveFile, QueueSafe
<1> QED
  BY <1>3, <1>5 DEF SaveFile

LEMMA SafeAllocate ==
  ASSUME SafeInv, TypeInv', NEW i \in Clusters,
         AllocateCluster(i) \/ AllocateLastCluster(i)
  PROVE  SafeInv'
<1>1. PlaceData(i)
  BY DEF AllocateCluster, AllocateLastCluster
<1>2. pc = "alloc" /\ i >= 3 /\ i \notin Reserved /\ i \notin Reserved \cup {0}
  <2>1. i >= cur /\ cur >= 3 /\ cur \in Int /\ i \in Int
    BY <1>1, ClusterFacts
       DEF PlaceData, IsFirstFree, SafeInv, CallSafe, TypeInv, TypeOK
  <2>2. i >= 3
    BY <2>1
  <2> QED
    BY <1>1, <2>1, <2>2, ReservedFacts DEF PlaceData, Reserved
<1>3. \A c \in Clusters : SafeCell(c, disk'[c])
  <2>1. SafeCell(i, DataCell(req.name, req.ext, counter))
    BY <1>2, CellKinds DEF SafeCell, Reserved
  <2>2. /\ disk \in [Clusters -> Cells]
        /\ \A c \in Clusters : SafeCell(c, disk[c])
    BY <1>2, UpSafe DEF SafeInv, TypeInv, TypeOK
  <2> QED
    BY <1>1, <2>1, <2>2, WriteSafe DEF PlaceData
<1>4. DiskSafe'
  BY <1>3, UpDiskSafe DEF TypeInv, TypeOK
<1>5. SafeMap(Chained(i))
  BY <1>2, SetLinkSafe DEF Chained, SafeInv, CallSafe
<1>6. first' \notin Reserved
  BY <1>1, <1>2 DEF PlaceData, SafeInv, CallSafe
<1>7. CASE AllocateCluster(i)
  <2>1. i + 1 >= 3
    BY <1>2, ClusterFacts
  <2>2. CallSafe'
    BY <1>2, <1>5, <1>6, <1>7, <2>1 DEF AllocateCluster, SafeInv, CallSafe
  <2>3. FormatSafe' /\ QueueSafe'
    BY <1>2, <1>7 DEF AllocateCluster, SafeInv, FormatSafe, QueueSafe
  <2> QED
    BY <1>4, <2>2, <2>3 DEF SafeInv
<1>8. CASE AllocateLastCluster(i)
  <2>1. SafeMap(SetLink(Chained(i), prev, FAT32_FAT_END_OF_FILE))
    BY <1>5, SetLinkSafe, ReservedFacts
  <2>2. SafeTable(table') /\ QueueSafe' /\ pc' = "flush"
    BY <1>2, <1>6, <1>8, <2>1, SaveFileSafe DEF AllocateLastCluster
  <2>3. CallSafe' /\ FormatSafe'
    BY <1>6, <1>8, <2>2
       DEF AllocateLastCluster, SafeInv, CallSafe, FormatSafe
  <2> QED
    BY <1>4, <2>2, <2>3 DEF SafeInv
<1> QED
  BY <1>7, <1>8

LEMMA SafeDiskFull ==
  ASSUME SafeInv, DiskFull, TypeInv'
  PROVE  SafeInv'
<1>1. pc = "alloc" /\ SafeMap(fat) /\ first \notin Reserved
  BY DEF DiskFull, SafeInv, CallSafe
<1>2. SafeTable(table') /\ QueueSafe' /\ pc' = "flush"
  BY <1>1, SaveFileSafe DEF DiskFull
<1>3. CallSafe' /\ FormatSafe'
  BY <1>2 DEF DiskFull, SafeInv, CallSafe, FormatSafe, locals
<1>4. DiskSafe'
  BY <1>1, <1>2 DEF DiskFull, SafeInv, DiskSafe
<1> QED
  BY <1>2, <1>3, <1>4 DEF SafeInv

LEMMA SafeWriteFolder ==
  ASSUME SafeInv, TypeInv', NEW r \in FAT32DriverRequest,
         r.parent_cluster_number \in known,
         NEW index \in Clusters,
         WriteFolder(r, index)
  PROVE  SafeInv'
<1> DEFINE p == r.parent_cluster_number
           m == AsFat(disk[FAT_CLUSTER_NUMBER])
           sub == InitDirectoryTable(r.name, p)
<1>1. p \in known /\ pc = "idle"
  BY DEF WriteFolder, WriteAccepted
<1>2. SafeMap(m)
  BY <1>1, LoadedFatSafe
<1>3. index \notin Reserved
  BY <1>2, FirstFreeSafe, ReservedFacts DEF WriteFolder
<1>4. SafeMap(fat')
  BY <1>2, SetLinkSafe, ReservedFacts DEF WriteFolder
<1>5. p # FAT_CLUSTER_NUMBER
  BY <1>1, ParentSafe
<1>6. SafeTable(table') /\ (p = ROOT_CLUSTER_NUMBER => IsRootTable(table'))
  <2>1. LET t == MarkNotEmpty(Parent(r), p) IN
          SafeTable(t) /\ (p = ROOT_CLUSTER_NUMBER => IsRootTable(t))
    BY <1>1, ParentSafe, ParentType, MarkNotEmptySafe DEF SafeInv, TypeInv
  <2>2. FolderEntry(r, index).cluster = index
    BY DEF FolderEntry
  <2> QED
    BY <1>3, <2>1, <2>2, StoreEntrySafe DEF WriteFolder
<1>7. SafeCell(p, DirCell(table'))
  BY <1>5, <1>6, DirCellSafe
<1>8. SafeCell(index, DirCell(sub))
  BY <1>3, <1>5, InitDirectoryTableSafe, DirCellSafe DEF Reserved
<1>9. QueueSafe'
  <2>1. LET q == SaveOrder(p, fat', table') IN
          /\ Len(q) = 2
          /\ \A i \in 1 .. 2 : SafeCell(q[i].cluster, q[i].cell)
    BY <1>4, <1>7, SaveOrderSafe
  <2>2. /\ Item(index, DirCell(sub)).cluster = index
        /\ Item(index, DirCell(sub)).cell = DirCell(sub)
    BY DEF Item
  <2>3. queue' = Append(SaveOrder(p, fat', table'), Item(index, DirCell(sub)))
    BY DEF WriteFolder
  <2> QED
    BY <1>8, <2>1, <2>2, <2>3 DEF QueueSafe, SaveOrder
<1>10. pc' = "flush"
  BY DEF WriteFolder
<1>11. CallSafe' /\ FormatSafe'
  BY <1>6, <1>10
     DEF WriteFolder, WriteAccepted, SafeInv, CallSafe, FormatSafe, locals
<1>12. DiskSafe'
  BY <1>1, <1>10 DEF WriteFolder, SafeInv, DiskSafe
<1> QED
  BY <1>9, <1>11, <1>12 DEF SafeInv

LEMMA SafeDelete ==
  ASSUME SafeInv, TypeInv', NEW r \in FAT32DriverRequest,
         r.parent_cluster_number \in known,
         DeleteRefused(r) \/ Delete(r)
  PROVE  SafeInv'
<1> DEFINE p == r.parent_cluster_number
<1>1. p \in known
  OBVIOUS
<1>2. CASE DeleteRefused(r)
  BY <1>1, <1>2, AnswerSafe DEF DeleteRefused
<1>3. CASE Delete(r)
  <2>1. pc = "idle"
    BY <1>3 DEF Delete
  <2>2. PICK s \in Slots \ {0} :
          /\ cur' = Parent(r)[s].cluster
          /\ table' = [q \in Slots |-> IF q = s THEN ZeroEntry
                                                ELSE Parent(r)[q]]
    BY <1>3 DEF Delete, IsFirstDeletable, Deletable
  <2>3. /\ SafeTable(Parent(r))
        /\ p = ROOT_CLUSTER_NUMBER => IsRootTable(Parent(r))
        /\ p # FAT_CLUSTER_NUMBER
    BY <1>1, <2>1, ParentSafe
  <2>4. cur' \notin Reserved
    BY <2>2, <2>3 DEF SafeTable, Reserved
  <2>5. /\ SafeTable(table')
        /\ p = ROOT_CLUSTER_NUMBER => IsRootTable(table')
    BY <2>2, <2>3, EntriesSafe, ReservedFacts, ClusterFacts
       DEF SafeTable, IsRootTable
  <2>6. SafeCell(p, DirCell(table'))
    BY <2>3, <2>5, DirCellSafe
  <2>7. SafeMap(fat')
    BY <1>3, <2>1, LoadedFatSafe DEF Delete
  <2>8. CallSafe'
    BY <1>3, <2>4, <2>5, <2>6, <2>7 DEF Delete, SafeInv, CallSafe
  <2>9. DiskSafe' /\ FormatSafe' /\ QueueSafe'
    BY <1>3 DEF Delete, SafeInv, DiskSafe, FormatSafe, QueueSafe
  <2> QED
    BY <2>8, <2>9 DEF SafeInv
<1> QED
  BY <1>2, <1>3

LEMMA SafeWalk ==
  ASSUME SafeInv, TypeInv', WalkChain \/ EndOfChain
  PROVE  SafeInv'
<1> DEFINE p == req.parent_cluster_number
<1>1. /\ pc = "walk" /\ SafeMap(fat) /\ cur \notin Reserved
      /\ SafeTable(table) /\ SafeCell(p, DirCell(table))
  BY DEF WalkChain, EndOfChain, SafeInv, CallSafe
<1>2. SafeMap(SetLink(fat, cur, 0))
  BY <1>1, FreeLinkSafe
<1>3. CASE WalkChain
  <2>1. \A c \in Clusters : SafeCell(c, disk'[c])
    <3>1. SafeCell(cur, Blank)
      BY <1>1, BlankSafe
    <3>2. /\ disk \in [Clusters -> Cells]
          /\ \A c \in Clusters : SafeCell(c, disk[c])
      BY <1>1, UpSafe DEF SafeInv, TypeInv, TypeOK
    <3> QED
      BY <1>3, <3>1, <3>2, WriteSafe DEF WalkChain
  <2>2. DiskSafe'
    BY <2>1, UpDiskSafe DEF TypeInv, TypeOK
  <2>3. cur' \notin Reserved
    BY <1>1, <1>3, LinkSafe DEF WalkChain
  <2>4. CallSafe'
    BY <1>1, <1>2, <1>3, <2>3 DEF WalkChain, SafeInv, CallSafe
  <2>5. FormatSafe' /\ QueueSafe'
    BY <1>1, <1>3 DEF WalkChain, SafeInv, FormatSafe, QueueSafe
  <2> QED
    BY <2>2, <2>4, <2>5 DEF SafeInv
<1>4. CASE EndOfChain
  <2>1. QueueSafe'
    BY <1>1, <1>2, <1>4, SaveOrderSafe DEF EndOfChain, QueueSafe
  <2>2. DiskSafe'
    BY <1>1, <1>4 DEF EndOfChain, SafeInv, DiskSafe
  <2>3. CallSafe' /\ FormatSafe'
    BY <1>4 DEF EndOfChain, SafeInv, CallSafe, FormatSafe, locals
  <2> QED
    BY <2>1, <2>2, <2>3 DEF SafeInv
<1> QED
  BY <1>3, <1>4

LEMMA SafeReadDirectory ==
  ASSUME SafeInv, TypeInv', NEW r \in FAT32DriverRequest,
         r.parent_cluster_number \in known,
         ReadDirectory(r)
  PROVE  SafeInv'
BY AnswerSafe DEF ReadDirectory

\* A call that is cut off has a safe write under way: what is left of it is
\* safe, too.  A format that is cut off is the one exception.
LEMMA SafePowerLoss ==
  ASSUME SafeInv, TypeInv', PowerLoss, "format" \notin PowerFailsAt
  PROVE  SafeInv'
<1>1. pc \notin {"off", "format"}
  BY RequestAssumption DEF PowerLoss
<1>2. /\ disk \in [Clusters -> Cells]
      /\ \A c \in Clusters : SafeCell(c, disk[c])
  BY <1>1, UpSafe DEF SafeInv, TypeInv, TypeOK
<1>3. \A c \in Clusters : SafeCell(c, disk'[c])
  <2>1. CASE disk' = disk
    BY <1>2, <2>1
  <2>2. CASE /\ queue # <<>>
             /\ \E k \in 1 .. (Blocks - 1) :
                  disk' = WriteCluster(disk, Head(queue).cluster,
                                       Torn(disk[Head(queue).cluster],
                                            Head(queue).cell, k))
    <3> DEFINE h == Head(queue)
    <3>1. PICK k \in 1 .. (Blocks - 1) :
            disk' = WriteCluster(disk, h.cluster,
                                 Torn(disk[h.cluster], h.cell, k))
      BY <2>2
    <3>2. h \in Items
      BY <2>2, HeadTailProperties DEF SafeInv, TypeInv, TypeOK
    <3>3. SafeCell(h.cluster, h.cell)
      BY <2>2, TailSafe DEF SafeInv, TypeInv, TypeOK
    <3>4. /\ h.cluster \in Clusters /\ h.cell \in Cells
          /\ disk[h.cluster] \in Cells /\ SafeCell(h.cluster, disk[h.cluster])
      BY <1>2, <3>2 DEF Items
    <3>5. k \in Nat
      BY LayoutAssumption
    <3>6. SafeCell(h.cluster, Torn(disk[h.cluster], h.cell, k))
      BY <3>3, <3>4, <3>5, TornSafe
    <3> QED
      BY <1>2, <3>1, <3>6, WriteSafe
  <2> QED
    BY <2>1, <2>2 DEF PowerLoss, InterruptedWrite
<1>4. DiskSafe'
  BY <1>3, UpDiskSafe DEF TypeInv, TypeOK
<1>5. FormatSafe' /\ QueueSafe'
  BY EmptySeq DEF PowerLoss, FormatSafe, QueueSafe
<1>6. CallSafe'
  BY EntriesSafe, ReservedFacts DEF PowerLoss, CallSafe
<1> QED
  BY <1>4, <1>5, <1>6 DEF SafeInv

LEMMA SafeStep ==
  ASSUME SafeInv, [Next]_vars, "format" \notin PowerFailsAt
  PROVE  SafeInv'
<1>1. TypeInv'
  BY TypeStep DEF SafeInv
<1>2. CASE Call
  BY <1>1, <1>2, RequestTypes, RequestsFromKnown, SafeReadDirectory,
     SafeRead, SafeWriteRefused, SafeWriteFile, SafeWriteFolder, SafeDelete
     DEF Call, SafeInv, TypeInv
<1>3. CASE Kernel
  BY <1>1, <1>3, SafeBoot, SafeFollowChain, SafeAllocate, SafeDiskFull,
     SafeWalk, SafeFlushWrite, SafeReturn DEF Kernel
<1>4. CASE PowerLoss
  BY <1>1, <1>4, SafePowerLoss
<1>5. CASE UNCHANGED vars
  BY <1>1, <1>5
     DEF vars, locals, SafeInv, DiskSafe, FormatSafe, QueueSafe, CallSafe
<1> QED
  BY <1>2, <1>3, <1>4, <1>5 DEF Next

LEMMA SafeInvSuffices ==
  ASSUME SafeInv
  PROVE  ReservedClustersIntact
<1>1. ASSUME SafeCell(FAT_CLUSTER_NUMBER, disk[FAT_CLUSTER_NUMBER])
      PROVE  IsFat(disk[FAT_CLUSTER_NUMBER])
  BY <1>1 DEF SafeCell, IsFat, SafeMap
<1>2. ASSUME SafeCell(ROOT_CLUSTER_NUMBER, disk[ROOT_CLUSTER_NUMBER])
      PROVE  IsRoot(disk[ROOT_CLUSTER_NUMBER])
  BY <1>2 DEF SafeCell
<1>3. /\ disk[FAT_CLUSTER_NUMBER] = Blank
           \/ SafeCell(FAT_CLUSTER_NUMBER, disk[FAT_CLUSTER_NUMBER])
      /\ disk[ROOT_CLUSTER_NUMBER] = Blank
           \/ SafeCell(ROOT_CLUSTER_NUMBER, disk[ROOT_CLUSTER_NUMBER])
  BY ReservedFacts DEF SafeInv, DiskSafe, Reserved
<1>4. pc # "format" /\ disk[BOOT_SECTOR] = Signature =>
        /\ SafeCell(FAT_CLUSTER_NUMBER, disk[FAT_CLUSTER_NUMBER])
        /\ SafeCell(ROOT_CLUSTER_NUMBER, disk[ROOT_CLUSTER_NUMBER])
  BY DEF SafeInv, DiskSafe, Reserved
<1> QED
  BY <1>1, <1>2, <1>3, <1>4 DEF ReservedClustersIntact

\* On a machine that does not lose power while it formats the disk, whatever
\* callers do and wherever else the power goes, the calls of fat32.c never
\* overwrite the FAT or the root directory with anything but a FAT and a root
\* directory, and never hand their clusters out.
THEOREM ReservedClustersKept ==
  ASSUME "format" \notin PowerFailsAt
  PROVE  Spec => []ReservedClustersIntact
<1>1. Init => SafeInv
  BY SafeInit
<1>2. SafeInv /\ [Next]_vars => SafeInv'
  BY SafeStep
<1>3. SafeInv => ReservedClustersIntact
  BY SafeInvSuffices
<1> QED
  BY <1>1, <1>2, <1>3, PTL DEF Spec

-----------------------------------------------------------------------------
(***************************************************************************)
(* The cached FAT of the driver, for every size of disk and table and any  *)
(* number of calls and power losses: read, which never loads the FAT,      *)
(* follows the one on the disk.                                            *)
(*                                                                         *)
(* Between two calls the cached FAT is that of the disk, with one          *)
(* exception: create_fat32 leaves it empty.  Then the root directory has   *)
(* no file yet, and callers know no other directory, so that no read gets  *)
(* as far as the FAT; and every call that changes this loads it.           *)
(***************************************************************************)

Current == fat = AsFat(disk[FAT_CLUSTER_NUMBER])

\* The file system as create_fat32 leaves it.
Fresh ==
  /\ known = {ROOT_CLUSTER_NUMBER}
  /\ disk[ROOT_CLUSTER_NUMBER] = DirCell(RootTable)

\* Only the first of the writes outstanding goes to the FAT, if any does.
SavesFat ==
  \/ /\ Head(queue) = Item(FAT_CLUSTER_NUMBER, FatCell(fat))
     /\ \A k \in 2 .. Len(queue) : queue[k].cluster # FAT_CLUSTER_NUMBER
  \/ /\ Current
     /\ \A k \in 1 .. Len(queue) : queue[k].cluster # FAT_CLUSTER_NUMBER

CacheInv ==
  /\ pc \in {"off", "format"} => known = {ROOT_CLUSTER_NUMBER}
  /\ pc = "format" /\ Len(queue) = 1 =>
       disk[ROOT_CLUSTER_NUMBER] = DirCell(RootTable)
  /\ pc = "flush" => SavesFat
  /\ pc = "chain" => Current
  /\ pc = "idle" => Current \/ Fresh
  /\ pc = "return" => Current \/ (Fresh /\ table = RootTable)

\* The inductive invariant.
CachedInv == SafeInv /\ CacheInv

-----------------------------------------------------------------------------
\* The root directory of a fresh file system has no file, and no folder but
\* itself.
LEMMA FreshTable ==
  /\ AsTable(DirCell(RootTable)) = RootTable
  /\ \A s \in Slots : RootTable[s].filesize = 0
  /\ Subdirectories(RootTable) = {ROOT_CLUSTER_NUMBER}
<1>1. AsTable(DirCell(RootTable)) = RootTable
  BY CellKinds DEF AsTable
<1>2. /\ RootTable[0].attribute = ATTR_SUBDIRECTORY
      /\ RootTable[0].cluster = ROOT_CLUSTER_NUMBER
      /\ RootTable[0].filesize = 0
  BY ClusterFacts DEF RootTable, InitDirectoryTable, ZeroEntry
<1>3. \A s \in Slots \ {0} : /\ RootTable[s].attribute = Unset
                             /\ RootTable[s].filesize = 0
  BY DEF RootTable, InitDirectoryTable, ZeroEntry
<1>4. Unset # ATTR_SUBDIRECTORY
  BY DEF Unset, ATTR_SUBDIRECTORY
<1>5. Subdirectories(RootTable) = {ROOT_CLUSTER_NUMBER}
  BY <1>2, <1>3, <1>4, ClusterFacts, ReservedFacts DEF Subdirectories
<1>. QED  BY <1>1, <1>2, <1>3, <1>5

\* What every request finds in a fresh file system.
LEMMA FreshParent ==
  ASSUME Fresh, NEW r, r.parent_cluster_number \in known
  PROVE  Parent(r) = RootTable
BY FreshTable, ReservedFacts DEF Fresh, Parent, ReadCluster, Reserved

LEMMA CacheInit == Init => CacheInv
BY DEF Init, CacheInv

LEMMA CacheAnswer ==
  ASSUME CachedInv, NEW r, r.parent_cluster_number \in known, NEW c,
         Answer(r, c)
  PROVE  CacheInv'
<1>1. Current \/ Fresh
  BY DEF Answer, CachedInv, CacheInv
<1>2. Current => Current'
  BY DEF Answer, Current
<1>3. Fresh => Fresh' /\ table' = RootTable
  BY FreshParent DEF Answer, Fresh
<1>4. pc' = "return"
  BY DEF Answer
<1>. QED  BY <1>1, <1>2, <1>3, <1>4 DEF CacheInv

LEMMA CacheBoot ==
  ASSUME CachedInv, CreateFat32 \/ LoadFat
  PROVE  CacheInv'
<1>1. CASE CreateFat32
  <2>1. Len(queue') = 3 /\ pc' = "format" /\ known' = {ROOT_CLUSTER_NUMBER}
    BY <1>1 DEF CreateFat32, CachedInv, CacheInv
  <2>. QED  BY <2>1 DEF CacheInv
<1>2. CASE LoadFat
  <2>1. pc' = "idle" /\ Current'
    BY <1>2 DEF LoadFat, Current
  <2>. QED  BY <2>1 DEF CacheInv
<1>. QED  BY <1>1, <1>2

LEMMA CacheReturn ==
  ASSUME CachedInv, Return
  PROVE  CacheInv'
<1>1. pc = "return" /\ pc' = "idle"
  BY DEF Return
<1>2. CASE Current
  BY <1>1, <1>2 DEF Return, Current, CacheInv
<1>3. CASE Fresh /\ table = RootTable
  <2>1. known' = known
    BY <1>3, FreshTable DEF Return, Fresh
  <2>2. Fresh'
    BY <1>3, <2>1 DEF Return, Fresh
  <2>. QED  BY <1>1, <2>2 DEF CacheInv
<1>. QED  BY <1>1, <1>2, <1>3 DEF CachedInv, CacheInv

LEMMA CacheFlushWrite ==
  ASSUME CachedInv, FlushWrite
  PROVE  CacheInv'
<1>. DEFINE h == Head(queue)
<1>1. queue \in Seq(Items) /\ queue # <<>>
  BY DEF FlushWrite, CachedInv, SafeInv, TypeInv, TypeOK, QueueOK
<1>2. /\ Len(queue) \in Nat /\ Len(queue) > 0 /\ h = queue[1]
      /\ queue' = Tail(queue)
      /\ Len(Tail(queue)) = Len(queue) - 1
      /\ \A i \in 1 .. Len(Tail(queue)) : Tail(queue)[i] = queue[i + 1]
  BY <1>1, EmptySeq, LenProperties, HeadTailProperties DEF FlushWrite
<1>3. \A c \in Clusters : disk'[c] = IF c = h.cluster THEN h.cell ELSE disk[c]
  BY DEF FlushWrite, WriteCluster
<1>4. fat' = fat /\ known' = known
  BY DEF FlushWrite
<1>5. FAT_CLUSTER_NUMBER \in Clusters /\ ROOT_CLUSTER_NUMBER \in Clusters
  BY ReservedFacts DEF Reserved
<1>6. CASE pc = "format"
  <2>1. /\ known' = {ROOT_CLUSTER_NUMBER}
        /\ pc' = IF Len(queue) > 1 THEN "format" ELSE "idle"
    BY <1>4, <1>6 DEF FlushWrite, CachedInv, CacheInv
  <2>2. Len(FormatWrites) = 3 /\ Len(Tail(FormatWrites)) = 2
    BY DEF FormatWrites
  <2>3. CASE queue = FormatWrites
    <3>1. pc' = "format" /\ Len(queue') = 2
      BY <1>2, <2>1, <2>2, <2>3
    <3>. QED  BY <2>1, <3>1 DEF CacheInv
  <2>4. CASE queue = Tail(FormatWrites)
    <3>1. h = Item(ROOT_CLUSTER_NUMBER, DirCell(RootTable))
      BY <2>4 DEF FormatWrites
    <3>2. disk'[ROOT_CLUSTER_NUMBER] = DirCell(RootTable)
      BY <1>3, <1>5, <3>1 DEF Item
    <3>3. pc' = "format"
      BY <2>1, <2>2, <2>4
    <3>. QED  BY <2>1, <3>2, <3>3 DEF CacheInv
  <2>5. CASE queue = Tail(Tail(FormatWrites))
    <3>1. /\ Len(queue) = 1
          /\ h = Item(FAT_CLUSTER_NUMBER, FatCell(FormattedMap))
      BY <2>5 DEF FormatWrites
    <3>2. disk[ROOT_CLUSTER_NUMBER] = DirCell(RootTable)
      BY <1>6, <3>1 DEF CachedInv, CacheInv
    <3>3. disk'[ROOT_CLUSTER_NUMBER] = DirCell(RootTable)
      BY <1>3, <1>5, <3>1, <3>2, ReservedFacts DEF Item
    <3>4. pc' = "idle" /\ Fresh'
      BY <2>1, <3>1, <3>3 DEF Fresh
    <3>. QED  BY <3>4 DEF CacheInv
  <2>. QED  BY <1>6, <2>3, <2>4, <2>5 DEF CachedInv, SafeInv, FormatSafe
<1>7. CASE pc = "flush"
  <2>1. pc' \in {"flush", "return"} /\ SavesFat
    BY <1>7 DEF FlushWrite, CachedInv, CacheInv
  <2>2. Current'
    <3>1. CASE h = Item(FAT_CLUSTER_NUMBER, FatCell(fat))
      BY <1>3, <1>4, <1>5, <3>1, CellKinds DEF Item, Current, AsFat
    <3>2. CASE Current /\ \A k \in 1 .. Len(queue) :
                            queue[k].cluster # FAT_CLUSTER_NUMBER
      <4>1. h.cluster # FAT_CLUSTER_NUMBER
        BY <1>2, <3>2
      <4>. QED  BY <1>3, <1>4, <1>5, <3>2, <4>1 DEF Current
    <3>. QED  BY <2>1, <3>1, <3>2 DEF SavesFat
  <2>3. \A k \in 1 .. Len(queue') : queue'[k].cluster # FAT_CLUSTER_NUMBER
    <3>1. \A k \in 2 .. Len(queue) : queue[k].cluster # FAT_CLUSTER_NUMBER
      BY <2>1, <1>2 DEF SavesFat
    <3>2. \A k \in 1 .. Len(queue') :
            k + 1 \in 2 .. Len(queue) /\ queue'[k] = queue[k + 1]
      BY <1>2
    <3>. QED  BY <3>1, <3>2
  <2>. QED  BY <2>1, <2>2, <2>3 DEF CacheInv, SavesFat
<1>. QED  BY <1>6, <1>7 DEF FlushWrite

LEMMA CacheRead ==
  ASSUME CachedInv, NEW r \in ReadRequests,
         ReadNotFound(r) \/ ReadNothing(r) \/ ReadFile(r)
  PROVE  CacheInv'
<1>1. r.parent_cluster_number \in known
  BY RequestsFromKnown
<1>2. CASE ReadNotFound(r)
  BY <1>1, <1>2, CacheAnswer DEF ReadNotFound
<1>3. CASE ReadNothing(r)
  BY <1>1, <1>3, CacheAnswer DEF ReadNothing
<1>4. CASE ReadFile(r)
  <2>1. ~Fresh
    <3>1. PICK s \in Slots : Parent(r)[s].filesize > 0
      BY <1>4 DEF ReadFile
    <3>2. SUFFICES ASSUME Fresh PROVE FALSE
      OBVIOUS
    <3>3. Parent(r)[s].filesize = 0
      BY <1>1, <3>2, FreshParent, FreshTable
    <3>. QED  BY <3>1, <3>3
  <2>2. pc' = "chain" /\ Current'
    BY <1>4, <2>1 DEF ReadFile, CachedInv, CacheInv, Current
  <2>. QED  BY <2>2 DEF CacheInv
<1>. QED  BY <1>2, <1>3, <1>4

LEMMA CacheFollowChain ==
  ASSUME CachedInv, FollowChain
  PROVE  CacheInv'
<1>1. pc' \in {"chain", "return"} /\ Current'
  BY DEF FollowChain, CachedInv, CacheInv, Current
<1>. QED  BY <1>1 DEF CacheInv

\* The two writes that save a directory: the FAT in memory comes first.
LEMMA CacheSaveOrder ==
  ASSUME NEW p, p # FAT_CLUSTER_NUMBER, NEW t,
         \/ queue' = SaveOrder(p, fat', t)
         \/ \E item : /\ item.cluster # FAT_CLUSTER_NUMBER
                      /\ queue' = Append(SaveOrder(p, fat', t), item)
  PROVE  SavesFat'
<1>. DEFINE f == Item(FAT_CLUSTER_NUMBER, FatCell(fat'))
            d == Item(p, DirCell(t))
<1>1. d.cluster = p
  BY DEF Item
<1>2. CASE queue' = SaveOrder(p, fat', t)
  <2>1. queue' = <<f, d>>
    BY <1>2 DEF SaveOrder
  <2>. HIDE DEF f, d
  <2>2. Len(queue') = 2 /\ Head(queue') = f /\ queue'[2] = d
    BY <2>1
  <2>3. \A k \in 2 .. Len(queue') : queue'[k].cluster # FAT_CLUSTER_NUMBER
    BY <1>1, <2>2
  <2>. QED  BY <2>2, <2>3 DEF SavesFat, f
<1>3. CASE \E item : /\ item.cluster # FAT_CLUSTER_NUMBER
                     /\ queue' = Append(SaveOrder(p, fat', t), item)
  <2>1. PICK item : /\ item.cluster # FAT_CLUSTER_NUMBER
                    /\ queue' = Append(SaveOrder(p, fat', t), item)
    BY <1>3
  <2>2. queue' = Append(<<f, d>>, item)
    BY <2>1 DEF SaveOrder
  <2>. HIDE DEF f, d
  <2>3. /\ Len(queue') = 3 /\ Head(queue') = f
        /\ queue'[2] = d /\ queue'[3] = item
    BY <2>2
  <2>4. \A k \in 2 .. Len(queue') : queue'[k].cluster # FAT_CLUSTER_NUMBER
    BY <1>1, <2>1, <2>3
  <2>. QED  BY <2>3, <2>4 DEF SavesFat, f
<1>. QED  BY <1>2, <1>3

\* The directory of a call that allocates or frees is not cluster 1.
LEMMA CallParent ==
  ASSUME SafeInv, pc \in {"alloc", "walk"}
  PROVE  req.parent_cluster_number # FAT_CLUSTER_NUMBER
BY CellKinds DEF SafeInv, CallSafe, SafeCell

LEMMA CacheSaves ==
  ASSUME pc' = "flush", SavesFat'
  PROVE  CacheInv'
BY DEF CacheInv

LEMMA CacheAllocate ==
  ASSUME CachedInv, NEW i \in Clusters,
         AllocateCluster(i) \/ AllocateLastCluster(i)
  PROVE  CacheInv'
<1>1. CASE AllocateCluster(i)
  BY <1>1 DEF AllocateCluster, PlaceData, CacheInv
<1>2. CASE AllocateLastCluster(i)
  <2>1. req.parent_cluster_number # FAT_CLUSTER_NUMBER
    BY <1>2, CallParent DEF CachedInv, AllocateLastCluster, PlaceData
  <2>2. /\ pc' = "flush"
        /\ queue' = SaveOrder(req.parent_cluster_number, fat', table')
    BY <1>2 DEF AllocateLastCluster, SaveFile
  <2>. QED  BY <2>1, <2>2, CacheSaveOrder, CacheSaves
<1>. QED  BY <1>1, <1>2

LEMMA CacheDiskFull ==
  ASSUME CachedInv, DiskFull
  PROVE  CacheInv'
<1>1. req.parent_cluster_number # FAT_CLUSTER_NUMBER
  BY CallParent DEF CachedInv, DiskFull
<1>2. /\ pc' = "flush"
      /\ queue' = SaveOrder(req.parent_cluster_number, fat', table')
  BY DEF DiskFull, SaveFile
<1>. QED  BY <1>1, <1>2, CacheSaveOrder, CacheSaves

LEMMA CacheWriteFolder ==
  ASSUME CachedInv, NEW r \in FolderRequests, NEW index \in Clusters,
         WriteFolder(r, index)
  PROVE  CacheInv'
<1>. DEFINE p == r.parent_cluster_number
            sub == DirCell(InitDirectoryTable(r.name, p))
<1>1. p \in known /\ pc = "idle"
  BY RequestsFromKnown DEF WriteFolder, WriteAccepted
<1>2. p # FAT_CLUSTER_NUMBER
  BY <1>1, ParentSafe DEF CachedInv
<1>3. index # FAT_CLUSTER_NUMBER
  <2>1. SafeMap(AsFat(disk[FAT_CLUSTER_NUMBER]))
    BY <1>1, LoadedFatSafe DEF CachedInv
  <2>. QED  BY <2>1, FirstFreeSafe, ReservedFacts DEF WriteFolder, Reserved
<1>4. /\ pc' = "flush"
      /\ queue' = Append(SaveOrder(p, fat', table'), Item(index, sub))
      /\ Item(index, sub).cluster = index
  BY DEF WriteFolder, Item
<1>5. SavesFat'
  BY <1>2, <1>3, <1>4, CacheSaveOrder
<1>. QED  BY <1>4, <1>5, CacheSaves

LEMMA CacheDelete ==
  ASSUME CachedInv, NEW r \in DeleteRequests, DeleteRefused(r) \/ Delete(r)
  PROVE  CacheInv'
<1>1. r.parent_cluster_number \in known
  BY RequestsFromKnown
<1>2. CASE DeleteRefused(r)
  BY <1>1, <1>2, CacheAnswer DEF DeleteRefused
<1>3. CASE Delete(r)
  BY <1>3 DEF Delete, CacheInv
<1>. QED  BY <1>2, <1>3

LEMMA CacheWalk ==
  ASSUME CachedInv, WalkChain \/ EndOfChain
  PROVE  CacheInv'
<1>1. CASE WalkChain
  BY <1>1 DEF WalkChain, CacheInv
<1>2. CASE EndOfChain
  <2>1. req.parent_cluster_number # FAT_CLUSTER_NUMBER
    BY <1>2, CallParent DEF CachedInv, EndOfChain
  <2>2. /\ pc' = "flush"
        /\ queue' = SaveOrder(req.parent_cluster_number, fat', table)
    BY <1>2 DEF EndOfChain
  <2>. QED  BY <2>1, <2>2, CacheSaveOrder, CacheSaves
<1>. QED  BY <1>1, <1>2

LEMMA CacheCall ==
  ASSUME CachedInv, Call
  PROVE  CacheInv'
<1>1. CASE \E r \in ListingRequests : ReadDirectory(r)
  BY <1>1, RequestsFromKnown, CacheAnswer DEF ReadDirectory
<1>2. CASE \E r \in FolderRequests \cup FileRequests : WriteRefused(r)
  BY <1>2, RequestsFromKnown, CacheAnswer DEF WriteRefused
<1>3. CASE \E r \in FileRequests : WriteFile(r)
  BY <1>3 DEF WriteFile, CacheInv
<1>. QED  BY <1>1, <1>2, <1>3, CacheRead, CacheWriteFolder, CacheDelete DEF Call

LEMMA CacheStep ==
  ASSUME CachedInv, [Next]_vars
  PROVE  CacheInv'
<1>1. CASE Kernel
  BY <1>1, CacheBoot, CacheFollowChain, CacheAllocate, CacheDiskFull, CacheWalk,
     CacheFlushWrite, CacheReturn DEF Kernel
<1>2. CASE PowerLoss
  BY <1>2 DEF PowerLoss, CacheInv
<1>3. CASE UNCHANGED vars
  BY <1>3 DEF vars, locals, CachedInv, CacheInv, Current, Fresh, SavesFat
<1>. QED  BY <1>1, <1>2, <1>3, CacheCall DEF Next

\* If power does not fail during the format, read never walks a chain by a
\* stale FAT, although it is the one operation of fat32.c that does not load
\* it, and create_fat32 leaves it empty in memory (fat32.c:36-49, 130).
THEOREM ChainsFollowTheDisk ==
  ASSUME "format" \notin PowerFailsAt
  PROVE  Spec => []ChainWalksUseCurrentFat
<1>1. Init => CachedInv
  BY SafeInit, CacheInit DEF CachedInv
<1>2. CachedInv /\ [Next]_vars => CachedInv'
  BY SafeStep, CacheStep DEF CachedInv
<1>3. CachedInv => ChainWalksUseCurrentFat
  BY DEF CachedInv, CacheInv, Current, ChainWalksUseCurrentFat
<1>. QED  BY <1>1, <1>2, <1>3, PTL DEF Spec

-----------------------------------------------------------------------------
(***************************************************************************)
(* What the directory tables on the disk list, for every size of disk and  *)
(* table, every set of names and any number of calls and power losses: no  *)
(* name twice, and no folder whose cluster the FAT on the disk has free.   *)
(***************************************************************************)

-----------------------------------------------------------------------------
(* Names. *)

Unique(t) ==
  \A s, q \in Slots : s # q /\ t[s].name # NoName =>
    t[s].name # t[q].name \/ t[s].ext # t[q].ext

UniqueCell(cell) == cell.kind = "dir" => Unique(cell.entries)

\* What a write may put into a directory without making it ambiguous.
Accepts(t, r) == Unique(t) /\ ~Duplicate(t, r)

\* The inductive invariant: whatever table is on its way to the disk is
\* unique, and a file finds its place in one that does not have its name.
UniqueInv ==
  /\ NamesUnique
  /\ \A k \in 1 .. Len(queue) : UniqueCell(queue[k].cell)
  /\ pc \notin {"format", "flush"} => queue = <<>>
  /\ pc = "alloc" => Accepts(table, req)
  /\ pc = "walk" => Unique(table)

\* Power is not lost in the middle of a directory write.
WholeWrites == Blocks = 1 \/ PowerFailsAt \cap {"format", "flush"} = {}

NamedAs(t, u) == \A s \in Slots : u[s].name = t[s].name /\ u[s].ext = t[s].ext

LEMMA NamesUniqueCells ==
  NamesUnique <=> \A c \in Clusters : UniqueCell(disk[c])
BY DEF NamesUnique, UniqueCell, Unique

LEMMA NamedAsAccepts ==
  ASSUME NEW t, NEW u, NamedAs(t, u), NEW r, Accepts(t, r)
  PROVE  Accepts(u, r)
BY DEF NamedAs, Accepts, Unique, Duplicate

LEMMA MarkNamedAs ==
  ASSUME NEW t \in FAT32DirectoryTable, NEW p
  PROVE  NamedAs(t, MarkNotEmpty(t, p))
<1>1. ASSUME NEW e \in FAT32DirectoryEntry
      PROVE  LET f == [e EXCEPT !.user_attribute = UATTR_NOT_EMPTY] IN
               f.name = e.name /\ f.ext = e.ext
  BY <1>1 DEF FAT32DirectoryEntry
<1>2. \A s \in Slots : t[s] \in FAT32DirectoryEntry
  BY DEF FAT32DirectoryTable
<1>. QED  BY <1>1, <1>2 DEF NamedAs, MarkNotEmpty

LEMMA StoreUnique ==
  ASSUME NEW t, NEW r, Accepts(t, r), NEW e, e.name = r.name, e.ext = r.ext
  PROVE  Unique(StoreEntry(t, e))
<1>. DEFINE u == StoreEntry(t, e)
<1>1. \A s \in Slots : u[s] = IF IsFirstUnused(t, s) THEN e ELSE t[s]
  BY DEF StoreEntry
<1>2. \A s, q \in Slots : IsFirstUnused(t, s) /\ IsFirstUnused(t, q) => s = q
  BY ClusterFacts DEF IsFirstUnused
<1>. HIDE DEF u
<1>3. ASSUME NEW s \in Slots, NEW q \in Slots, s # q, u[s].name # NoName
      PROVE  u[s].name # u[q].name \/ u[s].ext # u[q].ext
  <2>1. CASE IsFirstUnused(t, s)
    <3>1. u[s] = e /\ u[q] = t[q]
      BY <1>1, <1>2, <1>3, <2>1
    <3>. QED  BY <3>1 DEF Accepts, Duplicate
  <2>2. CASE IsFirstUnused(t, q)
    <3>1. u[q] = e /\ u[s] = t[s]
      BY <1>1, <1>2, <1>3, <2>2
    <3>. QED  BY <3>1 DEF Accepts, Duplicate
  <2>3. CASE ~IsFirstUnused(t, s) /\ ~IsFirstUnused(t, q)
    <3>1. u[s] = t[s] /\ u[q] = t[q]
      BY <1>1, <2>3
    <3>. QED  BY <1>3, <3>1 DEF Accepts, Unique
  <2>. QED  BY <2>1, <2>2, <2>3
<1>. QED  BY <1>3 DEF Unique, u

LEMMA ZeroUnique ==
  ASSUME NEW t, Unique(t), NEW x
  PROVE  Unique([q \in Slots |-> IF q = x THEN ZeroEntry ELSE t[q]])
BY DEF Unique, ZeroEntry

LEMMA InitUnique ==
  ASSUME NEW n, NEW p
  PROVE  Unique(InitDirectoryTable(n, p))
<1>1. \A s \in Slots \ {0} : InitDirectoryTable(n, p)[s].name = NoName
  BY DEF InitDirectoryTable, ZeroEntry
<1>. QED  BY <1>1 DEF Unique

\* A cluster that reads as a directory is one.
LEMMA DirectoryKind ==
  ASSUME NEW cell, AsTable(cell)[0].attribute = ATTR_SUBDIRECTORY
  PROVE  cell.kind = "dir" /\ AsTable(cell) = cell.entries
<1>1. /\ ZeroTable[0].attribute # ATTR_SUBDIRECTORY
      /\ JunkTable[0].attribute # ATTR_SUBDIRECTORY
  BY ClusterFacts
     DEF ZeroTable, JunkTable, ZeroEntry, Unset, ATTR_SUBDIRECTORY
<1>. QED  BY <1>1 DEF AsTable

LEMMA ParentUnique ==
  ASSUME TypeInv, UniqueInv, NEW r, r.parent_cluster_number \in Clusters,
         Parent(r)[0].attribute = ATTR_SUBDIRECTORY
  PROVE  Unique(Parent(r))
<1>1. Parent(r) = AsTable(disk[r.parent_cluster_number])
  BY DEF Parent, ReadCluster
<1>2. UniqueCell(disk[r.parent_cluster_number])
  BY NamesUniqueCells DEF UniqueInv
<1>. QED  BY <1>1, <1>2, DirectoryKind DEF UniqueCell

LEMMA UniqueCells ==
  /\ UniqueCell(Blank) /\ UniqueCell(Signature)
  /\ \A m : UniqueCell(FatCell(m))
  /\ \A n, e, p : UniqueCell(DataCell(n, e, p))
  /\ \A t : UniqueCell(DirCell(t)) <=> Unique(t)
BY CellKinds DEF UniqueCell

LEMMA WriteUnique ==
  ASSUME NamesUnique, NEW c, NEW cell, UniqueCell(cell),
         disk' = WriteCluster(disk, c, cell)
  PROVE  NamesUnique'
<1>1. \A x \in Clusters : UniqueCell(disk'[x])
  BY NamesUniqueCells DEF WriteCluster
<1>. QED  BY <1>1 DEF NamesUnique, UniqueCell, Unique

LEMMA DiskKeptUnique ==
  ASSUME NamesUnique, disk' = disk
  PROVE  NamesUnique'
BY DEF NamesUnique

LEMMA SaveOrderUnique ==
  ASSUME NEW p, NEW m, NEW t, Unique(t)
  PROVE  /\ \A k \in 1 .. Len(SaveOrder(p, m, t)) :
              UniqueCell(SaveOrder(p, m, t)[k].cell)
         /\ \A item : UniqueCell(item.cell) =>
              LET q == Append(SaveOrder(p, m, t), item) IN
                \A k \in 1 .. Len(q) : UniqueCell(q[k].cell)
<1>. DEFINE f == Item(FAT_CLUSTER_NUMBER, FatCell(m))
            d == Item(p, DirCell(t))
<1>1. UniqueCell(f.cell) /\ UniqueCell(d.cell)
  BY UniqueCells DEF Item
<1>2. SaveOrder(p, m, t) = <<f, d>>
  BY DEF SaveOrder
<1>. HIDE DEF f, d
<1>. QED  BY <1>1, <1>2

-----------------------------------------------------------------------------
(* The steps. *)

LEMMA UniqueInit ==
  ASSUME Init
  PROVE  UniqueInv
<1>1. \A c \in Clusters : disk[c] = Blank
  BY DEF Init
<1>2. NamesUnique
  BY <1>1, NamesUniqueCells, UniqueCells
<1>. QED  BY <1>2 DEF Init, UniqueInv

\* Steps that leave the disk and the writes outstanding alone.
LEMMA UniqueQuiet ==
  ASSUME UniqueInv, disk' = disk, queue' = queue,
         pc \notin {"format", "flush"}, pc' \notin {"alloc", "walk"}
  PROVE  UniqueInv'
BY DiskKeptUnique DEF UniqueInv

LEMMA UniqueFlushWrite ==
  ASSUME TypeInv, UniqueInv, FlushWrite
  PROVE  UniqueInv'
<1>1. queue \in Seq(Items) /\ queue # <<>>
  BY DEF FlushWrite, TypeInv, TypeOK, QueueOK
<1>2. /\ Len(queue) \in Nat /\ Len(queue) > 0 /\ Head(queue) = queue[1]
      /\ queue' = Tail(queue)
      /\ Len(Tail(queue)) = Len(queue) - 1
      /\ Tail(queue) \in Seq(Items)
      /\ \A i \in 1 .. Len(Tail(queue)) : Tail(queue)[i] = queue[i + 1]
  BY <1>1, EmptySeq, LenProperties, HeadTailProperties DEF FlushWrite
<1>3. UniqueCell(Head(queue).cell)
  BY <1>2 DEF UniqueInv
<1>4. NamesUnique'
  BY <1>3, WriteUnique DEF FlushWrite, UniqueInv
<1>5. \A k \in 1 .. Len(queue') : UniqueCell(queue'[k].cell)
  BY <1>2 DEF UniqueInv
<1>6. /\ pc' \notin {"alloc", "walk"}
      /\ pc' \notin {"format", "flush"} => queue' = <<>>
  BY <1>2, EmptySeq DEF FlushWrite
<1>. QED  BY <1>4, <1>5, <1>6 DEF UniqueInv

\* What a write that is accepted works on.
LEMMA UniqueAccepted ==
  ASSUME TypeInv, UniqueInv, NEW r \in FolderRequests \cup FileRequests,
         WriteAccepted(r)
  PROVE  /\ pc = "idle" /\ req' = r /\ queue = <<>>
         /\ Accepts(MarkNotEmpty(Parent(r), r.parent_cluster_number), r)
<1>1. /\ pc = "idle" /\ req' = r /\ ~Duplicate(Parent(r), r)
      /\ Parent(r)[0].attribute = ATTR_SUBDIRECTORY
  BY DEF WriteAccepted
<1>2. r.parent_cluster_number \in Clusters
  BY RequestTypes DEF TypeInv, FAT32DriverRequest
<1>3. Accepts(Parent(r), r)
  BY <1>1, <1>2, ParentUnique DEF Accepts
<1>4. NamedAs(Parent(r), MarkNotEmpty(Parent(r), r.parent_cluster_number))
  BY ParentType, MarkNamedAs DEF TypeInv
<1>. QED  BY <1>1, <1>3, <1>4, NamedAsAccepts DEF UniqueInv

LEMMA UniqueWriteFile ==
  ASSUME TypeInv, UniqueInv, NEW r \in FileRequests, WriteFile(r)
  PROVE  UniqueInv'
<1>1. /\ queue = <<>> /\ req' = r
      /\ Accepts(MarkNotEmpty(Parent(r), r.parent_cluster_number), r)
  BY UniqueAccepted DEF WriteFile
<1>2. /\ pc' = "alloc" /\ disk' = disk /\ queue' = queue
      /\ table' = MarkNotEmpty(Parent(r), r.parent_cluster_number)
  BY DEF WriteFile
<1>. QED  BY <1>1, <1>2, DiskKeptUnique DEF UniqueInv

LEMMA UniqueWriteFolder ==
  ASSUME TypeInv, UniqueInv, FolderExts \subseteq {NoExt},
         NEW r \in FolderRequests, NEW index \in Clusters, WriteFolder(r, index)
  PROVE  UniqueInv'
<1>. DEFINE p == r.parent_cluster_number
            e == FolderEntry(r, index)
            sub == InitDirectoryTable(r.name, p)
<1>1. Accepts(MarkNotEmpty(Parent(r), p), r)
  BY UniqueAccepted DEF WriteFolder
<1>2. /\ pc' = "flush" /\ disk' = disk
      /\ table' = StoreEntry(MarkNotEmpty(Parent(r), p), e)
      /\ queue' = Append(SaveOrder(p, fat', table'), Item(index, DirCell(sub)))
  BY DEF WriteFolder
<1>3. e.name = r.name /\ e.ext = r.ext
  BY DEF FolderRequests, Request, FolderEntry
<1>4. Unique(table')
  BY <1>1, <1>2, <1>3, StoreUnique
<1>5. UniqueCell(Item(index, DirCell(sub)).cell)
  BY InitUnique, UniqueCells DEF Item
<1>. HIDE DEF p, e, sub
<1>6. \A k \in 1 .. Len(queue') : UniqueCell(queue'[k].cell)
  BY <1>2, <1>4, <1>5, SaveOrderUnique
<1>. QED  BY <1>2, <1>6, DiskKeptUnique DEF UniqueInv

LEMMA UniqueSaveFile ==
  ASSUME UniqueInv, pc = "alloc", NamesUnique',
         NEW m, NEW start, NEW size, SaveFile(m, start, size)
  PROVE  UniqueInv'
<1>. DEFINE e == FileEntry(req, start, size)
<1>1. /\ pc' = "flush" /\ table' = StoreEntry(table, e)
      /\ queue' = SaveOrder(req.parent_cluster_number, m, table')
  BY DEF SaveFile
<1>2. e.name = req.name /\ e.ext = req.ext
  BY DEF FileEntry
<1>. HIDE DEF e
<1>3. Unique(table')
  BY <1>1, <1>2, StoreUnique DEF UniqueInv
<1>4. \A k \in 1 .. Len(queue') : UniqueCell(queue'[k].cell)
  BY <1>1, <1>3, SaveOrderUnique
<1>. QED  BY <1>1, <1>4 DEF UniqueInv

LEMMA UniqueAllocate ==
  ASSUME UniqueInv, NEW i \in Clusters,
         AllocateCluster(i) \/ AllocateLastCluster(i)
  PROVE  UniqueInv'
<1>1. /\ pc = "alloc"
      /\ disk' = WriteCluster(disk, i, DataCell(req.name, req.ext, counter))
  BY DEF AllocateCluster, AllocateLastCluster, PlaceData
<1>2. NamesUnique'
  BY <1>1, WriteUnique, UniqueCells DEF UniqueInv
<1>3. CASE AllocateCluster(i)
  <2>1. pc' = pc /\ req' = req /\ table' = table /\ queue' = queue
    BY <1>3 DEF AllocateCluster
  <2>. QED  BY <1>1, <1>2, <2>1 DEF UniqueInv
<1>4. CASE AllocateLastCluster(i)
  BY <1>1, <1>2, <1>4, UniqueSaveFile DEF AllocateLastCluster
<1>. QED  BY <1>3, <1>4

LEMMA UniqueDiskFull ==
  ASSUME UniqueInv, DiskFull
  PROVE  UniqueInv'
<1>1. pc = "alloc" /\ NamesUnique'
  BY DiskKeptUnique DEF DiskFull, UniqueInv
<1>. QED  BY <1>1, UniqueSaveFile DEF DiskFull

LEMMA UniqueDelete ==
  ASSUME TypeInv, UniqueInv, NEW r \in DeleteRequests, Delete(r)
  PROVE  UniqueInv'
<1>1. r.parent_cluster_number \in Clusters
  BY RequestTypes DEF TypeInv, FAT32DriverRequest
<1>2. Unique(Parent(r))
  BY <1>1, ParentUnique DEF Delete
<1>3. PICK s \in Slots :
        table' = [q \in Slots |-> IF q = s THEN ZeroEntry ELSE Parent(r)[q]]
  BY DEF Delete, IsFirstDeletable, Deletable
<1>4. Unique(table')
  BY <1>2, <1>3, ZeroUnique
<1>5. pc = "idle" /\ pc' = "walk" /\ disk' = disk /\ queue' = queue
  BY DEF Delete
<1>. QED  BY <1>4, <1>5, DiskKeptUnique DEF UniqueInv

LEMMA UniqueWalk ==
  ASSUME UniqueInv, WalkChain \/ EndOfChain
  PROVE  UniqueInv'
<1>1. pc = "walk" /\ table' = table /\ Unique(table)
  BY DEF WalkChain, EndOfChain, UniqueInv
<1>2. CASE WalkChain
  <2>1. pc' = pc /\ queue' = queue /\ disk' = WriteCluster(disk, cur, Blank)
    BY <1>2 DEF WalkChain
  <2>2. NamesUnique'
    BY <2>1, WriteUnique, UniqueCells DEF UniqueInv
  <2>. QED  BY <1>1, <2>1, <2>2 DEF UniqueInv
<1>3. CASE EndOfChain
  <2>1. /\ pc' = "flush" /\ disk' = disk
        /\ queue' = SaveOrder(req.parent_cluster_number, fat', table)
    BY <1>3 DEF EndOfChain
  <2>2. \A k \in 1 .. Len(queue') : UniqueCell(queue'[k].cell)
    BY <1>1, <2>1, SaveOrderUnique
  <2>. QED  BY <2>1, <2>2, DiskKeptUnique DEF UniqueInv
<1>. QED  BY <1>2, <1>3

LEMMA UniqueCreate ==
  ASSUME UniqueInv, CreateFat32
  PROVE  UniqueInv'
<1>1. pc' = "format" /\ disk' = disk /\ queue' = FormatWrites
  BY DEF CreateFat32, FormatWrites
<1>2. UniqueCell(DirCell(RootTable))
  BY InitUnique, UniqueCells DEF RootTable
<1>3. \A k \in 1 .. Len(FormatWrites) : UniqueCell(FormatWrites[k].cell)
  BY <1>2, UniqueCells DEF FormatWrites, Item
<1>. QED  BY <1>1, <1>3, DiskKeptUnique DEF UniqueInv

LEMMA UniquePowerLoss ==
  ASSUME UniqueInv, WholeWrites, PowerLoss
  PROVE  UniqueInv'
<1>1. pc \in PowerFailsAt /\ pc' = "off" /\ queue' = <<>>
      /\ disk' \in InterruptedWrite
  BY DEF PowerLoss
<1>2. disk' = disk
  <2>1. CASE Blocks = 1
    BY <1>1, <2>1 DEF InterruptedWrite
  <2>2. CASE PowerFailsAt \cap {"format", "flush"} = {}
    BY <1>1, <2>2 DEF InterruptedWrite, UniqueInv
  <2>. QED  BY <2>1, <2>2 DEF WholeWrites
<1>. QED  BY <1>1, <1>2, DiskKeptUnique DEF UniqueInv

LEMMA UniqueCall ==
  ASSUME TypeInv, UniqueInv, FolderExts \subseteq {NoExt}, Call
  PROVE  UniqueInv'
<1>1. ASSUME NEW r, NEW c, Answer(r, c) PROVE UniqueInv'
  BY <1>1, UniqueQuiet DEF Answer
<1>2. ASSUME NEW r, ReadFile(r) PROVE UniqueInv'
  BY <1>2, UniqueQuiet DEF ReadFile
<1>3. CASE \E r \in ListingRequests : ReadDirectory(r)
  BY <1>1, <1>3 DEF ReadDirectory
<1>4. CASE \E r \in ReadRequests :
             ReadNotFound(r) \/ ReadNothing(r) \/ ReadFile(r)
  BY <1>1, <1>2, <1>4 DEF ReadNotFound, ReadNothing
<1>5. CASE \E r \in FolderRequests \cup FileRequests : WriteRefused(r)
  BY <1>1, <1>5 DEF WriteRefused
<1>6. CASE \E r \in DeleteRequests : DeleteRefused(r) \/ Delete(r)
  BY <1>1, <1>6, UniqueDelete DEF DeleteRefused
<1>. QED
  BY <1>3, <1>4, <1>5, <1>6, UniqueWriteFile, UniqueWriteFolder DEF Call

LEMMA UniqueStep ==
  ASSUME TypeInv, UniqueInv, FolderExts \subseteq {NoExt}, WholeWrites,
         [Next]_vars
  PROVE  UniqueInv'
<1>1. CASE LoadFat \/ FollowChain \/ Return
  BY <1>1, UniqueQuiet DEF LoadFat, FollowChain, Return
<1>2. CASE Kernel
  BY <1>1, <1>2, UniqueCreate, UniqueAllocate, UniqueDiskFull, UniqueWalk,
     UniqueFlushWrite DEF Kernel
<1>3. CASE UNCHANGED vars
  <2>1. /\ disk' = disk /\ queue' = queue /\ pc' = pc /\ table' = table
        /\ req' = req
    BY <1>3 DEF vars
  <2>. QED  BY <2>1, DiskKeptUnique DEF UniqueInv
<1>. QED  BY <1>2, <1>3, UniqueCall, UniquePowerLoss DEF Next

\* If requests for folders leave ext empty and clusters are written whole, no
\* directory on the disk ever has two entries of the same name and extension,
\* stale directories and reused clusters included (fat32.c:147-157).
THEOREM NoNameTwice ==
  ASSUME FolderExts \subseteq {NoExt}, WholeWrites
  PROVE  Spec => []NamesUnique
<1>1. Init => TypeInv /\ UniqueInv
  BY TypeInit, UniqueInit
<1>2. TypeInv /\ UniqueInv /\ [Next]_vars => TypeInv' /\ UniqueInv'
  BY TypeStep, UniqueStep
<1>3. UniqueInv => NamesUnique
  BY DEF UniqueInv
<1>. QED  BY <1>1, <1>2, <1>3, PTL DEF Spec

-----------------------------------------------------------------------------
(* Folders. *)

FolderCall == req.op = "write" /\ req.buffer_size = 0

\* Slot s of the table lists a folder that cluster c of the disk has there
\* already, or the new one.
OldOrNew(s, c, index) ==
  table[s].attribute = ATTR_SUBDIRECTORY =>
    \/ table[s].cluster = index
    \/ /\ disk[c].kind = "dir"
       /\ disk[c].entries[s].attribute = ATTR_SUBDIRECTORY
       /\ disk[c].entries[s].cluster = table[s].cluster

\* The three writes of a folder in cluster index.
TakesCluster(i) == queue[i] = Item(FAT_CLUSTER_NUMBER, FatCell(fat))

ListsFolder(i, index) ==
  /\ queue[i] = Item(req.parent_cluster_number, DirCell(table))
  /\ \A s \in Slots \ {0} : OldOrNew(s, req.parent_cluster_number, index)

MakesFolder(i, index) ==
  queue[i] = Item(index, DirCell(InitDirectoryTable(req.name,
                                                    req.parent_cluster_number)))

FolderWrites(index) ==
  \/ /\ Len(queue) = 3
     /\ TakesCluster(1) /\ ListsFolder(2, index) /\ MakesFolder(3, index)
  \/ /\ Len(queue) = 2
     /\ disk[FAT_CLUSTER_NUMBER] = FatCell(fat)
     /\ ListsFolder(1, index) /\ MakesFolder(2, index)
  \/ /\ Len(queue) = 1
     /\ MakesFolder(1, index)

\* The inductive invariant: a call that makes a folder is only ever in its
\* final writes, and those take the cluster before they list it.
FolderInv ==
  /\ pc \in {"off", "format", "idle"} => req.op = "read"
  /\ pc \in {"alloc", "walk", "chain"} => ~FolderCall
  /\ pc \notin {"format", "flush"} => queue = <<>>
  /\ pc = "flush" /\ FolderCall =>
       /\ req.parent_cluster_number # FAT_CLUSTER_NUMBER
       /\ \E index \in Clusters :
            fat[index] = FAT32_FAT_END_OF_FILE /\ FolderWrites(index)

FolderListed ==
  \A c \in Clusters, s \in Slots \ {0} :
    FolderAppears(c, s) =>
      AsFat(disk[FAT_CLUSTER_NUMBER])[disk'[c].entries[s].cluster]
        = FAT32_FAT_END_OF_FILE

\* A slot that reads as a folder is one of a directory.
LEMMA FolderKind ==
  ASSUME NEW cell, NEW s \in Slots,
         AsTable(cell)[s].attribute = ATTR_SUBDIRECTORY
  PROVE  cell.kind = "dir" /\ AsTable(cell) = cell.entries
<1>1. /\ ZeroTable[s].attribute # ATTR_SUBDIRECTORY
      /\ JunkTable[s].attribute # ATTR_SUBDIRECTORY
  BY DEF ZeroTable, JunkTable, ZeroEntry, Unset, ATTR_SUBDIRECTORY
<1>. QED  BY <1>1 DEF AsTable

\* A folder appears only in a cluster that the step writes.
LEMMA AppearsWhereWritten ==
  ASSUME NEW c \in Clusters, NEW s, FolderAppears(c, s)
  PROVE  disk'[c] # disk[c] /\ FolderCall
BY DEF FolderAppears, FolderCall

\* The entry of a new table that makes a folder appear names the new cluster.
LEMMA ListedIsNew ==
  ASSUME NEW c \in Clusters, NEW s \in Slots \ {0}, NEW index,
         OldOrNew(s, c, index), FolderAppears(c, s),
         \/ disk'[c].entries[s] = table[s]
         \/ disk'[c].entries[s] = AsTable(disk[c])[s]
  PROVE  disk'[c].entries[s].cluster = index
<1>1. CASE disk'[c].entries[s] = table[s]
  BY <1>1 DEF OldOrNew, FolderAppears
<1>2. CASE disk'[c].entries[s] = AsTable(disk[c])[s]
  <2>1. disk[c].kind = "dir" /\ AsTable(disk[c]) = disk[c].entries
    BY <1>2, FolderKind DEF FolderAppears
  <2>. QED  BY <1>2, <2>1 DEF FolderAppears
<1>. QED  BY <1>1, <1>2

LEMMA NewTableListsNothing ==
  ASSUME NEW n, NEW p, NEW s \in Slots \ {0}
  PROVE  InitDirectoryTable(n, p)[s].attribute # ATTR_SUBDIRECTORY
BY DEF InitDirectoryTable, ZeroEntry, Unset, ATTR_SUBDIRECTORY

\* Of a write, whole or torn, each entry is new or was there before.
LEMMA WrittenEntries ==
  ASSUME NEW c \in Clusters, NEW cell,
         \/ disk'[c] = cell
         \/ \E k : disk'[c] = Torn(disk[c], cell, k)
  PROVE  /\ cell.kind = "fat" => disk'[c].kind = "fat"
         /\ \A t : cell = DirCell(t) =>
              \A s \in Slots : \/ disk'[c].entries[s] = t[s]
                               \/ disk'[c].entries[s] = AsTable(disk[c])[s]
<1>1. CASE disk'[c] = cell
  BY <1>1, CellKinds
<1>2. CASE \E k : disk'[c] = Torn(disk[c], cell, k)
  <2>1. PICK k : disk'[c] = Torn(disk[c], cell, k)
    BY <1>2
  <2>2. ASSUME cell.kind = "fat" PROVE disk'[c].kind = "fat"
    BY <2>1, <2>2, CellKinds DEF Torn
  <2>3. ASSUME NEW t, cell = DirCell(t), NEW s \in Slots
        PROVE  \/ disk'[c].entries[s] = t[s]
               \/ disk'[c].entries[s] = AsTable(disk[c])[s]
    <3>. DEFINE v == [q \in Slots |-> IF q * Blocks < k * TableSize
                                        THEN t[q] ELSE AsTable(disk[c])[q]]
    <3>1. cell.kind = "dir" /\ cell.entries = t
      BY <2>3, CellKinds
    <3>2. disk'[c] = DirCell(v)
      BY <2>1, <3>1 DEF Torn
    <3>3. v[s] = t[s] \/ v[s] = AsTable(disk[c])[s]
      OBVIOUS
    <3>. HIDE DEF v
    <3>. QED  BY <3>2, <3>3, CellKinds
  <2>. QED  BY <2>2, <2>3
<1>. QED  BY <1>1, <1>2

\* The next write of a folder call, whole or torn.
LEMMA FolderWriteListed ==
  ASSUME TypeInv, FolderInv, pc = "flush", FolderCall,
         NEW h, h = queue[1], h.cluster \in Clusters,
         \A c \in Clusters \ {h.cluster} : disk'[c] = disk[c],
         \/ disk'[h.cluster] = h.cell
         \/ disk'[h.cluster] = disk[h.cluster]
         \/ \E k : disk'[h.cluster] = Torn(disk[h.cluster], h.cell, k)
  PROVE  FolderListed
<1>. SUFFICES ASSUME NEW c \in Clusters, NEW s \in Slots \ {0},
                     FolderAppears(c, s)
              PROVE  LET e == disk'[c].entries[s] IN
                       AsFat(disk[FAT_CLUSTER_NUMBER])[e.cluster]
                         = FAT32_FAT_END_OF_FILE
  BY DEF FolderListed
<1>1. c = h.cluster /\ disk'[c] # disk[c]
  BY AppearsWhereWritten
<1>2. \/ disk'[c] = h.cell
      \/ \E k : disk'[c] = Torn(disk[c], h.cell, k)
  BY <1>1
<1>3. disk'[c].kind = "dir" /\ disk'[c].entries[s].attribute = ATTR_SUBDIRECTORY
  BY DEF FolderAppears
<1>4. PICK index \in Clusters :
        fat[index] = FAT32_FAT_END_OF_FILE /\ FolderWrites(index)
  BY DEF FolderInv
<1>5. CASE Len(queue) = 3 /\ TakesCluster(1)
  <2>1. h.cell.kind = "fat"
    BY <1>5, CellKinds DEF TakesCluster, Item
  <2>2. disk'[c].kind = "fat"
    BY <1>2, <2>1, WrittenEntries
  <2>. QED  BY <1>3, <2>2
<1>6. CASE /\ disk[FAT_CLUSTER_NUMBER] = FatCell(fat)
           /\ ListsFolder(1, index)
  <2>1. h.cell = DirCell(table) /\ OldOrNew(s, c, index)
    BY <1>1, <1>6 DEF ListsFolder, Item
  <2>2. \/ disk'[c].entries[s] = table[s]
        \/ disk'[c].entries[s] = AsTable(disk[c])[s]
    BY <1>2, <2>1, WrittenEntries
  <2>3. disk'[c].entries[s].cluster = index
    BY <2>1, <2>2, ListedIsNew
  <2>4. AsFat(disk[FAT_CLUSTER_NUMBER])[index] = FAT32_FAT_END_OF_FILE
    BY <1>4, <1>6, CellKinds DEF AsFat
  <2>. QED  BY <2>3, <2>4
<1>7. CASE MakesFolder(1, index)
  <2>. DEFINE u == InitDirectoryTable(req.name, req.parent_cluster_number)
  <2>1. h.cell = DirCell(u)
    BY <1>7 DEF MakesFolder, Item
  <2>2. u[s].attribute # ATTR_SUBDIRECTORY
    BY NewTableListsNothing
  <2>. HIDE DEF u
  <2>3. \/ disk'[c].entries[s] = u[s]
        \/ disk'[c].entries[s] = AsTable(disk[c])[s]
    BY <1>2, <2>1, WrittenEntries
  <2>4. disk'[c].entries[s] = AsTable(disk[c])[s]
    BY <1>3, <2>2, <2>3
  <2>5. disk[c].kind = "dir" /\ AsTable(disk[c]) = disk[c].entries
    BY <1>3, <2>4, FolderKind
  <2>. QED  BY <2>4, <2>5 DEF FolderAppears
<1>. QED  BY <1>4, <1>5, <1>6, <1>7 DEF FolderWrites

-----------------------------------------------------------------------------
(* The steps. *)

LEMMA FolderInit ==
  ASSUME Init
  PROVE  FolderInv
BY DEF Init, FolderInv, NoRequest

\* A step that is not part of the writes of a folder.
LEMMA NotListed ==
  ASSUME disk' = disk \/ ~FolderCall
  PROVE  FolderListed
BY AppearsWhereWritten DEF FolderListed

LEMMA FolderWriteFolder ==
  ASSUME SafeInv, FolderInv, NEW r \in FolderRequests, NEW index \in Clusters,
         WriteFolder(r, index)
  PROVE  FolderInv'
<1>. DEFINE p == r.parent_cluster_number
            marked == MarkNotEmpty(Parent(r), p)
            e == FolderEntry(r, index)
            f == Item(FAT_CLUSTER_NUMBER, FatCell(fat'))
            d == Item(p, DirCell(table'))
            n == Item(index, DirCell(InitDirectoryTable(r.name, p)))
<1>1. /\ pc = "idle" /\ pc' = "flush" /\ req' = r /\ disk' = disk
      /\ fat' = SetLink(AsFat(disk[FAT_CLUSTER_NUMBER]), index,
                        FAT32_FAT_END_OF_FILE)
      /\ table' = StoreEntry(marked, e)
      /\ queue' = Append(SaveOrder(p, fat', table'), n)
      /\ Parent(r)[0].attribute = ATTR_SUBDIRECTORY
  BY DEF WriteFolder, WriteAccepted
<1>2. p \in Clusters /\ p # FAT_CLUSTER_NUMBER
  BY <1>1, RequestsFromKnown, ParentSafe
<1>3. fat'[index] = FAT32_FAT_END_OF_FILE
  BY <1>1 DEF SetLink
<1>4. Parent(r) = disk[p].entries /\ disk[p].kind = "dir"
  <2>1. Parent(r) = AsTable(disk[p])
    BY <1>2 DEF Parent, ReadCluster
  <2>. QED  BY <1>1, <2>1, DirectoryKind
<1>5. \A s \in Slots : /\ marked[s].attribute = Parent(r)[s].attribute
                       /\ marked[s].cluster = Parent(r)[s].cluster
  <2>1. ASSUME NEW x \in FAT32DirectoryEntry
        PROVE  LET y == [x EXCEPT !.user_attribute = UATTR_NOT_EMPTY] IN
                 y.attribute = x.attribute /\ y.cluster = x.cluster
    BY <2>1 DEF FAT32DirectoryEntry
  <2>2. \A s \in Slots : Parent(r)[s] \in FAT32DirectoryEntry
    BY ParentType DEF FAT32DirectoryTable, SafeInv, TypeInv
  <2>. QED  BY <2>1, <2>2 DEF MarkNotEmpty
<1>6. e.cluster = index
  BY DEF FolderEntry
<1>. HIDE DEF e, marked
<1>7. ASSUME NEW s \in Slots \ {0}
      PROVE  OldOrNew(s, p, index)'
  <2>1. table'[s] = e \/ table'[s] = marked[s]
    BY <1>1 DEF StoreEntry
  <2>2. table'[s] # e =>
          /\ table'[s].attribute = disk[p].entries[s].attribute
          /\ table'[s].cluster = disk[p].entries[s].cluster
    BY <1>4, <1>5, <2>1
  <2>. QED  BY <1>1, <1>4, <1>6, <2>2 DEF OldOrNew
<1>8. queue' = Append(<<f, d>>, n)
  BY <1>1 DEF SaveOrder
<1>9. /\ Len(queue') = 3
      /\ queue'[1] = f /\ queue'[2] = d /\ queue'[3] = n
  <2>. HIDE DEF f, d, n
  <2>. QED  BY <1>8
<1>10. TakesCluster(1)'
  BY <1>9 DEF TakesCluster
<1>11. ListsFolder(2, index)'
  BY <1>1, <1>7, <1>9 DEF ListsFolder
<1>12. MakesFolder(3, index)'
  BY <1>1, <1>9 DEF MakesFolder
<1>13. FolderWrites(index)'
  BY <1>9, <1>10, <1>11, <1>12 DEF FolderWrites
<1>14. \E i \in Clusters :
         (fat[i] = FAT32_FAT_END_OF_FILE /\ FolderWrites(i))'
  BY <1>3, <1>13
<1>. QED  BY <1>1, <1>2, <1>14 DEF FolderInv

LEMMA FolderFlushWrite ==
  ASSUME TypeInv, FolderInv, FlushWrite
  PROVE  FolderInv' /\ FolderListed
<1>1. queue \in Seq(Items) /\ queue # <<>>
  BY DEF FlushWrite, TypeInv, TypeOK, QueueOK
<1>2. /\ Len(queue) \in Nat /\ Len(queue) > 0 /\ Head(queue) = queue[1]
      /\ queue[1] \in Items
      /\ queue' = Tail(queue) /\ Len(queue') = Len(queue) - 1
      /\ \A i \in 1 .. Len(queue') : queue'[i] = queue[i + 1]
      /\ Len(queue) = 1 => queue' = <<>>
  BY <1>1, EmptySeq, LenProperties, HeadTailProperties, ElementOfSeq
     DEF FlushWrite
<1>3. /\ pc \in {"format", "flush"} /\ req' = req /\ fat' = fat
      /\ table' = table
      /\ pc' = IF Len(queue) > 1 THEN pc
               ELSE IF pc = "format" THEN "idle" ELSE "return"
      /\ disk' = WriteCluster(disk, queue[1].cluster, queue[1].cell)
  BY <1>2 DEF FlushWrite
<1>4. CASE pc = "format"
  <2>1. ~FolderCall /\ FolderInv'
    BY <1>2, <1>3, <1>4 DEF FolderInv, FolderCall
  <2>. QED  BY <2>1, NotListed
<1>5. CASE pc = "flush" /\ ~FolderCall
  <2>1. FolderInv'
    BY <1>2, <1>3, <1>5 DEF FolderInv, FolderCall
  <2>. QED  BY <1>5, <2>1, NotListed
<1>6. CASE pc = "flush" /\ FolderCall
  <2>1. queue[1].cluster \in Clusters
    BY <1>2 DEF Items
  <2>2. /\ \A c \in Clusters \ {queue[1].cluster} : disk'[c] = disk[c]
        /\ disk'[queue[1].cluster] = queue[1].cell
    BY <1>3, <2>1 DEF WriteCluster
  <2>3. FolderListed
    BY <1>6, <2>1, <2>2, FolderWriteListed
  <2>4. PICK index \in Clusters :
          fat[index] = FAT32_FAT_END_OF_FILE /\ FolderWrites(index)
    BY <1>6 DEF FolderInv
  <2>5. req.parent_cluster_number # FAT_CLUSTER_NUMBER
    BY <1>6 DEF FolderInv
  <2>6. pc' # "return" => FolderWrites(index)'
    <3>1. CASE /\ Len(queue) = 3 /\ TakesCluster(1)
               /\ ListsFolder(2, index) /\ MakesFolder(3, index)
      <4>1. Len(queue') = 2 /\ queue'[1] = queue[2] /\ queue'[2] = queue[3]
        <5>1. Len(queue) = 3
          BY <3>1
        <5>2. Len(queue') = 2
          BY <1>2, <5>1
        <5>3. 1 \in 1 .. Len(queue') /\ 2 \in 1 .. Len(queue')
          BY <5>2
        <5>4. queue'[1] = queue[1 + 1] /\ queue'[2] = queue[2 + 1]
          BY <1>2, <5>3
        <5>. QED  BY <5>2, <5>4
      <4>2. queue[1] = Item(FAT_CLUSTER_NUMBER, FatCell(fat))
        BY <3>1 DEF TakesCluster
      <4>3. /\ queue[1].cluster = FAT_CLUSTER_NUMBER
            /\ queue[1].cell = FatCell(fat)
        BY <4>2 DEF Item
      <4>4. req.parent_cluster_number \in Clusters
        BY DEF TypeInv, TypeOK, FAT32DriverRequest
      <4>5. disk'[req.parent_cluster_number] = disk[req.parent_cluster_number]
        BY <2>2, <2>5, <4>3, <4>4
      <4>6. ListsFolder(1, index)'
        BY <1>3, <3>1, <4>1, <4>5 DEF ListsFolder, OldOrNew
      <4>7. MakesFolder(2, index)'
        BY <1>3, <3>1, <4>1 DEF MakesFolder
      <4>8. disk'[FAT_CLUSTER_NUMBER] = FatCell(fat)
        BY <2>2, <4>3
      <4>. QED  BY <1>3, <4>1, <4>6, <4>7, <4>8 DEF FolderWrites
    <3>2. CASE Len(queue) = 2 /\ MakesFolder(2, index)
      <4>1. Len(queue') = 1 /\ queue'[1] = queue[2]
        BY <1>2, <3>2
      <4>2. MakesFolder(1, index)'
        BY <1>3, <3>2, <4>1 DEF MakesFolder
      <4>. QED  BY <4>1, <4>2 DEF FolderWrites
    <3>3. CASE Len(queue) = 1
      BY <1>3, <1>6, <3>3
    <3>. QED  BY <2>4, <3>1, <3>2, <3>3 DEF FolderWrites
  <2>7. pc' # "return" =>
          \E i \in Clusters :
            (fat[i] = FAT32_FAT_END_OF_FILE /\ FolderWrites(i))'
    BY <1>3, <2>4, <2>6
  <2>8. FolderInv'
    BY <1>2, <1>3, <1>6, <2>5, <2>7 DEF FolderInv
  <2>. QED  BY <2>3, <2>8
<1>. QED  BY <1>3, <1>4, <1>5, <1>6

LEMMA FolderPowerLoss ==
  ASSUME TypeInv, FolderInv, PowerLoss
  PROVE  FolderInv' /\ FolderListed
<1>1. /\ pc' = "off" /\ queue' = <<>> /\ req' = NoRequest
      /\ disk' \in InterruptedWrite
  BY DEF PowerLoss
<1>2. FolderInv'
  BY <1>1 DEF FolderInv, NoRequest
<1>3. CASE pc = "flush" /\ FolderCall
  <2>1. queue \in Seq(Items) /\ queue # <<>>
    BY <1>3 DEF TypeInv, TypeOK, QueueOK
  <2>2. Head(queue) = queue[1] /\ queue[1] \in Items
    BY <2>1, EmptySeq, LenProperties, HeadTailProperties, ElementOfSeq
  <2>. DEFINE h == queue[1]
  <2>3. h.cluster \in Clusters
    BY <2>2 DEF Items
  <2>4. \/ disk' = disk
        \/ \E k : disk' = WriteCluster(disk, h.cluster,
                                       Torn(disk[h.cluster], h.cell, k))
    BY <1>1, <2>2 DEF InterruptedWrite
  <2>5. CASE disk' = disk
    BY <2>5, NotListed, <1>2
  <2>6. CASE \E k : disk' = WriteCluster(disk, h.cluster,
                                         Torn(disk[h.cluster], h.cell, k))
    <3>1. /\ \A c \in Clusters \ {h.cluster} : disk'[c] = disk[c]
          /\ \E k : disk'[h.cluster] = Torn(disk[h.cluster], h.cell, k)
      BY <2>3, <2>6 DEF WriteCluster
    <3>2. FolderListed
      BY <1>3, <2>3, <3>1, FolderWriteListed
    <3>. QED  BY <1>2, <3>2
  <2>. QED  BY <2>4, <2>5, <2>6
<1>4. CASE ~(pc = "flush" /\ FolderCall)
  <2>1. disk' = disk \/ ~FolderCall
    BY <1>1, <1>4 DEF FolderInv, FolderCall, InterruptedWrite
  <2>. QED  BY <1>2, <2>1, NotListed
<1>. QED  BY <1>3, <1>4

LEMMA FolderCallStep ==
  ASSUME SafeInv, FolderInv, Call
  PROVE  FolderInv' /\ disk' = disk
<1>1. ASSUME NEW r, NEW c, Answer(r, c) PROVE FolderInv' /\ disk' = disk
  BY <1>1 DEF Answer, FolderInv
<1>2. ASSUME NEW r \in ReadRequests, ReadFile(r)
      PROVE  FolderInv' /\ disk' = disk
  BY <1>2 DEF ReadFile, FolderInv, FolderCall, ReadRequests, Request
<1>3. ASSUME NEW r \in FileRequests, WriteFile(r)
      PROVE  FolderInv' /\ disk' = disk
  <2>1. r.buffer_size # 0
    BY RequestAssumption DEF FileRequests, Request
  <2>. QED  BY <1>3, <2>1 DEF WriteFile, WriteAccepted, FolderInv, FolderCall
<1>4. ASSUME NEW r \in DeleteRequests, Delete(r)
      PROVE  FolderInv' /\ disk' = disk
  BY <1>4 DEF Delete, FolderInv, FolderCall, DeleteRequests, Request
<1>5. ASSUME NEW r \in FolderRequests, NEW index \in Clusters,
             WriteFolder(r, index)
      PROVE  FolderInv' /\ disk' = disk
  BY <1>5, FolderWriteFolder DEF WriteFolder
<1>6. CASE \E r \in ListingRequests : ReadDirectory(r)
  BY <1>1, <1>6 DEF ReadDirectory
<1>7. CASE \E r \in ReadRequests :
             ReadNotFound(r) \/ ReadNothing(r) \/ ReadFile(r)
  BY <1>1, <1>2, <1>7 DEF ReadNotFound, ReadNothing
<1>8. CASE \E r \in FolderRequests \cup FileRequests : WriteRefused(r)
  BY <1>1, <1>8 DEF WriteRefused
<1>9. CASE \E r \in DeleteRequests : DeleteRefused(r) \/ Delete(r)
  BY <1>1, <1>4, <1>9 DEF DeleteRefused
<1>. QED  BY <1>3, <1>5, <1>6, <1>7, <1>8, <1>9 DEF Call

LEMMA FolderStep ==
  ASSUME SafeInv, FolderInv, [Next]_vars
  PROVE  FolderInv' /\ FolderListed
<1>1. CASE CreateFat32 \/ LoadFat
  <2>1. FolderInv' /\ disk' = disk
    BY <1>1 DEF CreateFat32, LoadFat, FolderInv, FolderCall
  <2>. QED  BY <2>1, NotListed
<1>2. CASE \/ FollowChain \/ DiskFull \/ WalkChain \/ EndOfChain
           \/ \E i \in Clusters : AllocateCluster(i) \/ AllocateLastCluster(i)
  <2>1. /\ pc \in {"chain", "alloc", "walk"} /\ req' = req
        /\ pc' \in {"chain", "alloc", "walk", "return", "flush"}
        /\ pc' # "flush" => queue' = queue
    BY <1>2 DEF FollowChain, DiskFull, WalkChain, EndOfChain, AllocateCluster,
                AllocateLastCluster, PlaceData, SaveFile
  <2>2. ~FolderCall /\ FolderInv'
    BY <2>1 DEF FolderInv, FolderCall
  <2>. QED  BY <2>2, NotListed
<1>3. CASE Return
  <2>1. FolderInv' /\ disk' = disk
    BY <1>3 DEF Return, FolderInv, NoRequest
  <2>. QED  BY <2>1, NotListed
<1>4. CASE FlushWrite
  BY <1>4, FolderFlushWrite DEF SafeInv
<1>5. CASE Kernel
  BY <1>1, <1>2, <1>3, <1>4, <1>5 DEF Kernel
<1>6. CASE Call
  BY <1>6, FolderCallStep, NotListed
<1>7. CASE PowerLoss
  BY <1>7, FolderPowerLoss DEF SafeInv
<1>8. CASE UNCHANGED vars
  <2>1. /\ disk' = disk /\ pc' = pc /\ req' = req /\ fat' = fat
        /\ queue' = queue /\ table' = table
    BY <1>8 DEF vars
  <2>2. FolderInv'
    BY <2>1 DEF FolderInv, FolderCall, FolderWrites, TakesCluster, ListsFolder,
                OldOrNew, MakesFolder
  <2>. QED  BY <2>1, <2>2, NotListed
<1>. QED  BY <1>5, <1>6, <1>7, <1>8 DEF Next

\* If power does not fail during the format, mkdir never lists a folder on the
\* disk before the FAT on the disk has its cluster taken, whatever the power
\* does to the three writes, torn ones included (fat32.c:258-260).
THEOREM FoldersListedLate ==
  ASSUME "format" \notin PowerFailsAt
  PROVE  Spec => FoldersListedAfterAllocation
<1>1. Init => SafeInv /\ FolderInv
  BY SafeInit, FolderInit
<1>2. SafeInv /\ FolderInv /\ [Next]_vars => SafeInv' /\ FolderInv'
  BY SafeStep, FolderStep
<1>3. SafeInv /\ FolderInv /\ [Next]_vars =>
        [\A c \in Clusters, s \in Slots \ {0} :
           FolderAppears(c, s) =>
             AsFat(disk[FAT_CLUSTER_NUMBER])[disk'[c].entries[s].cluster]
               = FAT32_FAT_END_OF_FILE]_vars
  BY FolderStep DEF FolderListed
<1>. QED  BY <1>1, <1>2, <1>3, PTL DEF Spec, FoldersListedAfterAllocation

-----------------------------------------------------------------------------
(* How long a call can last.  CallsReturn says under fairness that a call    *)
(* ends; what it rests on is that a number falls with every step.            *)

LEMMA LeastNat ==
  ASSUME NEW S \in SUBSET Nat, S # {}
  PROVE  \E i \in S : \A j \in S : i =< j
<1>1. PICK i \in S : \A j \in S : <<j, i>> \notin OpToRel(<, Nat)
  BY NatLessThanWellFounded, WFMin
<1>2. \A j \in S : ~(j < i)
  BY <1>1 DEF OpToRel
<1> QED
  BY <1>2


LoopInv ==
  /\ pc = "alloc" => cur \in 3 .. ClusterMapSize
  /\ pc = "chain" => left > 0

\* The steps that are left of a call, at most; none between two calls.  The
\* loop of delete is not bounded.
CallDelay ==
  CASE pc = "alloc"               -> ClusterMapSize + 4 - cur
    [] pc \in {"format", "flush"} -> 1 + Len(queue)
    [] pc = "chain"               -> 1 + left
    [] pc = "return"              -> 1
    [] OTHER                      -> 0

\* The next step can be taken: there is a write, or a cluster for the loop.
CallGuard ==
  /\ pc = "alloc" => NoneFree(fat, cur) \/ \E i \in Clusters : IsFirstFree(fat, cur, i)
  /\ pc \in {"format", "flush"} => queue # << >>

CallCloser == CallDelay # 0 => CallDelay' < CallDelay

\* delete frees one more cluster, as long as the chain leads to taken ones.
TakenClusters == {c \in Clusters : fat[c] # 0}

DeleteCloser ==
  pc = "walk" /\ pc' # "off" /\ cur \in TakenClusters =>
    TakenClusters' = TakenClusters \ {cur}

LEMMA FirstFreeExists ==
  ASSUME NEW map, NEW from \in Int, ~NoneFree(map, from)
  PROVE  \E i \in Clusters : IsFirstFree(map, from, i)
<1> DEFINE free == {i \in Clusters : i >= from /\ map[i] = 0}
<1>1. free \in SUBSET Nat /\ free # {} /\ Clusters \subseteq Nat
  BY ClusterFacts DEF NoneFree, Clusters
<1>2. PICK i \in free : \A j \in free : i =< j
  <2> HIDE DEF free
  <2> QED
    BY <1>1, LeastNat
<1> QED
  BY <1>1, <1>2 DEF IsFirstFree

LEMMA LoopFacts ==
  /\ ClusterMapSize \in Nat /\ ClusterMapSize > 3
  /\ ClusterSize \in Nat /\ ClusterSize > 0
  /\ \A i \in Clusters : i \in Int /\ i < ClusterMapSize
BY LayoutAssumption DEF Clusters

\* The writes that a call saves its tables with are two.
LEMMA SavesTwo ==
  ASSUME NEW m, NEW start, NEW size, SaveFile(m, start, size)
  PROVE  pc' = "flush" /\ Len(queue') = 2
BY DEF SaveFile, SaveOrder

LEMMA CallDelayIs ==
  ASSUME TypeInv, LoopInv
  PROVE  /\ pc = "alloc" => CallDelay = ClusterMapSize + 4 - cur /\ CallDelay >= 4
         /\ pc \in {"format", "flush"} =>
              CallDelay = 1 + Len(queue) /\ Len(queue) \in Nat \ {0}
         /\ pc = "chain" => CallDelay = 1 + left /\ CallDelay > 1
         /\ pc = "return" => CallDelay = 1
         /\ pc \in {"off", "idle", "walk"} => CallDelay = 0
         /\ CallDelay \in Nat
<1>1. cur \in Int /\ left \in Int /\ Len(queue) \in Nat /\ pc \in Phases
  BY DEF TypeInv, TypeOK
<1>2. pc \in {"format", "flush"} => Len(queue) # 0
  BY EmptySeq DEF TypeInv, TypeOK, QueueOK
<1> QED
  BY <1>1, <1>2, LoopFacts DEF CallDelay, LoopInv, Phases

LEMMA LoopInit == Init => LoopInv
BY DEF Init, LoopInv

LEMMA CallLoop ==
  ASSUME TypeInv, Call
  PROVE  LoopInv' /\ CallDelay = 0 /\ DeleteCloser
<1>1. pc = "idle"
  BY DEF Call, ReadDirectory, ReadNotFound, ReadNothing, ReadFile, WriteRefused,
         WriteFile, WriteFolder, WriteAccepted, DeleteRefused, Delete, Answer
<1>2. \/ pc' \notin {"alloc", "chain"}
      \/ pc' = "alloc" /\ cur' = 3
      \/ pc' = "chain" /\ left' > 0
  BY DEF Call, ReadDirectory, ReadNotFound, ReadNothing, ReadFile, WriteRefused,
         WriteFile, WriteFolder, WriteAccepted, DeleteRefused, Delete, Answer
<1> QED
  BY <1>1, <1>2, LoopFacts DEF LoopInv, CallDelay, DeleteCloser

LEMMA FlushLoop ==
  ASSUME TypeInv, LoopInv, FlushWrite, TypeInv'
  PROVE  LoopInv' /\ CallCloser /\ DeleteCloser
<1>1. /\ pc \in {"format", "flush"}
      /\ pc' \in {pc, "idle", "return"} /\ queue' = Tail(queue)
      /\ pc' = "return" \/ pc' = "idle" \/ pc' = pc
  BY DEF FlushWrite
<1>2. queue \in Seq(Items) /\ queue # << >>
  BY <1>1 DEF TypeInv, TypeOK, QueueOK
<1>3. Len(queue') = Len(queue) - 1
  BY <1>1, <1>2
<1>4. LoopInv'
  BY <1>1 DEF LoopInv
<1>5. CallDelay = 1 + Len(queue) /\ Len(queue) \in Nat \ {0}
  BY <1>1, CallDelayIs
<1>6. CallDelay' < CallDelay
  BY <1>1, <1>3, <1>5 DEF CallDelay
<1> QED
  BY <1>1, <1>4, <1>6 DEF CallCloser, DeleteCloser

LEMMA AllocateLoop ==
  ASSUME TypeInv, LoopInv, NEW i \in Clusters,
         AllocateCluster(i) \/ AllocateLastCluster(i)
  PROVE  LoopInv' /\ CallCloser /\ DeleteCloser
<1>1. pc = "alloc" /\ i >= cur /\ cur \in 3 .. ClusterMapSize
  BY DEF AllocateCluster, AllocateLastCluster, PlaceData, IsFirstFree, LoopInv
<1>2. CallDelay = ClusterMapSize + 4 - cur /\ CallDelay >= 4
  BY <1>1, CallDelayIs
<1>3. CASE AllocateCluster(i)
  <2>1. pc' = "alloc" /\ cur' = i + 1
    BY <1>1, <1>3 DEF AllocateCluster
  <2>2. cur' \in 3 .. ClusterMapSize /\ cur' > cur
    BY <1>1, <2>1, LoopFacts
  <2> QED
    BY <1>1, <1>2, <2>1, <2>2, LoopFacts
       DEF LoopInv, CallDelay, CallCloser, DeleteCloser
<1>4. CASE AllocateLastCluster(i)
  <2>1. pc' = "flush" /\ Len(queue') = 2
    BY <1>4, SavesTwo DEF AllocateLastCluster
  <2>2. CallDelay' = 3
    BY <2>1 DEF CallDelay
  <2>3. CallDelay' < CallDelay
    BY <1>2, <2>2
  <2> QED
    BY <1>1, <2>1, <2>3 DEF LoopInv, CallCloser, DeleteCloser
<1> QED
  BY <1>3, <1>4

LEMMA OtherLoop ==
  ASSUME TypeInv, LoopInv, DiskFull \/ FollowChain \/ Return
  PROVE  LoopInv' /\ CallCloser /\ DeleteCloser
<1>1. CASE DiskFull
  <2>1. pc = "alloc" /\ pc' = "flush" /\ Len(queue') = 2
    BY <1>1, SavesTwo DEF DiskFull
  <2> QED
    BY <2>1, CallDelayIs DEF LoopInv, CallDelay, CallCloser, DeleteCloser
<1>2. CASE FollowChain
  <2>1. /\ pc = "chain" /\ left' = left - ClusterSize /\ left \in Int /\ left > 0
        /\ (left > ClusterSize /\ pc' = "chain") \/ pc' = "return"
    BY <1>2 DEF FollowChain, LoopInv, TypeInv, TypeOK
  <2>2. CallDelay = 1 + left
    BY <2>1, CallDelayIs
  <2> QED
    BY <2>1, <2>2, LoopFacts DEF LoopInv, CallDelay, CallCloser, DeleteCloser
<1>3. CASE Return
  BY <1>3 DEF Return, LoopInv, CallDelay, CallCloser, DeleteCloser
<1> QED
  BY <1>1, <1>2, <1>3

LEMMA WalkLoop ==
  ASSUME TypeInv, WalkChain \/ EndOfChain
  PROVE  LoopInv' /\ CallDelay = 0 /\ DeleteCloser
<1>1. pc = "walk" /\ pc' \in {"walk", "flush"} /\ fat' = SetLink(fat, cur, 0)
  BY DEF WalkChain, EndOfChain
<1>2. TakenClusters' = TakenClusters \ {cur}
  BY <1>1 DEF TakenClusters, SetLink
<1> QED
  BY <1>1, <1>2 DEF LoopInv, CallDelay, DeleteCloser

LEMMA LoopStep ==
  ASSUME TypeInv, TypeInv', LoopInv, [Next]_vars
  PROVE  LoopInv' /\ (CallCloser \/ UNCHANGED vars) /\ (DeleteCloser \/ UNCHANGED vars)
<1>1. CASE Call
  BY <1>1, CallLoop DEF CallCloser
<1>2. CASE CreateFat32 \/ LoadFat
  BY <1>2 DEF CreateFat32, LoadFat, LoopInv, CallDelay, CallCloser, DeleteCloser
<1>3. CASE Kernel /\ ~(CreateFat32 \/ LoadFat)
  BY <1>3, FlushLoop, AllocateLoop, OtherLoop, WalkLoop DEF Kernel, CallCloser
<1>4. CASE PowerLoss
  <2>1. pc' = "off"
    BY <1>4 DEF PowerLoss
  <2>2. CallDelay' = 0 /\ CallDelay \in Nat
    BY <2>1, CallDelayIs DEF CallDelay
  <2> QED
    BY <2>1, <2>2 DEF LoopInv, CallCloser, DeleteCloser
<1>5. CASE UNCHANGED vars
  BY <1>5 DEF LoopInv, vars, locals
<1> QED
  BY <1>1, <1>2, <1>3, <1>4, <1>5 DEF Next

\* Whatever the disk holds: format, read, read_directory and write are never
\* stuck, and have at most as many steps left as there are clusters from the
\* loop on, bytes to read, or writes; every step makes it fewer.  delete frees
\* a cluster with every turn of its loop until the chain leads to a free one,
\* where the loop may go on for ever (fat32.c:130, 172, 226, 297).
THEOREM CallsComeCloser ==
  Spec => /\ [](CallDelay \in Nat /\ CallGuard)
          /\ [][CallCloser /\ DeleteCloser]_vars
<1>1. Init => TypeInv /\ LoopInv
  BY TypeInit, LoopInit
<1>2. TypeInv /\ LoopInv /\ [Next]_vars => (TypeInv /\ LoopInv)'
  BY TypeStep, LoopStep
<1>3. TypeInv /\ LoopInv => CallDelay \in Nat /\ CallGuard
  BY CallDelayIs, FirstFreeExists DEF CallGuard, TypeInv, TypeOK, QueueOK
<1>4. TypeInv /\ LoopInv /\ [Next]_vars => [CallCloser /\ DeleteCloser]_vars
  BY TypeStep, LoopStep
<1> QED
  BY <1>1, <1>2, <1>3, <1>4, PTL DEF Spec
=============================================================================
