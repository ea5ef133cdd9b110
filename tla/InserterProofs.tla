----------------------------- MODULE InserterProofs -----------------------------
(***************************************************************************)
(* Proofs about module Inserter, for every size of disk and table: the     *)
(* driver of the host and that of the system do the same, and what the     *)
(* inserter writes back is a disk that the system can use.                 *)
(***************************************************************************)
EXTENDS Inserter, Fat32Proofs, FiniteSetTheorems

-----------------------------------------------------------------------------
(* The free clusters, in the order in which a loop comes to them.          *)

LEMMA MinIs ==
  ASSUME NEW S \in SUBSET Int, NEW x \in S, \A y \in S : x =< y
  PROVE  Min(S) = x
<1> DEFINE m == CHOOSE z \in S : \A y \in S : z =< y
<1>1. m \in S /\ \A y \in S : m =< y
  OBVIOUS
<1> HIDE DEF m
<1>2. m = x
  BY <1>1
<1> QED
  BY <1>2 DEF Min, m

LEMMA MinOf ==
  ASSUME NEW S \in SUBSET Nat, S # {}
  PROVE  Min(S) \in S /\ \A y \in S : Min(S) =< y
<1>1. PICK x \in S : \A y \in S : x =< y
  BY LeastNat
<1>2. Min(S) = x
  BY <1>1, MinIs
<1> QED
  BY <1>1, <1>2

\* The part of "free" that lies before c.
Before(free, c) == {d \in free : d < c}

LEMMA ClusterSets ==
  ASSUME NEW S \in SUBSET Clusters
  PROVE  IsFiniteSet(S) /\ Cardinality(S) \in Nat
<1>1. IsFiniteSet(Clusters)
  BY FS_Interval, LayoutAssumption DEF Clusters
<1> QED
  BY <1>1, FS_Subset, FS_CardinalityType

LEMMA CountsAre ==
  ASSUME NEW free \in SUBSET Clusters, NEW c \in Nat
  PROVE  /\ IsFiniteSet(Before(free, c)) /\ Cardinality(Before(free, c)) \in Nat
         /\ IsFiniteSet(free) /\ Cardinality(free) \in Nat
         /\ PartIn(free, c) \in Nat /\ PartIn(free, c) =< Cardinality(free)
<1> DEFINE upto == {d \in free : d =< c}
<1>1. Before(free, c) \in SUBSET Clusters /\ upto \in SUBSET Clusters
  BY DEF Before
<1>2. IsFiniteSet(free) /\ upto \subseteq free
  BY ClusterSets
<1>3. Cardinality(upto) =< Cardinality(free)
  BY <1>2, FS_Subset
<1> QED
  BY <1>1, <1>3, ClusterSets DEF PartIn

\* The parts count up from one: the part of the first free cluster at or
\* after c is one more than the free clusters before c.
LEMMA NextPart ==
  ASSUME NEW free \in SUBSET Clusters, NEW c \in Nat, NEW i \in free, i >= c,
         \A d \in free : ~(d >= c /\ d < i)
  PROVE  /\ PartIn(free, i) = Cardinality(Before(free, c)) + 1
         /\ Before(free, i + 1) = Before(free, c) \cup {i}
         /\ Cardinality(Before(free, i + 1)) = Cardinality(Before(free, c)) + 1
         /\ i \notin Before(free, c)
<1>1. \A d \in free : d \in Int
  BY ClusterFacts
<1>2. {d \in free : d =< i} = Before(free, c) \cup {i}
  <2>1. \A d \in free : d =< i <=> d < c \/ d = i
    BY <1>1
  <2> QED
    BY <2>1 DEF Before
<1>3. Before(free, i + 1) = Before(free, c) \cup {i}
  <2>1. \A d \in free : d < i + 1 <=> d < c \/ d = i
    BY <1>1
  <2> QED
    BY <2>1 DEF Before
<1>4. i \notin Before(free, c)
  BY <1>1 DEF Before
<1>5. IsFiniteSet(Before(free, c))
  BY CountsAre
<1>6. Cardinality(Before(free, c) \cup {i}) = Cardinality(Before(free, c)) + 1
  BY <1>4, <1>5, FS_AddElement
<1> QED
  BY <1>2, <1>3, <1>4, <1>6 DEF PartIn

LEMMA PartOrder ==
  ASSUME NEW free \in SUBSET Clusters, NEW c \in free, NEW d \in free, c < d
  PROVE  PartIn(free, c) < PartIn(free, d)
<1>1. c \in Int /\ d \in Int /\ \A x \in free : x \in Int
  BY ClusterFacts
<1> DEFINE low == {x \in free : x =< c}
           high == {x \in free : x =< d}
<1>2. low \subseteq high /\ d \in high /\ d \notin low /\ high \subseteq Clusters
  <2>1. \A x \in free : x =< c => x =< d
    BY <1>1
  <2>2. ~(d =< c) /\ d =< d
    BY <1>1
  <2> QED
    BY <2>1, <2>2
<1>3. IsFiniteSet(high) /\ IsFiniteSet(low) /\ Cardinality(low) \in Nat
      /\ Cardinality(high) \in Nat
  BY <1>2, ClusterSets
<1>4. Cardinality(low \cup {d}) = Cardinality(low) + 1
  BY <1>2, <1>3, FS_AddElement
<1>5. Cardinality(low \cup {d}) =< Cardinality(high)
  <2>1. low \cup {d} \subseteq high
    BY <1>2
  <2> QED
    BY <2>1, <1>3, FS_Subset
<1> QED
  BY <1>3, <1>4, <1>5 DEF PartIn

\* The clusters before c hold as many parts as they are.
LEMMA PartsBefore ==
  ASSUME NEW free \in SUBSET Clusters, NEW c \in Nat, NEW d \in free
  PROVE  d < c <=> PartIn(free, d) =< Cardinality(Before(free, c))
<1>1. d \in Int /\ \A x \in free : x \in Int
  BY ClusterFacts
<1> DEFINE upto == {x \in free : x =< d}
<1>2. IsFiniteSet(upto) /\ IsFiniteSet(Before(free, c))
      /\ Cardinality(upto) \in Nat /\ Cardinality(Before(free, c)) \in Nat
  BY ClusterSets, CountsAre
<1>3. ASSUME d < c
      PROVE  Cardinality(upto) =< Cardinality(Before(free, c))
  <2>1. \A x \in free : x =< d => x < c
    BY <1>1, <1>3
  <2>2. upto \subseteq Before(free, c)
    BY <2>1 DEF Before
  <2> QED
    BY <2>2, <1>2, FS_Subset
<1>4. ASSUME ~(d < c)
      PROVE  Cardinality(Before(free, c)) < Cardinality(upto)
  <2>0. d =< d /\ \A x \in free : x < c => x =< d
    BY <1>1, <1>4
  <2>1. Before(free, c) \cup {d} \subseteq upto /\ d \notin Before(free, c)
    BY <2>0, <1>4 DEF Before
  <2>2. Cardinality(Before(free, c) \cup {d}) = Cardinality(Before(free, c)) + 1
    BY <2>1, <1>2, FS_AddElement
  <2>3. Cardinality(Before(free, c) \cup {d}) =< Cardinality(upto)
    BY <2>1, <1>2, FS_Subset
  <2> QED
    BY <1>2, <2>2, <2>3
<1> QED
  BY <1>2, <1>3, <1>4 DEF PartIn

LEMMA SamePart ==
  ASSUME NEW free \in SUBSET Clusters, NEW c \in free, NEW d \in free,
         PartIn(free, c) = PartIn(free, d)
  PROVE  c = d
<1>1. c \in Nat /\ d \in Nat
  BY ClusterFacts
<1>2. PartIn(free, c) \in Nat /\ PartIn(free, d) \in Nat
  BY <1>1, CountsAre
<1> QED
  BY <1>1, <1>2, PartOrder

-----------------------------------------------------------------------------
(* The number of clusters that a file takes.                               *)

LEMMA PartsOfNat ==
  ASSUME NEW size \in Nat
  PROVE  /\ PartsOf(size) \in Nat
         /\ PartsOf(size) * ClusterSize >= size
         /\ (PartsOf(size) - 1) * ClusterSize < size
         /\ size # 0 => PartsOf(size) > 0
<1>1. ClusterSize \in Nat /\ ClusterSize > 0
  BY LayoutAssumption
<1>2. PICK s \in Nat : s = ClusterSize
  BY <1>1
<1>3. s > 0
  BY <1>1, <1>2
<1>4. PICK k \in Int : k = (size + s - 1) \div s
  BY <1>3
<1>5. size + s - 1 \in Nat
  BY <1>3
<1>6. k * s =< size + s - 1 /\ size + s - 1 < (k + 1) * s
  <2> DEFINE n == size + s - 1
  <2>1. n \in Int
    BY <1>5
  <2> HIDE DEF n
  <2>2. (n \div s) * s =< n /\ n < (n \div s + 1) * s
    BY <2>1, <1>3, Z3
  <2> QED
    BY <1>4, <2>2 DEF n
<1>7. k * s >= size /\ (k - 1) * s < size
  BY <1>6, <1>3, Z3
<1>8. k >= 0
  BY <1>4, <1>3, <1>5, Z3
<1>9. size # 0 => k > 0
  BY <1>7, <1>8, <1>3, Z3
<1> QED
  BY <1>2, <1>4, <1>7, <1>8, <1>9 DEF PartsOf

-----------------------------------------------------------------------------
(* What WithFile is made of, and that all of it has its type.              *)

\* The parts of the file that find room.
Placed(free, size) ==
  IF PartsOf(size) =< Cardinality(free) THEN PartsOf(size) ELSE Cardinality(free)

\* The clusters of the first n parts.
FilePart(free, n) == {c \in free : PartIn(free, c) =< n}

\* The one before the last of them.
LastButOne(free, n) ==
  IF n > 1 THEN CHOOSE c \in FilePart(free, n) : PartIn(free, c) = n - 1 ELSE 0

FileLinks(map, free, n) ==
  [c \in Clusters |-> IF c \in FilePart(free, n) /\ PartIn(free, c) < n
                        THEN Min({d \in free : d > c}) ELSE map[c]]

FileMap(map, free, n, size) ==
  IF PartsOf(size) =< Cardinality(free)
    THEN SetLink(FileLinks(map, free, n), LastButOne(free, n),
                 FAT32_FAT_END_OF_FILE)
    ELSE FileLinks(map, free, n)

FileFilled(img, free, n, r) ==
  [c \in Clusters |-> IF c \in FilePart(free, n)
                        THEN DataCell(r.name, r.ext, PartIn(free, c))
                        ELSE img[c]]

NewFile(free, n, r) ==
  FileEntry(r, IF n > 0 THEN Min(FilePart(free, n)) ELSE 0,
            IF PartsOf(r.buffer_size) =< Cardinality(free) THEN r.buffer_size
                                                           ELSE 0)

LEMMA WithFileIs ==
  ASSUME NEW img, NEW r, NEW free,
         free = FreeFrom(AsFat(img[FAT_CLUSTER_NUMBER]), 3),
         NEW n, n = Placed(free, r.buffer_size)
  PROVE  WithFile(img, r) =
           Saved(FileFilled(img, free, n, r), r.parent_cluster_number,
                 FileMap(AsFat(img[FAT_CLUSTER_NUMBER]), free, n, r.buffer_size),
                 StoreEntry(MarkNotEmpty(AsTable(img[r.parent_cluster_number]),
                                         r.parent_cluster_number),
                            NewFile(free, n, r)))
BY DEF WithFile, Placed, FilePart, LastButOne, FileLinks, FileMap, FileFilled,
       NewFile

LEMMA FreeClusters ==
  ASSUME NEW map, NEW from \in Nat
  PROVE  /\ FreeFrom(map, from) \in SUBSET Clusters
         /\ \A c \in FreeFrom(map, from) : c >= from /\ map[c] = 0
         /\ \A c \in Clusters : c >= from /\ map[c] = 0 => c \in FreeFrom(map, from)
         /\ NoneFree(map, from) <=> FreeFrom(map, from) = {}
         /\ \A i : IsFirstFree(map, from, i) <=>
              /\ i \in FreeFrom(map, from)
              /\ \A j \in FreeFrom(map, from) : ~(j < i)
BY DEF FreeFrom, NoneFree, IsFirstFree

LEMMA FirstFreeIsMin ==
  ASSUME NEW map, NEW from \in Nat, NEW i, IsFirstFree(map, from, i)
  PROVE  /\ FreeFrom(map, from) # {} /\ Min(FreeFrom(map, from)) = i
         /\ i \in FreeFrom(map, from)
<1> DEFINE free == FreeFrom(map, from)
<1>1. free \in SUBSET Clusters /\ i \in free /\ \A j \in free : ~(j < i)
  BY FreeClusters
<1> HIDE DEF free
<1>2. free \in SUBSET Int /\ \A j \in free : j \in Int
  BY <1>1, ClusterFacts
<1>3. \A j \in free : i =< j
  BY <1>1, <1>2
<1>4. Min(free) = i
  BY <1>1, <1>2, <1>3, MinIs
<1> QED
  BY <1>1, <1>4 DEF free

LEMMA PlacedIs ==
  ASSUME NEW free \in SUBSET Clusters, NEW size \in Nat
  PROVE  /\ Placed(free, size) \in Nat
         /\ Placed(free, size) =< Cardinality(free)
<1>1. PartsOf(size) \in Nat /\ Cardinality(free) \in Nat
  BY PartsOfNat, ClusterSets
<1> QED
  BY <1>1 DEF Placed

\* A part that is not the last has a next free cluster.
LEMMA NextFree ==
  ASSUME NEW free \in SUBSET Clusters, NEW c \in free,
         PartIn(free, c) < Cardinality(free)
  PROVE  /\ Min({d \in free : d > c}) \in free
         /\ Min({d \in free : d > c}) > c
         /\ \A d \in free : d > c => Min({x \in free : x > c}) =< d
<1>1. c \in Int /\ \A d \in free : d \in Int
  BY ClusterFacts
<1> DEFINE next == {d \in free : d > c}
<1>2. next # {}
  <2>1. SUFFICES ASSUME next = {}
                 PROVE  FALSE
    OBVIOUS
  <2>2. \A d \in free : d =< c
    BY <2>1, <1>1
  <2>3. {d \in free : d =< c} = free
    BY <2>2
  <2>4. PartIn(free, c) = Cardinality(free)
    BY <2>3 DEF PartIn
  <2>5. Cardinality(free) \in Nat
    BY ClusterSets
  <2> QED
    BY <2>4, <2>5
<1>3. next \in SUBSET Nat
  BY ClusterFacts
<1>4. Min(next) \in next /\ \A y \in next : Min(next) =< y
  BY <1>2, <1>3, MinOf
<1> QED
  BY <1>4

LEMMA FirstPart ==
  ASSUME NEW free \in SUBSET Clusters, NEW n \in Nat, n > 0,
         n =< Cardinality(free)
  PROVE  /\ FilePart(free, n) # {}
         /\ Min(FilePart(free, n)) \in free
         /\ \A c \in FilePart(free, n) : Min(FilePart(free, n)) =< c
<1>1. free \in SUBSET Nat /\ \A d \in free : d \in Int
  BY ClusterFacts
<1>2. free # {}
  <2>1. free = {} => Cardinality(free) = 0
    BY FS_EmptySet
  <2> QED
    BY <2>1
<1>3. Min(free) \in free /\ \A y \in free : Min(free) =< y
  BY <1>1, <1>2, MinOf
<1>4. PICK i \in free : i = Min(free)
  BY <1>3
<1>5. i \in Int /\ 0 =< i
  BY <1>1, ClusterFacts
<1>6. \A d \in free : ~(d >= 0 /\ d < i)
  BY <1>1, <1>3, <1>4, <1>5
<1>7. PartIn(free, i) = Cardinality(Before(free, 0)) + 1
  BY <1>5, <1>6, NextPart
<1>8. Before(free, 0) = {}
  <2>1. \A d \in free : ~(d < 0)
    BY ClusterFacts
  <2> QED
    BY <2>1 DEF Before
<1>9. PartIn(free, i) = 1
  BY <1>7, <1>8, FS_EmptySet
<1>10. i \in FilePart(free, n)
  BY <1>9 DEF FilePart
<1>11. FilePart(free, n) \in SUBSET Nat /\ FilePart(free, n) \subseteq free
  BY <1>1 DEF FilePart
<1>12. /\ Min(FilePart(free, n)) \in FilePart(free, n)
       /\ \A c \in FilePart(free, n) : Min(FilePart(free, n)) =< c
  BY <1>10, <1>11, MinOf
<1> QED
  BY <1>10, <1>11, <1>12

LEMMA FileLinksType ==
  ASSUME NEW map \in FatMaps, NEW free \in SUBSET Clusters, NEW n \in Nat,
         n =< Cardinality(free), NEW size
  PROVE  FileLinks(map, free, n) \in FatMaps /\ FileMap(map, free, n, size) \in FatMaps
<1>1. Cardinality(free) \in Nat
  BY ClusterSets
<1>2. ASSUME NEW c \in FilePart(free, n), PartIn(free, c) < n
      PROVE  Min({d \in free : d > c}) \in Links
  <2>1. c \in free /\ c \in Nat
    BY ClusterFacts DEF FilePart
  <2>2. PartIn(free, c) < Cardinality(free)
    BY <1>1, <1>2, <2>1, CountsAre
  <2>3. Min({d \in free : d > c}) \in free
    BY <2>1, <2>2, NextFree
  <2> QED
    BY <2>3 DEF Links
<1>3. FileLinks(map, free, n) \in FatMaps
  BY <1>2 DEF FileLinks, FatMaps
<1>4. FAT32_FAT_END_OF_FILE \in Links
  BY DEF Links
<1> QED
  BY <1>3, <1>4, SetLinkType DEF FileMap

LEMMA FileFilledType ==
  ASSUME NEW img \in [Clusters -> Cells], NEW free \in SUBSET Clusters,
         NEW n, NEW r \in FAT32DriverRequest
  PROVE  FileFilled(img, free, n, r) \in [Clusters -> Cells]
<1>1. \A c \in FilePart(free, n) : PartIn(free, c) \in Nat
  <2>1. \A c \in FilePart(free, n) : c \in free /\ c \in Nat
    BY ClusterFacts DEF FilePart
  <2> QED
    BY <2>1, CountsAre
<1>2. r.name \in AnyName /\ r.ext \in AnyExt
  BY DEF FAT32DriverRequest
<1>3. \A c \in FilePart(free, n) : DataCell(r.name, r.ext, PartIn(free, c)) \in Cells
  BY <1>1, <1>2, CellTypes
<1> QED
  BY <1>3 DEF FileFilled

LEMMA NewFileType ==
  ASSUME NEW free \in SUBSET Clusters, NEW n \in Nat, n =< Cardinality(free),
         NEW r \in FAT32DriverRequest
  PROVE  NewFile(free, n, r) \in FAT32DirectoryEntry
<1>1. n > 0 => Min(FilePart(free, n)) \in Clusters
  BY FirstPart
<1>2. r.name \in AnyName /\ r.ext \in AnyExt /\ r.buffer_size \in Nat
  BY DEF FAT32DriverRequest
<1>3. 0 \in Clusters
  BY ClusterFacts
<1>4. \A k \in Clusters, size \in Nat :
        FileEntry(r, k, size) \in FAT32DirectoryEntry
  BY <1>2 DEF FileEntry, FAT32DirectoryEntry
<1> QED
  BY <1>1, <1>2, <1>3, <1>4 DEF NewFile

LEMMA SavedType ==
  ASSUME NEW img \in [Clusters -> Cells], NEW p, NEW map \in FatMaps,
         NEW t \in FAT32DirectoryTable
  PROVE  Saved(img, p, map, t) \in [Clusters -> Cells]
BY CellTypes DEF Saved

LEMMA EntryStored ==
  ASSUME NEW img \in [Clusters -> Cells], NEW p \in Clusters,
         NEW e \in FAT32DirectoryEntry
  PROVE  StoreEntry(MarkNotEmpty(AsTable(img[p]), p), e) \in FAT32DirectoryTable
BY AsTableType, MarkNotEmptyType, StoreEntryType

LEMMA MapOfImage ==
  ASSUME NEW img \in [Clusters -> Cells]
  PROVE  AsFat(img[FAT_CLUSTER_NUMBER]) \in FatMaps
<1>1. FAT_CLUSTER_NUMBER \in Clusters
  BY ReservedFacts DEF Reserved
<1>2. img[FAT_CLUSTER_NUMBER] \in Cells
  BY <1>1
<1> QED
  BY <1>2, AsFatType

LEMMA WithFileType ==
  ASSUME NEW img \in [Clusters -> Cells], NEW r \in FAT32DriverRequest
  PROVE  WithFile(img, r) \in [Clusters -> Cells]
<1> DEFINE map  == AsFat(img[FAT_CLUSTER_NUMBER])
           free == FreeFrom(map, 3)
           n    == Placed(free, r.buffer_size)
<1>1. map \in FatMaps
  BY MapOfImage
<1>2. free \in SUBSET Clusters
  BY FreeClusters
<1>3. r.buffer_size \in Nat /\ r.parent_cluster_number \in Clusters
  BY DEF FAT32DriverRequest
<1>4. n \in Nat /\ n =< Cardinality(free)
  BY <1>2, <1>3, PlacedIs
<1>5. WithFile(img, r) =
           Saved(FileFilled(img, free, n, r), r.parent_cluster_number,
                 FileMap(map, free, n, r.buffer_size),
                 StoreEntry(MarkNotEmpty(AsTable(img[r.parent_cluster_number]),
                                         r.parent_cluster_number),
                            NewFile(free, n, r)))
  BY WithFileIs
<1> HIDE DEF map, free, n
<1>6. /\ FileFilled(img, free, n, r) \in [Clusters -> Cells]
      /\ FileMap(map, free, n, r.buffer_size) \in FatMaps
      /\ NewFile(free, n, r) \in FAT32DirectoryEntry
  BY <1>1, <1>2, <1>4, FileFilledType, FileLinksType, NewFileType
<1>7. StoreEntry(MarkNotEmpty(AsTable(img[r.parent_cluster_number]),
                              r.parent_cluster_number),
                 NewFile(free, n, r)) \in FAT32DirectoryTable
  BY <1>3, <1>6, EntryStored
<1> QED
  BY <1>5, <1>6, <1>7, SavedType

\* Where the table of a new folder goes.
FolderIndex(map) == IF FreeFrom(map, 0) = {} THEN 0 ELSE Min(FreeFrom(map, 0))

LEMMA FolderIndexIs ==
  ASSUME NEW map
  PROVE  /\ FolderIndex(map) \in Clusters
         /\ FolderIndex(map) = 0 \/ map[FolderIndex(map)] = 0
         /\ \A i : \/ IsFirstFree(map, 0, i)
                   \/ NoneFree(map, 0) /\ i = 0
                   => i = FolderIndex(map)
<1> DEFINE free == FreeFrom(map, 0)
<1>1. free \in SUBSET Clusters /\ \A c \in free : map[c] = 0
  BY FreeClusters
<1>2. free \in SUBSET Nat
  BY <1>1, ClusterFacts
<1>3. free # {} => Min(free) \in free
  BY <1>2, MinOf
<1>4. \A i : \/ IsFirstFree(map, 0, i)
             \/ NoneFree(map, 0) /\ i = 0
             => i = FolderIndex(map)
  <2>1. \A i : IsFirstFree(map, 0, i) => free # {} /\ Min(free) = i
    BY FirstFreeIsMin
  <2>2. NoneFree(map, 0) => free = {}
    BY FreeClusters
  <2> QED
    BY <2>1, <2>2 DEF FolderIndex
<1> QED
  BY <1>1, <1>3, <1>4, ClusterFacts DEF FolderIndex

LEMMA WithFolderIs ==
  ASSUME NEW img, NEW r, NEW p, p = r.parent_cluster_number,
         NEW index, index = FolderIndex(AsFat(img[FAT_CLUSTER_NUMBER]))
  PROVE  WithFolder(img, r) =
           [Saved(img, p, SetLink(AsFat(img[FAT_CLUSTER_NUMBER]), index,
                                  FAT32_FAT_END_OF_FILE),
                  StoreEntry(MarkNotEmpty(AsTable(img[p]), p),
                             FolderEntry(r, index)))
              EXCEPT ![index] = DirCell(InitDirectoryTable(r.name, p))]
BY DEF WithFolder, FolderIndex

LEMMA FolderEntryType ==
  ASSUME NEW r \in FAT32DriverRequest, NEW index \in Clusters
  PROVE  FolderEntry(r, index) \in FAT32DirectoryEntry
<1>1. r.name \in AnyName /\ NoExt \in AnyExt
  BY DEF FAT32DriverRequest, AnyExt
<1> QED
  BY <1>1 DEF FolderEntry, FAT32DirectoryEntry

LEMMA WithFolderType ==
  ASSUME NEW img \in [Clusters -> Cells], NEW r \in FAT32DriverRequest
  PROVE  WithFolder(img, r) \in [Clusters -> Cells]
<1> DEFINE map   == AsFat(img[FAT_CLUSTER_NUMBER])
           index == FolderIndex(map)
           p     == r.parent_cluster_number
           table1 == StoreEntry(MarkNotEmpty(AsTable(img[p]), p),
                                FolderEntry(r, index))
           map1  == SetLink(map, index, FAT32_FAT_END_OF_FILE)
<1>1. map \in FatMaps
  BY MapOfImage
<1>2. index \in Clusters
  BY FolderIndexIs
<1>3. p \in Clusters /\ r.name \in AnyName
  BY DEF FAT32DriverRequest
<1>4. WithFolder(img, r) =
        [Saved(img, p, map1, table1)
           EXCEPT ![index] = DirCell(InitDirectoryTable(r.name, p))]
  BY WithFolderIs
<1>5. map1 \in FatMaps
  <2>1. FAT32_FAT_END_OF_FILE \in Links
    BY DEF Links
  <2> QED
    BY <1>1, <2>1, SetLinkType
<1>6. FolderEntry(r, index) \in FAT32DirectoryEntry
  BY <1>2, FolderEntryType
<1>7. table1 \in FAT32DirectoryTable
  BY <1>3, <1>6, EntryStored
<1>8. DirCell(InitDirectoryTable(r.name, p)) \in Cells
  BY <1>3, InitDirectoryTableType, CellTypes
<1> HIDE DEF map, index, p, table1, map1
<1>9. Saved(img, p, map1, table1) \in [Clusters -> Cells]
  BY <1>5, <1>7, SavedType
<1> QED
  BY <1>4, <1>8, <1>9

LEMMA WrittenType ==
  ASSUME NEW img \in [Clusters -> Cells], NEW r \in FAT32DriverRequest
  PROVE  Written(img, r) \in [Clusters -> Cells] /\ CodeFor(img, r) \in 0 .. 2
<1>1. WithFile(img, r) \in [Clusters -> Cells]
  BY WithFileType
<1>2. WithFolder(img, r) \in [Clusters -> Cells]
  BY WithFolderType
<1>3. CodeFor(img, r) \in 0 .. 2
  BY DEF CodeFor
<1> QED
  BY <1>1, <1>2, <1>3 DEF Written

LEMMA InitializedType ==
  ASSUME NEW img \in [Clusters -> Cells]
  PROVE  Initialized(img) \in [Clusters -> Cells]
<1>1. RootTable \in FAT32DirectoryTable
  BY InitDirectoryTableType, ClusterFacts DEF RootTable, AnyName, ROOT_CLUSTER_NUMBER
<1>2. DirCell(RootTable) \in Cells /\ FatCell(FormattedMap) \in Cells
      /\ Signature \in Cells
  BY <1>1, CellTypes, FormattedMapType
<1> QED
  BY <1>2 DEF Initialized, Formatted

-----------------------------------------------------------------------------
(* The host runs while the system is off, and nothing but the host writes  *)
(* then: the image in memory is that of the disk until it is written back. *)

HostInv ==
  /\ HostTypeOK
  /\ host # "none" => pc = "off" /\ args \in Target
  /\ host = "loaded" => image_storage = disk
  /\ host = "done" => image_storage = Written(Initialized(disk), args)

\* A step of the inserter that writes nothing.
Quiet == UNCHANGED vars /\ UNCHANGED start

LEMMA TargetType == Target \subseteq FAT32DriverRequest
<1>1. CallerNames \subseteq AnyName
  BY RequestAssumption
<1>2. ParentArgs \subseteq Clusters /\ TargetSizes \subseteq Nat
  BY InserterAssumption
<1>3. "write" \in Ops /\ NoExt \in AnyExt
  BY DEF Ops, AnyExt
<1> QED
  BY <1>1, <1>2, <1>3 DEF Target, FAT32DriverRequest

LEMMA HostInit ==
  ASSUME InserterInit
  PROVE  TypeInv /\ HostInv
<1>1. TypeInv
  BY TypeInit DEF InserterInit
<1> QED
  BY <1>1 DEF InserterInit, HostInv, HostTypeOK

LEMMA HostSystem ==
  ASSUME TypeInv, HostInv, System
  PROVE  TypeInv' /\ HostInv'
<1>1. TypeInv'
  BY TypeStep DEF System
<1>2. start' \in [Clusters -> Cells] \cup {NoImage}
  BY DEF System, HostInv, HostTypeOK, TypeInv, TypeOK
<1> QED
  BY <1>1, <1>2 DEF System, HostInv, HostTypeOK, hostVars

LEMMA HostRun ==
  ASSUME TypeInv, HostInv, NEW r \in Target, RunInserter(r)
  PROVE  TypeInv' /\ HostInv'
<1>1. TypeInv'
  BY TypeStep DEF RunInserter
<1> QED
  BY <1>1 DEF RunInserter, HostInv, HostTypeOK, TypeInv, TypeOK, vars

LEMMA HostInsert ==
  ASSUME TypeInv, HostInv, Insert
  PROVE  TypeInv' /\ HostInv'
<1>1. TypeInv'
  BY TypeStep DEF Insert
<1>2. disk' = disk /\ pc' = pc
  BY DEF Insert, vars
<1>3. args \in Target /\ args \in FAT32DriverRequest
  BY TargetType DEF HostInv, Insert
<1>4. image_storage = disk /\ disk \in [Clusters -> Cells]
  BY DEF HostInv, Insert, TypeInv, TypeOK
<1>5. Initialized(disk) \in [Clusters -> Cells]
  BY <1>4, InitializedType
<1>6. /\ Written(Initialized(disk), args) \in [Clusters -> Cells]
      /\ CodeFor(Initialized(disk), args) \in 0 .. 2
  BY <1>3, <1>5, WrittenType
<1> QED
  BY <1>1, <1>2, <1>3, <1>4, <1>6 DEF Insert, HostInv, HostTypeOK

LEMMA HostSave ==
  ASSUME TypeInv, HostInv, SaveImage
  PROVE  TypeInv' /\ HostInv'
<1>1. disk' \in [Clusters -> Cells]
  <2>1. args \in FAT32DriverRequest /\ disk \in [Clusters -> Cells]
    BY TargetType DEF HostInv, SaveImage, TypeInv, TypeOK
  <2>2. Initialized(disk) \in [Clusters -> Cells]
    BY <2>1, InitializedType
  <2> QED
    BY <2>1, <2>2, WrittenType DEF HostInv, SaveImage
<1>2. TypeInv'
  BY <1>1 DEF TypeInv, TypeOK, QueueOK, SaveImage, locals
<1> QED
  BY <1>2 DEF SaveImage, HostInv, HostTypeOK

LEMMA HostKilled ==
  ASSUME TypeInv, HostInv, InserterKilled
  PROVE  TypeInv' /\ HostInv'
<1>1. TypeInv'
  BY TypeStep DEF InserterKilled
<1> QED
  BY <1>1 DEF InserterKilled, HostInv, HostTypeOK

LEMMA HostStutter ==
  ASSUME TypeInv, HostInv, UNCHANGED inserterVars
  PROVE  TypeInv' /\ HostInv'
<1>1. TypeInv'
  BY TypeStep DEF inserterVars
<1> QED
  BY <1>1 DEF inserterVars, hostVars, vars, HostInv, HostTypeOK

LEMMA HostStep ==
  ASSUME TypeInv, HostInv, [InserterNext]_inserterVars
  PROVE  TypeInv' /\ HostInv'
BY HostSystem, HostRun, HostInsert, HostSave, HostKilled, HostStutter
DEF InserterNext

LEMMA HostAlways == InserterSpec => [](TypeInv /\ HostInv)
<1>1. InserterInit => TypeInv /\ HostInv
  BY HostInit
<1>2. TypeInv /\ HostInv /\ [InserterNext]_inserterVars => TypeInv' /\ HostInv'
  BY HostStep
<1> QED
  BY <1>1, <1>2, PTL DEF InserterSpec

\* The inserter's copy of the driver, as the system's own, never leaves the
\* types: whatever image it finds and whatever it is asked for, what it writes
\* back is a disk of the system (external-inserter.c:36-97).
THEOREM InserterTypeCorrect == InserterSpec => []InserterTypeOK
<1>1. TypeInv /\ HostInv => InserterTypeOK
  BY DEF TypeInv, HostInv, InserterTypeOK
<1> QED
  BY <1>1, HostAlways, PTL

-----------------------------------------------------------------------------
(* One more part of the file.                                              *)

LEMMA PartFromOne ==
  ASSUME NEW free \in SUBSET Clusters, NEW c \in free
  PROVE  /\ PartIn(free, c) \in Nat /\ PartIn(free, c) >= 1
         /\ PartIn(free, c) =< Cardinality(free)
<1>1. c \in Nat /\ c =< c
  BY ClusterFacts
<1>2. PartIn(free, c) \in Nat /\ PartIn(free, c) =< Cardinality(free)
  BY <1>1, CountsAre
<1>3. Before(free, 0) = {}
  <2>1. \A d \in free : ~(d < 0)
    BY ClusterFacts
  <2> QED
    BY <2>1 DEF Before
<1>4. ~(PartIn(free, c) =< Cardinality(Before(free, 0)))
  <2>1. ~(c < 0)
    BY <1>1
  <2> QED
    BY <2>1, PartsBefore
<1>5. Cardinality(Before(free, 0)) = 0
  BY <1>3, FS_EmptySet
<1> QED
  BY <1>2, <1>4, <1>5

LEMMA OneMorePart ==
  ASSUME NEW free \in SUBSET Clusters, NEW n \in Nat, NEW i \in free,
         PartIn(free, i) = n + 1
  PROVE  /\ FilePart(free, n + 1) = FilePart(free, n) \cup {i}
         /\ i \notin FilePart(free, n)
         /\ n + 1 =< Cardinality(free)
<1>1. \A c \in free : PartIn(free, c) \in Nat
  BY PartFromOne
<1>2. \A c \in free : PartIn(free, c) =< n + 1
                      <=> PartIn(free, c) =< n \/ PartIn(free, c) = n + 1
  BY <1>1
<1>3. \A c \in free : PartIn(free, c) = n + 1 <=> c = i
  BY SamePart
<1>4. \A c \in free : PartIn(free, c) =< n + 1
                      <=> PartIn(free, c) =< n \/ c = i
  BY <1>2, <1>3
<1>5. n + 1 =< Cardinality(free)
  BY PartFromOne
<1> QED
  BY <1>4, <1>5 DEF FilePart

LEMMA OneMoreFilled ==
  ASSUME NEW free \in SUBSET Clusters, NEW n \in Nat, NEW i \in free,
         PartIn(free, i) = n + 1, NEW img, NEW r
  PROVE  FileFilled(img, free, n + 1, r) =
           WriteCluster(FileFilled(img, free, n, r), i,
                        DataCell(r.name, r.ext, n + 1))
<1>1. FilePart(free, n + 1) = FilePart(free, n) \cup {i}
  BY OneMorePart
<1>2. i \notin FilePart(free, n)
  BY OneMorePart
<1>3. ASSUME NEW c \in Clusters
      PROVE  FileFilled(img, free, n + 1, r)[c] =
               WriteCluster(FileFilled(img, free, n, r), i,
                            DataCell(r.name, r.ext, n + 1))[c]
  BY <1>1, <1>2 DEF FileFilled, WriteCluster
<1> QED
  BY <1>3 DEF FileFilled, WriteCluster

\* The link to a new cluster goes to the one placed before it.
LEMMA OneMoreLink ==
  ASSUME NEW free \in SUBSET Clusters, NEW n \in Nat, NEW i \in free,
         PartIn(free, i) = n + 1, NEW map
  PROVE  /\ n = 0 => FileLinks(map, free, n + 1) = FileLinks(map, free, n)
         /\ \A last \in free : PartIn(free, last) = n =>
              FileLinks(map, free, n + 1) = SetLink(FileLinks(map, free, n), last, i)
<1>1. \A c \in free : PartIn(free, c) \in Nat /\ PartIn(free, c) >= 1
  BY PartFromOne
<1>2. \A m \in Nat, c \in Clusters :
        c \in FilePart(free, m) /\ PartIn(free, c) < m
        <=> c \in free /\ PartIn(free, c) < m
  BY <1>1 DEF FilePart
<1>3. ASSUME n = 0
      PROVE  FileLinks(map, free, n + 1) = FileLinks(map, free, n)
  <2>1. \A c \in free : ~(PartIn(free, c) < n + 1) /\ ~(PartIn(free, c) < n)
    BY <1>1, <1>3
  <2>2. n \in Nat /\ n + 1 \in Nat
    OBVIOUS
  <2>3. \A c \in Clusters :
          FileLinks(map, free, n + 1)[c] = FileLinks(map, free, n)[c]
    BY <1>2, <2>1, <2>2 DEF FileLinks
  <2> QED
    BY <2>3 DEF FileLinks
<1>4. ASSUME NEW last \in free, PartIn(free, last) = n
      PROVE  FileLinks(map, free, n + 1) = SetLink(FileLinks(map, free, n), last, i)
  <2>1. Min({d \in free : d > last}) = i
    <3> DEFINE next == {d \in free : d > last}
    <3>1. \A d \in free : d \in Int
      BY ClusterFacts
    <3>2. \A d \in free : d > last => PartIn(free, d) >= n + 1
      <4>1. \A d \in free : d > last => PartIn(free, last) < PartIn(free, d)
        BY <3>1, PartOrder
      <4> QED
        BY <4>1, <1>1, <1>4
    <3>3. \A d \in free : d < i => PartIn(free, d) < n + 1
      BY PartOrder
    <3>4. i > last
      <4>1. ~(i =< last)
        <5>1. i < last => PartIn(free, i) < PartIn(free, last)
          BY PartOrder
        <5>2. i # last
          BY <1>4
        <5> QED
          BY <5>1, <5>2, <1>4, <3>1
      <4> QED
        BY <4>1, <3>1
    <3>5. \A d \in free : d > last => i =< d
      <4>1. \A d \in free : d > last => ~(d < i)
        BY <3>2, <3>3, <1>1
      <4> QED
        BY <4>1, <3>1
    <3>6. next \in SUBSET Int /\ i \in next /\ \A d \in next : i =< d
      BY <3>1, <3>4, <3>5
    <3> HIDE DEF next
    <3>7. Min(next) = i
      BY <3>6, MinIs
    <3> QED
      BY <3>7 DEF next
  <2>2. \A c \in free : PartIn(free, c) < n + 1 <=> PartIn(free, c) < n \/ c = last
    <3>1. \A c \in free : PartIn(free, c) = n <=> c = last
      BY <1>4, SamePart
    <3>2. \A c \in free : PartIn(free, c) < n + 1
                          <=> PartIn(free, c) < n \/ PartIn(free, c) = n
      BY <1>1
    <3> QED
      BY <3>1, <3>2
  <2>3. n \in Nat /\ n + 1 \in Nat
    OBVIOUS
  <2>4. ASSUME NEW c \in Clusters
        PROVE  FileLinks(map, free, n + 1)[c]
                 = SetLink(FileLinks(map, free, n), last, i)[c]
    <3>1. FileLinks(map, free, n + 1)[c] =
            IF c \in free /\ PartIn(free, c) < n + 1
              THEN Min({d \in free : d > c}) ELSE map[c]
      BY <1>2, <2>3 DEF FileLinks
    <3>2. FileLinks(map, free, n)[c] =
            IF c \in free /\ PartIn(free, c) < n
              THEN Min({d \in free : d > c}) ELSE map[c]
      BY <1>2, <2>3 DEF FileLinks
    <3>3. SetLink(FileLinks(map, free, n), last, i)[c] =
            IF c = last THEN i ELSE FileLinks(map, free, n)[c]
      BY DEF SetLink
    <3> QED
      BY <3>1, <3>2, <3>3, <2>1, <2>2
  <2> QED
    BY <2>4 DEF FileLinks, SetLink
<1> QED
  BY <1>3, <1>4

LEMMA OneMoreFirst ==
  ASSUME NEW free \in SUBSET Clusters, NEW n \in Nat, NEW i \in free,
         PartIn(free, i) = n + 1
  PROVE  Min(FilePart(free, n + 1)) = IF n > 0 THEN Min(FilePart(free, n)) ELSE i
<1>1. /\ FilePart(free, n + 1) = FilePart(free, n) \cup {i}
      /\ n + 1 =< Cardinality(free)
  BY OneMorePart
<1>2. \A c \in free : PartIn(free, c) \in Nat /\ PartIn(free, c) >= 1
  BY PartFromOne
<1>3. \A d \in free : d \in Int
  BY ClusterFacts
<1>4. CASE n = 0
  <2>1. FilePart(free, n) = {}
    BY <1>2, <1>4 DEF FilePart
  <2>2. {i} \in SUBSET Int /\ i \in {i} /\ \A y \in {i} : i =< y
    BY <1>3
  <2>3. Min({i}) = i
    BY <2>2, MinIs
  <2> QED
    BY <1>1, <1>4, <2>1, <2>3
<1>5. CASE n > 0
  <2> DEFINE m == Min(FilePart(free, n))
  <2>1. n =< Cardinality(free)
    <3>1. Cardinality(free) \in Nat
      BY ClusterSets
    <3> QED
      BY <1>1, <3>1
  <2>2. m \in free /\ \A c \in FilePart(free, n) : m =< c
    BY <1>5, <2>1, FirstPart
  <2>3. m \in FilePart(free, n)
    <3>1. FilePart(free, n) # {} /\ FilePart(free, n) \in SUBSET Nat
      BY <1>5, <2>1, FirstPart, ClusterFacts DEF FilePart
    <3> QED
      BY <3>1, MinOf
  <2> HIDE DEF m
  <2>4. m =< i
    <3>1. ~(i < m)
      <4>1. i < m => PartIn(free, i) < PartIn(free, m)
        BY <2>2, PartOrder
      <4>2. PartIn(free, m) =< n
        BY <2>3 DEF FilePart
      <4> QED
        BY <4>1, <4>2, <1>2, <2>2
    <3> QED
      BY <3>1, <2>2, <1>3
  <2>5. FilePart(free, n + 1) \in SUBSET Int
    BY <1>3 DEF FilePart
  <2>6. m \in FilePart(free, n + 1) /\ \A y \in FilePart(free, n + 1) : m =< y
    BY <1>1, <2>2, <2>3, <2>4
  <2>7. Min(FilePart(free, n + 1)) = m
    BY <2>5, <2>6, MinIs
  <2> QED
    BY <1>5, <2>7 DEF m
<1> QED
  BY <1>4, <1>5

LEMMA LastPlaced ==
  ASSUME NEW free \in SUBSET Clusters, NEW n \in Nat, n > 0,
         NEW last \in free, PartIn(free, last) = n
  PROVE  LastButOne(free, n + 1) = last
<1>1. last \in FilePart(free, n + 1)
  BY DEF FilePart
<1>2. \A c \in FilePart(free, n + 1) : PartIn(free, c) = n => c = last
  BY SamePart DEF FilePart
<1>3. (CHOOSE c \in FilePart(free, n + 1) : PartIn(free, c) = n) = last
  BY <1>1, <1>2
<1>4. n + 1 > 1 /\ n + 1 - 1 = n
  OBVIOUS
<1> QED
  BY <1>3, <1>4 DEF LastButOne

\* The clusters of the parts so far are those the loop has passed.
LEMMA PassedParts ==
  ASSUME NEW free \in SUBSET Clusters, NEW c \in Nat, NEW n,
         n = Cardinality(Before(free, c))
  PROVE  FilePart(free, n) = Before(free, c)
BY PartsBefore DEF FilePart, Before

LEMMA LastPart ==
  ASSUME NEW size \in Nat, NEW n \in Nat,
         size - n * ClusterSize > 0, size - n * ClusterSize =< ClusterSize
  PROVE  PartsOf(size) = n + 1
<1>1. PICK s \in Nat : s = ClusterSize
  BY LayoutAssumption
<1>2. s > 0
  BY <1>1, LayoutAssumption
<1>3. PICK k \in Nat : k = PartsOf(size)
  BY PartsOfNat
<1>4. k * s >= size /\ (k - 1) * s < size
  BY <1>1, <1>3, PartsOfNat
<1>5. n * s < size /\ size =< (n + 1) * s
  BY <1>1, Z3
<1>6. n < k
  BY <1>2, <1>4, <1>5, Z3
<1>7. k - 1 < n + 1
  BY <1>2, <1>4, <1>5, Z3
<1> QED
  BY <1>3, <1>6, <1>7

LEMMA PartsLeft ==
  ASSUME NEW size \in Nat, NEW n \in Nat, size - n * ClusterSize > 0
  PROVE  PartsOf(size) > n
<1>1. PICK s \in Nat : s = ClusterSize
  BY LayoutAssumption
<1>2. s > 0
  BY <1>1, LayoutAssumption
<1>3. PICK k \in Nat : k = PartsOf(size)
  BY PartsOfNat
<1>4. k * s >= size
  BY <1>1, <1>3, PartsOfNat
<1>5. n * s < size
  BY <1>1, Z3
<1>6. n < k
  BY <1>2, <1>4, <1>5, Z3
<1> QED
  BY <1>3, <1>6

-----------------------------------------------------------------------------
(* Both drivers write the same.  "start" is the disk that a call of write  *)
(* found; what the loop of fat32.c has done to it so far is what WithFile  *)
(* does for the parts up to the counter, and what remains to be written    *)
(* when the loop is done completes it.                                     *)

\* n parts are placed, in the first n of the free clusters.
PlacedParts(map, free, n) ==
  /\ start \in [Clusters -> Cells]
  /\ req.op = "write" /\ req.buffer_size # 0 /\ CodeFor(start, req) = 0
  /\ n \in Nat /\ counter = n + 1
  /\ cur \in Nat /\ cur >= 3 /\ n = Cardinality(Before(free, cur))
  /\ left = req.buffer_size - n * ClusterSize /\ left > 0
  /\ IF n = 0 THEN prev = 0 ELSE prev \in free /\ PartIn(free, prev) = n
  /\ first = IF n > 0 THEN Min(FilePart(free, n)) ELSE 0
  /\ disk = FileFilled(start, free, n, req)
  /\ fat = FileLinks(map, free, n)
  /\ table = MarkNotEmpty(AsTable(start[req.parent_cluster_number]),
                          req.parent_cluster_number)

Placing ==
  \E n \in Nat :
    PlacedParts(AsFat(start[FAT_CLUSTER_NUMBER]),
                FreeFrom(AsFat(start[FAT_CLUSTER_NUMBER]), 3), n)

\* d after the clusters of q are written.
Put(d, item) == WriteCluster(d, item.cluster, item.cell)

AfterWrites(d, q) ==
  CASE Len(q) = 1 -> Put(d, q[1])
    [] Len(q) = 2 -> Put(Put(d, q[1]), q[2])
    [] OTHER      -> Put(Put(Put(d, q[1]), q[2]), q[3])

Saving ==
  /\ start \in [Clusters -> Cells]
  /\ CodeFor(start, req) = 0
  /\ Len(queue) \in 1 .. 3
  /\ AfterWrites(disk, queue) = Written(start, req)

MatchInv ==
  /\ pc \in {"off", "format", "idle"} => prev = 0 /\ first = 0 /\ counter = 1
  /\ pc # "return" => code = 0
  /\ pc = "chain" => req.op = "read"
  /\ pc = "walk" => req.op = "delete"
  /\ pc = "alloc" => Placing
  /\ pc = "flush" /\ req.op = "write" => Saving
  /\ DriverMatchesInserter

\* What System makes of start.
Started ==
  start' = CASE req'.op # "write" \/ pc' = "off" -> NoImage
             [] req'.op = "write" /\ pc = "idle" -> disk
             [] OTHER -> start

LEMMA StartIs ==
  ASSUME Started, req'.op = "write", pc' # "off"
  PROVE  start' = IF pc = "idle" THEN disk ELSE start
BY DEF Started

LEMMA CodeIs ==
  ASSUME NEW r \in FAT32DriverRequest
  PROVE  CodeFor(disk, r) = IF Parent(r)[0].attribute # ATTR_SUBDIRECTORY THEN 2
                            ELSE IF Duplicate(Parent(r), r) THEN 1 ELSE 0
BY DEF CodeFor, Parent

LEMMA ParentOfRequest ==
  ASSUME NEW r \in FAT32DriverRequest
  PROVE  /\ r.parent_cluster_number \in Clusters /\ r.buffer_size \in Nat
         /\ Parent(r) = AsTable(disk[r.parent_cluster_number])
BY DEF FAT32DriverRequest, Parent, ReadCluster

LEMMA MatchInit ==
  ASSUME InserterInit
  PROVE  MatchInv
BY DEF InserterInit, Init, MatchInv, DriverMatchesInserter

LEMMA MatchAnswer ==
  ASSUME TypeInv, MatchInv, NEW r, r.op # "write", NEW c, Answer(r, c)
  PROVE  MatchInv'
BY DEF Answer, MatchInv, DriverMatchesInserter

LEMMA MatchRefused ==
  ASSUME TypeInv, MatchInv, Started, NEW r \in FAT32DriverRequest,
         r.op = "write", WriteRefused(r)
  PROVE  MatchInv'
<1>1. /\ pc = "idle" /\ req' = r /\ pc' = "return" /\ disk' = disk
      /\ code' = CodeFor(disk, r) /\ code' # 0
  BY CodeIs DEF WriteRefused, Answer
<1>2. start' = disk
  BY <1>1, StartIs
<1>3. Written(disk, r) = disk
  BY <1>1 DEF Written
<1>4. DriverMatchesInserter'
  BY <1>1, <1>2, <1>3 DEF DriverMatchesInserter
<1> QED
  BY <1>1, <1>4 DEF MatchInv

LEMMA MatchReadFile ==
  ASSUME TypeInv, MatchInv, NEW r, r.op = "read", ReadFile(r)
  PROVE  MatchInv'
BY DEF ReadFile, MatchInv, DriverMatchesInserter

LEMMA MatchFollowChain ==
  ASSUME TypeInv, MatchInv, FollowChain
  PROVE  MatchInv'
BY DEF FollowChain, MatchInv, DriverMatchesInserter

LEMMA MatchDelete ==
  ASSUME TypeInv, MatchInv, NEW r, r.op = "delete", Delete(r)
  PROVE  MatchInv'
BY DEF Delete, MatchInv, DriverMatchesInserter

LEMMA MatchWalk ==
  ASSUME TypeInv, MatchInv, WalkChain \/ EndOfChain
  PROVE  MatchInv'
BY DEF WalkChain, EndOfChain, locals, MatchInv, DriverMatchesInserter

LEMMA MatchBoot ==
  ASSUME TypeInv, MatchInv, CreateFat32 \/ LoadFat
  PROVE  MatchInv'
BY DEF CreateFat32, LoadFat, locals, MatchInv, DriverMatchesInserter

LEMMA MatchReturn ==
  ASSUME TypeInv, MatchInv, Return
  PROVE  MatchInv'
BY DEF Return, MatchInv, DriverMatchesInserter

LEMMA MatchPowerLoss ==
  ASSUME TypeInv, MatchInv, PowerLoss
  PROVE  MatchInv'
BY DEF PowerLoss, MatchInv, DriverMatchesInserter

\* The beginning of the loop: no part is placed.
LEMMA MatchWriteFile ==
  ASSUME TypeInv, MatchInv, Started, NEW r \in FileRequests, WriteFile(r)
  PROVE  MatchInv'
<1>1. r \in FAT32DriverRequest /\ r.op = "write" /\ r.buffer_size \in Nat \ {0}
  BY RequestTypes, RequestAssumption DEF FileRequests, Request, TypeInv
<1>a. PICK map : map = AsFat(disk[FAT_CLUSTER_NUMBER])
  OBVIOUS
<1>b. PICK free : free = FreeFrom(map, 3)
  OBVIOUS
<1>c. PICK p : p = r.parent_cluster_number
  OBVIOUS
<1>2. /\ pc = "idle" /\ pc' = "alloc" /\ req' = r /\ disk' = disk
      /\ code' = code /\ prev' = prev /\ first' = first /\ counter' = counter
      /\ fat' = map /\ cur' = 3 /\ left' = r.buffer_size
      /\ table' = MarkNotEmpty(Parent(r), p)
  BY <1>a, <1>c DEF WriteFile, WriteAccepted
<1>3. start' = disk
  BY <1>1, <1>2, StartIs
<1>4. CodeFor(disk, r) = 0
  BY <1>1, CodeIs DEF WriteFile, WriteAccepted
<1>5. free \in SUBSET Clusters /\ \A c \in free : c >= 3
  BY <1>b, FreeClusters
<1>6. disk \in [Clusters -> Cells] /\ map \in FatMaps
  BY <1>a, MapOfImage DEF TypeInv, TypeOK
<1>7. prev = 0 /\ first = 0 /\ counter = 1 /\ code = 0
  BY <1>2 DEF MatchInv
<1>8. table' = MarkNotEmpty(AsTable(disk[p]), p)
  BY <1>1, <1>2, <1>c, ParentOfRequest
<1>9. Before(free, 3) = {}
  <2>1. \A d \in free : d \in Int /\ ~(d < 3)
    BY <1>5, ClusterFacts
  <2> QED
    BY <2>1 DEF Before
<1>10. Cardinality(Before(free, 3)) = 0
  BY <1>9, FS_EmptySet
<1>11. FilePart(free, 0) = {}
  BY <1>5, <1>9, <1>10, PassedParts
<1>12. FileFilled(disk, free, 0, r) = disk
  BY <1>6, <1>11 DEF FileFilled
<1>13. FileLinks(map, free, 0) = map
  BY <1>6, <1>11 DEF FileLinks, FatMaps
<1>14. r.buffer_size - 0 * ClusterSize = r.buffer_size /\ r.buffer_size > 0
  <2>1. 0 * ClusterSize = 0
    BY LayoutAssumption
  <2> QED
    BY <1>1, <2>1
<1>15. PlacedParts(map, free, 0)'
  <2>1. /\ start' \in [Clusters -> Cells]
        /\ req'.op = "write" /\ req'.buffer_size # 0 /\ CodeFor(start', req') = 0
    BY <1>1, <1>2, <1>3, <1>4, <1>6
  <2>2. counter' = 0 + 1 /\ cur' = 3 /\ prev' = 0 /\ first' = 0
    BY <1>2, <1>7
  <2>3. disk' = FileFilled(start', free, 0, req') /\ fat' = FileLinks(map, free, 0)
    BY <1>2, <1>3, <1>12, <1>13
  <2>4. table' = MarkNotEmpty(AsTable(start'[req'.parent_cluster_number]),
                              req'.parent_cluster_number)
    BY <1>2, <1>3, <1>8, <1>c
  <2>5. left' = req'.buffer_size - 0 * ClusterSize /\ left' > 0
    BY <1>2, <1>14
  <2> QED
    BY <2>1, <2>2, <2>3, <2>4, <2>5, <1>10 DEF PlacedParts
<1>16. 0 \in Nat
  OBVIOUS
<1>17. Placing'
  <2>1. AsFat(start'[FAT_CLUSTER_NUMBER]) = map
    BY <1>3, <1>a
  <2>2. FreeFrom(AsFat(start'[FAT_CLUSTER_NUMBER]), 3) = free
    BY <2>1, <1>b
  <2> QED
    BY <2>1, <2>2, <1>15, <1>16 DEF Placing
<1> QED
  BY <1>2, <1>7, <1>17 DEF MatchInv, DriverMatchesInserter

LEMMA PlacingMap ==
  ASSUME NEW map, map = AsFat(start[FAT_CLUSTER_NUMBER]),
         NEW free, free = FreeFrom(map, 3)
  PROVE  free \in SUBSET Clusters /\ \A c \in free : c >= 3
BY FreeClusters

\* The cached FAT and that of the disk have the same clusters free from cur on.
LEMMA SameFree ==
  ASSUME NEW map, map = AsFat(start[FAT_CLUSTER_NUMBER]),
         NEW free, free = FreeFrom(map, 3), NEW n, PlacedParts(map, free, n)
  PROVE  \A c \in Clusters : c >= cur => /\ fat[c] = map[c]
                                         /\ map[c] = 0 <=> c \in free
<1>1. free \in SUBSET Clusters
  BY PlacingMap
<1>2. FilePart(free, n) = Before(free, cur)
  BY <1>1, PassedParts DEF PlacedParts
<1>3. ASSUME NEW c \in Clusters, c >= cur
      PROVE  fat[c] = map[c] /\ (map[c] = 0 <=> c \in free)
  <2>1. c \in Int /\ cur \in Int /\ cur >= 3
    BY ClusterFacts DEF PlacedParts
  <2>2. c \notin FilePart(free, n) /\ c >= 3
    BY <1>2, <1>3, <2>1 DEF Before
  <2>3. fat[c] = map[c]
    BY <2>2 DEF PlacedParts, FileLinks
  <2>4. map[c] = 0 <=> c \in free
    BY <2>2, FreeClusters
  <2> QED
    BY <2>3, <2>4
<1> QED
  BY <1>3

LEMMA PlaceNext ==
  ASSUME NEW map, map = AsFat(start[FAT_CLUSTER_NUMBER]),
         NEW free, free = FreeFrom(map, 3), NEW n, PlacedParts(map, free, n),
         NEW i \in Clusters, IsFirstFree(fat, cur, i)
  PROVE  /\ i \in free /\ PartIn(free, i) = n + 1
         /\ i + 1 \in Nat /\ i + 1 >= 3
         /\ n + 1 = Cardinality(Before(free, i + 1))
<1>1. free \in SUBSET Clusters /\ cur \in Nat /\ n = Cardinality(Before(free, cur))
  BY PlacingMap DEF PlacedParts
<1>2. i >= cur /\ fat[i] = 0
  BY DEF IsFirstFree
<1>3. i \in free
  BY <1>2, SameFree
<1>4. ASSUME NEW d \in free, d >= cur, d < i
      PROVE  FALSE
  <2>1. d \in Clusters /\ fat[d] # 0
    BY <1>1, <1>4 DEF IsFirstFree
  <2> QED
    BY <2>1, <1>4, SameFree
<1>5. \A d \in free : ~(d >= cur /\ d < i)
  BY <1>4
<1>6. i \in Nat /\ i >= 3
  BY <1>3, ClusterFacts, PlacingMap
<1>7. /\ PartIn(free, i) = n + 1
      /\ Cardinality(Before(free, i + 1)) = n + 1
  BY <1>1, <1>2, <1>3, <1>5, NextPart
<1> QED
  BY <1>3, <1>6, <1>7

\* What one turn of the loop writes and links.
LEMMA PlaceWrites ==
  ASSUME NEW map, map = AsFat(start[FAT_CLUSTER_NUMBER]),
         NEW free, free = FreeFrom(map, 3), NEW n, PlacedParts(map, free, n),
         NEW i \in Clusters, PlaceData(i), TypeInv
  PROVE  /\ disk' = FileFilled(start, free, n + 1, req)
         /\ Chained(i) = FileLinks(map, free, n + 1)
         /\ first' = Min(FilePart(free, n + 1))
         /\ left' = left - ClusterSize
<1>1. free \in SUBSET Clusters /\ n \in Nat /\ counter = n + 1
  BY PlacingMap DEF PlacedParts
<1>2. i \in free /\ PartIn(free, i) = n + 1
  BY PlaceNext DEF PlaceData
<1>3. disk' = WriteCluster(disk, i, DataCell(req.name, req.ext, n + 1))
  BY <1>1 DEF PlaceData
<1>4. disk' = FileFilled(start, free, n + 1, req)
  BY <1>1, <1>2, <1>3, OneMoreFilled DEF PlacedParts
<1>5. Chained(i) = FileLinks(map, free, n + 1)
  <2>1. CASE n = 0
    BY <1>1, <1>2, <2>1, OneMoreLink DEF Chained, PlacedParts
  <2>2. CASE n > 0
    <3>1. prev \in free /\ PartIn(free, prev) = n /\ fat = FileLinks(map, free, n)
      BY <2>2 DEF PlacedParts
    <3>2. Chained(i) = SetLink(fat, prev, i)
      BY <1>1, <2>2 DEF Chained
    <3> QED
      BY <1>1, <1>2, <3>1, <3>2, OneMoreLink
  <2> QED
    BY <1>1, <2>1, <2>2
<1>6. first' = Min(FilePart(free, n + 1))
  <2>1. Min(FilePart(free, n + 1)) = IF n > 0 THEN Min(FilePart(free, n)) ELSE i
    BY <1>1, <1>2, OneMoreFirst
  <2>2. first' = IF n > 0 THEN first ELSE i
    BY <1>1 DEF PlaceData
  <2>3. n > 0 => first = Min(FilePart(free, n))
    BY DEF PlacedParts
  <2> QED
    BY <2>1, <2>2, <2>3
<1> QED
  BY <1>4, <1>5, <1>6 DEF PlaceData

LEMMA MatchAllocate ==
  ASSUME TypeInv, MatchInv, Started, NEW i \in Clusters, AllocateCluster(i)
  PROVE  MatchInv'
<1>1. pc = "alloc" /\ pc' = "alloc" /\ req' = req /\ code' = code /\ code = 0
  BY DEF AllocateCluster, PlaceData, MatchInv
<1>2. PICK n \in Nat :
        PlacedParts(AsFat(start[FAT_CLUSTER_NUMBER]),
                    FreeFrom(AsFat(start[FAT_CLUSTER_NUMBER]), 3), n)
  BY <1>1 DEF MatchInv, Placing
<1>3. PICK map : map = AsFat(start[FAT_CLUSTER_NUMBER])
  OBVIOUS
<1>4. PICK free : free = FreeFrom(map, 3)
  OBVIOUS
<1>5. PlacedParts(map, free, n)
  BY <1>2, <1>3, <1>4
<1>6. req.op = "write" /\ start' = start
  <2>1. req.op = "write"
    BY <1>5 DEF PlacedParts
  <2> QED
    BY <1>1, <2>1, StartIs
<1>7. /\ disk' = FileFilled(start, free, n + 1, req)
      /\ Chained(i) = FileLinks(map, free, n + 1)
      /\ first' = Min(FilePart(free, n + 1))
      /\ left' = left - ClusterSize
  BY <1>3, <1>4, <1>5, PlaceWrites DEF AllocateCluster
<1>8. /\ i \in free /\ PartIn(free, i) = n + 1
      /\ i + 1 \in Nat /\ i + 1 >= 3 /\ n + 1 = Cardinality(Before(free, i + 1))
  BY <1>3, <1>4, <1>5, PlaceNext DEF AllocateCluster, PlaceData
<1>9. /\ fat' = Chained(i) /\ prev' = i /\ cur' = i + 1 /\ counter' = counter + 1
      /\ table' = table /\ left > ClusterSize
  BY DEF AllocateCluster
<1>10. n + 1 \in Nat /\ n + 1 # 0 /\ n + 1 > 0 /\ counter' = n + 1 + 1
  BY <1>5, <1>9 DEF PlacedParts
<1>11. left' = req.buffer_size - (n + 1) * ClusterSize /\ left' > 0
  <2>1. PICK s \in Nat : s = ClusterSize
    BY LayoutAssumption
  <2>2. left = req.buffer_size - n * s /\ left' = left - s /\ left > s
        /\ left \in Int
    BY <1>5, <1>7, <1>9, <2>1 DEF PlacedParts, TypeInv, TypeOK
  <2>3. (n + 1) * s = n * s + s
    BY Z3
  <2>4. req.buffer_size \in Nat /\ n * s \in Nat
    BY Z3 DEF TypeInv, TypeOK, FAT32DriverRequest
  <2>5. left' = req.buffer_size - (n + 1) * s /\ left' > 0
    BY <2>2, <2>3, <2>4
  <2> QED
    BY <2>1, <2>5
<1>12. PlacedParts(map, free, n + 1)'
  <2>1. /\ start' \in [Clusters -> Cells]
        /\ req'.op = "write" /\ req'.buffer_size # 0 /\ CodeFor(start', req') = 0
        /\ table' = MarkNotEmpty(AsTable(start'[req'.parent_cluster_number]),
                                 req'.parent_cluster_number)
    BY <1>1, <1>5, <1>6, <1>9 DEF PlacedParts
  <2>2. prev' \in free /\ PartIn(free, prev') = n + 1
    BY <1>8, <1>9
  <2>3. disk' = FileFilled(start', free, n + 1, req')
        /\ fat' = FileLinks(map, free, n + 1)
        /\ first' = Min(FilePart(free, n + 1))
    BY <1>1, <1>6, <1>7, <1>9
  <2>4. cur' \in Nat /\ cur' >= 3 /\ n + 1 = Cardinality(Before(free, cur'))
    BY <1>8, <1>9
  <2>5. left' = req'.buffer_size - (n + 1) * ClusterSize /\ left' > 0
    BY <1>1, <1>11
  <2> QED
    BY <2>1, <2>2, <2>3, <2>4, <2>5, <1>10 DEF PlacedParts
<1>13. Placing'
  <2>1. AsFat(start'[FAT_CLUSTER_NUMBER]) = map
    BY <1>3, <1>6
  <2>2. FreeFrom(AsFat(start'[FAT_CLUSTER_NUMBER]), 3) = free
    BY <1>4, <2>1
  <2>3. n + 1 \in Nat
    OBVIOUS
  <2> QED
    BY <2>1, <2>2, <2>3, <1>12 DEF Placing
<1> QED
  BY <1>1, <1>13 DEF MatchInv, DriverMatchesInserter

LEMMA SaveOrderWrites ==
  ASSUME NEW d \in [Clusters -> Cells], NEW p \in Clusters, NEW m, NEW t
  PROVE  /\ Len(SaveOrder(p, m, t)) = 2
         /\ AfterWrites(d, SaveOrder(p, m, t)) = Saved(d, p, m, t)
<1> DEFINE q == SaveOrder(p, m, t)
<1>1. /\ Len(q) = 2
      /\ q[1] = Item(FAT_CLUSTER_NUMBER, FatCell(m)) /\ q[2] = Item(p, DirCell(t))
  BY DEF SaveOrder
<1>2. AfterWrites(d, q) = WriteCluster(WriteCluster(d, FAT_CLUSTER_NUMBER, FatCell(m)),
                                       p, DirCell(t))
  BY <1>1 DEF AfterWrites, Put, Item
<1>3. FAT_CLUSTER_NUMBER \in Clusters
  BY ReservedFacts DEF Reserved
<1> HIDE DEF q
<1>4. AfterWrites(d, q) = Saved(d, p, m, t)
  BY <1>2, <1>3 DEF WriteCluster, Saved
<1> QED
  BY <1>1, <1>4 DEF q

LEMMA SaveOrderThree ==
  ASSUME NEW d \in [Clusters -> Cells], NEW p \in Clusters, NEW m, NEW t,
         NEW index \in Clusters, NEW cell
  PROVE  LET q == Append(SaveOrder(p, m, t), Item(index, cell)) IN
           /\ Len(q) = 3
           /\ AfterWrites(d, q) = [Saved(d, p, m, t) EXCEPT ![index] = cell]
<1> DEFINE q == Append(SaveOrder(p, m, t), Item(index, cell))
<1>1. /\ Len(q) = 3
      /\ q[1] = Item(FAT_CLUSTER_NUMBER, FatCell(m)) /\ q[2] = Item(p, DirCell(t))
      /\ q[3] = Item(index, cell)
  BY DEF SaveOrder
<1>2. AfterWrites(d, q) =
        WriteCluster(WriteCluster(WriteCluster(d, FAT_CLUSTER_NUMBER, FatCell(m)),
                                  p, DirCell(t)), index, cell)
  BY <1>1 DEF AfterWrites, Put, Item
<1>3. FAT_CLUSTER_NUMBER \in Clusters
  BY ReservedFacts DEF Reserved
<1> HIDE DEF q
<1>4. AfterWrites(d, q) = [Saved(d, p, m, t) EXCEPT ![index] = cell]
  BY <1>2, <1>3 DEF WriteCluster, Saved
<1> QED
  BY <1>1, <1>4 DEF q

\* The end of the loop: the clusters in the queue complete what WithFile makes.
LEMMA SavesWithFile ==
  ASSUME NEW map, map = AsFat(start[FAT_CLUSTER_NUMBER]),
         NEW free, free = FreeFrom(map, 3),
         NEW n, n = Placed(free, req.buffer_size),
         TypeInv, start \in [Clusters -> Cells],
         req.op = "write", req.buffer_size # 0, CodeFor(start, req) = 0,
         table = MarkNotEmpty(AsTable(start[req.parent_cluster_number]),
                              req.parent_cluster_number),
         disk' = FileFilled(start, free, n, req), disk' \in [Clusters -> Cells],
         start' = start, req' = req,
         NEW m, m = FileMap(map, free, n, req.buffer_size),
         NEW f, NEW size, FileEntry(req, f, size) = NewFile(free, n, req),
         SaveFile(m, f, size)
  PROVE  Saving'
<1>1. PICK p \in Clusters : p = req.parent_cluster_number
  BY DEF TypeInv, TypeOK, FAT32DriverRequest
<1>2. queue' = SaveOrder(p, m, table')
  BY <1>1 DEF SaveFile
<1>3. Len(queue') = 2 /\ AfterWrites(disk', queue') = Saved(disk', p, m, table')
  BY <1>2, SaveOrderWrites
<1>4. table' = StoreEntry(MarkNotEmpty(AsTable(start[p]), p), NewFile(free, n, req))
  BY <1>1 DEF SaveFile
<1>5. WithFile(start, req) = Saved(disk', p, m, table')
  BY <1>1, <1>4, WithFileIs
<1>6. Written(start, req) = WithFile(start, req)
  BY DEF Written
<1>7. /\ start' \in [Clusters -> Cells] /\ CodeFor(start', req') = 0
      /\ Len(queue') \in 1 .. 3 /\ AfterWrites(disk', queue') = Written(start', req')
  BY <1>3, <1>5, <1>6
<1> QED
  BY <1>7 DEF Saving

LEMMA MatchAllocateLast ==
  ASSUME TypeInv, MatchInv, Started, TypeInv', NEW i \in Clusters,
         AllocateLastCluster(i)
  PROVE  MatchInv'
<1>1. pc = "alloc" /\ pc' = "flush" /\ req' = req /\ code' = code /\ code = 0
  BY DEF AllocateLastCluster, PlaceData, SaveFile, MatchInv
<1>2. PICK n \in Nat :
        PlacedParts(AsFat(start[FAT_CLUSTER_NUMBER]),
                    FreeFrom(AsFat(start[FAT_CLUSTER_NUMBER]), 3), n)
  BY <1>1 DEF MatchInv, Placing
<1>3. PICK map : map = AsFat(start[FAT_CLUSTER_NUMBER])
  OBVIOUS
<1>4. PICK free : free = FreeFrom(map, 3)
  OBVIOUS
<1>5. PlacedParts(map, free, n) /\ free \in SUBSET Clusters
  BY <1>2, <1>3, <1>4, PlacingMap
<1>6. req.op = "write" /\ start' = start
  <2>1. req.op = "write"
    BY <1>5 DEF PlacedParts
  <2> QED
    BY <1>1, <2>1, StartIs
<1>7. /\ disk' = FileFilled(start, free, n + 1, req)
      /\ Chained(i) = FileLinks(map, free, n + 1)
      /\ first' = Min(FilePart(free, n + 1))
  BY <1>3, <1>4, <1>5, PlaceWrites DEF AllocateLastCluster
<1>8. i \in free /\ PartIn(free, i) = n + 1
  BY <1>3, <1>4, <1>5, PlaceNext DEF AllocateLastCluster, PlaceData
<1>9. PartsOf(req.buffer_size) = n + 1 /\ n + 1 =< Cardinality(free)
  <2>1. /\ req.buffer_size - n * ClusterSize > 0
        /\ req.buffer_size - n * ClusterSize =< ClusterSize
    BY <1>5 DEF AllocateLastCluster, PlacedParts
  <2>2. req.buffer_size \in Nat
    BY DEF TypeInv, TypeOK, FAT32DriverRequest
  <2> QED
    BY <1>5, <1>8, <2>1, <2>2, LastPart, OneMorePart
<1>10. n + 1 = Placed(free, req.buffer_size)
  BY <1>9 DEF Placed
<1>11. LastButOne(free, n + 1) = prev
  <2>1. CASE n = 0
    BY <1>5, <2>1 DEF LastButOne, PlacedParts
  <2>2. CASE n > 0
    BY <1>5, <2>2, LastPlaced DEF PlacedParts
  <2> QED
    BY <2>1, <2>2
<1>12. PICK m : m = SetLink(Chained(i), prev, FAT32_FAT_END_OF_FILE)
  OBVIOUS
<1>13. m = FileMap(map, free, n + 1, req.buffer_size)
  BY <1>7, <1>9, <1>11, <1>12 DEF FileMap
<1>14. PICK f : f = first'
  OBVIOUS
<1>15. FileEntry(req, f, req.buffer_size) = NewFile(free, n + 1, req)
  <2>1. n + 1 > 0
    OBVIOUS
  <2> QED
    BY <2>1, <1>7, <1>9, <1>14 DEF NewFile
<1>16. SaveFile(m, f, req.buffer_size)
  BY <1>12, <1>14 DEF AllocateLastCluster
<1>17. disk' \in [Clusters -> Cells]
  BY DEF TypeInv, TypeOK
<1>18. /\ start \in [Clusters -> Cells]
       /\ req.buffer_size # 0 /\ CodeFor(start, req) = 0
       /\ table = MarkNotEmpty(AsTable(start[req.parent_cluster_number]),
                               req.parent_cluster_number)
  BY <1>5 DEF PlacedParts
<1>19. Saving'
  <2>1. PICK k : k = n + 1
    OBVIOUS
  <2> QED
    BY <2>1, <1>1, <1>3, <1>4, <1>6, <1>7, <1>10, <1>13, <1>15, <1>16, <1>17,
       <1>18, SavesWithFile
<1> QED
  BY <1>1, <1>19 DEF MatchInv, DriverMatchesInserter

LEMMA MatchDiskFull ==
  ASSUME TypeInv, MatchInv, Started, TypeInv', DiskFull
  PROVE  MatchInv'
<1>1. /\ pc = "alloc" /\ pc' = "flush" /\ req' = req /\ code' = code /\ code = 0
      /\ disk' = disk /\ SaveFile(fat, first, 0) /\ NoneFree(fat, cur)
  BY DEF DiskFull, SaveFile, MatchInv
<1>2. PICK n \in Nat :
        PlacedParts(AsFat(start[FAT_CLUSTER_NUMBER]),
                    FreeFrom(AsFat(start[FAT_CLUSTER_NUMBER]), 3), n)
  BY <1>1 DEF MatchInv, Placing
<1>3. PICK map : map = AsFat(start[FAT_CLUSTER_NUMBER])
  OBVIOUS
<1>4. PICK free : free = FreeFrom(map, 3)
  OBVIOUS
<1>5. PlacedParts(map, free, n) /\ free \in SUBSET Clusters
  BY <1>2, <1>3, <1>4, PlacingMap
<1>6. req.op = "write" /\ start' = start
  <2>1. req.op = "write"
    BY <1>5 DEF PlacedParts
  <2> QED
    BY <1>1, <2>1, StartIs
<1>7. Before(free, cur) = free
  <2>1. \A d \in free : d \in Clusters /\ d \in Int /\ cur \in Int
    BY <1>5, ClusterFacts DEF PlacedParts
  <2>2. \A d \in free : ~(d >= cur)
    <3> TAKE d \in free
    <3>1. d >= cur => fat[d] # 0
      BY <1>1, <2>1 DEF NoneFree
    <3>2. d >= cur => fat[d] = map[d] /\ map[d] = 0
      BY <1>3, <1>4, <1>5, <2>1, SameFree
    <3> QED
      BY <3>1, <3>2
  <2>3. \A d \in free : d < cur
    BY <2>1, <2>2
  <2> QED
    BY <2>3 DEF Before
<1>8. n = Cardinality(free)
  BY <1>5, <1>7 DEF PlacedParts
<1>9. ~(PartsOf(req.buffer_size) =< Cardinality(free))
  <2>1. req.buffer_size - n * ClusterSize > 0
    BY <1>5 DEF PlacedParts
  <2>2. req.buffer_size \in Nat
    BY DEF TypeInv, TypeOK, FAT32DriverRequest
  <2>3. PartsOf(req.buffer_size) > n /\ PartsOf(req.buffer_size) \in Nat
    BY <2>1, <2>2, PartsLeft, PartsOfNat
  <2> QED
    BY <1>8, <2>3
<1>10. n = Placed(free, req.buffer_size)
  BY <1>8, <1>9 DEF Placed
<1>11. PICK m : m = fat
  OBVIOUS
<1>12. m = FileMap(map, free, n, req.buffer_size)
  BY <1>5, <1>9, <1>11 DEF FileMap, PlacedParts
<1>13. PICK f : f = first
  OBVIOUS
<1>14. FileEntry(req, f, 0) = NewFile(free, n, req)
  BY <1>5, <1>9, <1>13 DEF NewFile, PlacedParts
<1>15. SaveFile(m, f, 0)
  BY <1>1, <1>11, <1>13
<1>16. disk' \in [Clusters -> Cells] /\ disk' = FileFilled(start, free, n, req)
  BY <1>1, <1>5 DEF TypeInv, TypeOK, PlacedParts
<1>17. /\ start \in [Clusters -> Cells]
       /\ req.buffer_size # 0 /\ CodeFor(start, req) = 0
       /\ table = MarkNotEmpty(AsTable(start[req.parent_cluster_number]),
                               req.parent_cluster_number)
  BY <1>5 DEF PlacedParts
<1>18. Saving'
  <2>1. PICK z : z = 0
    OBVIOUS
  <2> QED
    BY <2>1, <1>1, <1>3, <1>4, <1>6, <1>10, <1>12, <1>14, <1>15, <1>16, <1>17,
       SavesWithFile
<1> QED
  BY <1>1, <1>18 DEF MatchInv, DriverMatchesInserter

LEMMA MatchWriteFolder ==
  ASSUME TypeInv, MatchInv, Started, NEW r \in FolderRequests,
         NEW index \in Clusters, WriteFolder(r, index)
  PROVE  MatchInv'
<1>1. r \in FAT32DriverRequest /\ r.op = "write" /\ r.buffer_size = 0
  BY RequestTypes DEF FolderRequests, Request, TypeInv
<1>2. PICK p \in Clusters : p = r.parent_cluster_number
  BY <1>1, ParentOfRequest
<1>3. PICK map : map = AsFat(disk[FAT_CLUSTER_NUMBER])
  OBVIOUS
<1>4. /\ pc = "idle" /\ pc' = "flush" /\ req' = r /\ disk' = disk /\ code' = code
      /\ IsFirstFree(map, 0, index) \/ (NoneFree(map, 0) /\ index = 0)
      /\ fat' = SetLink(map, index, FAT32_FAT_END_OF_FILE)
      /\ table' = StoreEntry(MarkNotEmpty(AsTable(disk[p]), p), FolderEntry(r, index))
      /\ queue' = Append(SaveOrder(p, fat', table'),
                         Item(index, DirCell(InitDirectoryTable(r.name, p))))
  BY <1>1, <1>2, <1>3, ParentOfRequest DEF WriteFolder, WriteAccepted
<1>5. start' = disk /\ code = 0
  BY <1>1, <1>4, StartIs DEF MatchInv
<1>6. CodeFor(disk, r) = 0
  BY <1>1, CodeIs DEF WriteFolder, WriteAccepted
<1>7. disk \in [Clusters -> Cells]
  BY DEF TypeInv, TypeOK
<1>8. index = FolderIndex(map)
  BY <1>4, FolderIndexIs
<1>9. PICK m : m = fat'
  OBVIOUS
<1>10. PICK t : t = table'
  OBVIOUS
<1>11. PICK cell : cell = DirCell(InitDirectoryTable(r.name, p))
  OBVIOUS
<1>12. PICK q : q = Append(SaveOrder(p, m, t), Item(index, cell))
  OBVIOUS
<1>13. Len(q) = 3 /\ AfterWrites(disk, q) = [Saved(disk, p, m, t) EXCEPT ![index] = cell]
  BY <1>7, <1>12, SaveOrderThree
<1>14. WithFolder(disk, r) = [Saved(disk, p, m, t) EXCEPT ![index] = cell]
  <2>1. m = SetLink(AsFat(disk[FAT_CLUSTER_NUMBER]), index, FAT32_FAT_END_OF_FILE)
    BY <1>3, <1>4, <1>9
  <2>2. t = StoreEntry(MarkNotEmpty(AsTable(disk[p]), p), FolderEntry(r, index))
    BY <1>4, <1>10
  <2>3. index = FolderIndex(AsFat(disk[FAT_CLUSTER_NUMBER]))
    BY <1>3, <1>8
  <2> QED
    BY <2>1, <2>2, <2>3, <1>2, <1>11, WithFolderIs
<1>15. Written(disk, r) = WithFolder(disk, r)
  BY <1>1, <1>6 DEF Written
<1>16. queue' = q
  BY <1>4, <1>9, <1>10, <1>11, <1>12
<1>17. Saving'
  <2>1. /\ start' \in [Clusters -> Cells] /\ CodeFor(start', req') = 0
        /\ Len(queue') \in 1 .. 3 /\ AfterWrites(disk', queue') = Written(start', req')
    BY <1>4, <1>5, <1>6, <1>7, <1>13, <1>14, <1>15, <1>16
  <2> QED
    BY <2>1 DEF Saving
<1> QED
  BY <1>4, <1>5, <1>17 DEF MatchInv, DriverMatchesInserter

\* A write takes the head of the queue off what is left to write.
LEMMA OneWriteLess ==
  ASSUME NEW q \in Seq(Items), Len(q) \in 1 .. 3, NEW d
  PROVE  /\ Len(q) = 1 => AfterWrites(d, q) = Put(d, Head(q))
         /\ Len(q) > 1 => /\ Len(Tail(q)) \in 1 .. 2
                          /\ AfterWrites(Put(d, Head(q)), Tail(q))
                               = AfterWrites(d, q)
<1>1. PICK n \in Int : n = Len(q)
  OBVIOUS
<1>2. PICK t \in Seq(Items) : t = Tail(q)
  <2>1. q # <<>>
    OBVIOUS
  <2>2. Tail(q) \in Seq(Items)
    BY <2>1, HeadTailProperties
  <2> QED
    BY <2>2
<1>3. Head(q) = q[1] /\ Len(t) = n - 1 /\ n \in 1 .. 3
  BY <1>1, <1>2
<1>4. /\ n > 1 => t[1] = q[2]
      /\ n > 2 => t[2] = q[3]
  BY <1>1, <1>2
<1>5. CASE n = 1
  BY <1>1, <1>3, <1>5 DEF AfterWrites
<1>6. CASE n = 2
  <2>1. Len(t) = 1 /\ t[1] = q[2] /\ Len(q) = 2
    BY <1>1, <1>3, <1>4, <1>6
  <2>2. AfterWrites(Put(d, Head(q)), t) = Put(Put(d, Head(q)), t[1])
    BY <2>1 DEF AfterWrites
  <2>3. AfterWrites(d, q) = Put(Put(d, q[1]), q[2])
    BY <2>1 DEF AfterWrites
  <2>4. AfterWrites(Put(d, Head(q)), t) = AfterWrites(d, q)
    BY <1>3, <2>1, <2>2, <2>3
  <2>5. Len(t) \in 1 .. 2 /\ ~(Len(q) = 1)
    BY <2>1
  <2> QED
    BY <1>2, <2>4, <2>5
<1>7. CASE n = 3
  <2>1. Len(t) = 2 /\ t[1] = q[2] /\ t[2] = q[3] /\ Len(q) = 3
    BY <1>1, <1>3, <1>4, <1>7
  <2>2. AfterWrites(Put(d, Head(q)), t) = Put(Put(Put(d, Head(q)), t[1]), t[2])
    BY <2>1 DEF AfterWrites
  <2>3. AfterWrites(d, q) = Put(Put(Put(d, q[1]), q[2]), q[3])
    BY <2>1 DEF AfterWrites
  <2>4. AfterWrites(Put(d, Head(q)), t) = AfterWrites(d, q)
    BY <1>3, <2>1, <2>2, <2>3
  <2>5. Len(t) \in 1 .. 2 /\ ~(Len(q) = 1)
    BY <2>1
  <2> QED
    BY <1>2, <2>4, <2>5
<1> QED
  BY <1>3, <1>5, <1>6, <1>7

LEMMA MatchFlushWrite ==
  ASSUME TypeInv, MatchInv, Started, FlushWrite
  PROVE  MatchInv'
<1>1. /\ pc \in {"format", "flush"} /\ pc' \in {"format", "flush", "idle", "return"}
      /\ req' = req /\ code' = code /\ code = 0
      /\ pc = "format" => pc' \in {"format", "idle"}
      /\ pc = "flush" => pc' = IF Len(queue) > 1 THEN "flush" ELSE "return"
      /\ prev' = prev /\ first' = first /\ counter' = counter
      /\ disk' = Put(disk, Head(queue)) /\ queue' = Tail(queue)
  BY DEF FlushWrite, locals, Put, MatchInv
<1>2. CASE pc = "format" \/ req.op # "write"
  BY <1>1, <1>2 DEF MatchInv, DriverMatchesInserter
<1>3. CASE pc = "flush" /\ req.op = "write"
  <2>1. Saving /\ start' = start
    BY <1>1, <1>3, StartIs DEF MatchInv
  <2>2. queue \in Seq(Items) /\ Len(queue) \in 1 .. 3
    BY <2>1 DEF TypeInv, TypeOK, Saving
  <2>3. CASE Len(queue) > 1
    <3>1. /\ Len(Tail(queue)) \in 1 .. 2
          /\ AfterWrites(Put(disk, Head(queue)), Tail(queue))
               = AfterWrites(disk, queue)
      BY <2>2, <2>3, OneWriteLess
    <3>2. Saving'
      BY <1>1, <2>1, <3>1 DEF Saving
    <3> QED
      BY <1>1, <1>3, <2>3, <3>2 DEF MatchInv, DriverMatchesInserter
  <2>4. CASE ~(Len(queue) > 1)
    <3>1. Len(queue) = 1
      <4>1. PICK n \in 1 .. 3 : n = Len(queue)
        BY <2>2
      <4>2. ~(n > 1)
        BY <2>4, <4>1
      <4>3. n = 1
        BY <4>2
      <4> QED
        BY <4>1, <4>3
    <3>2. AfterWrites(disk, queue) = Put(disk, Head(queue))
      BY <2>2, <3>1, OneWriteLess
    <3>3. disk' = Written(start', req') /\ code' = CodeFor(start', req')
      BY <1>1, <2>1, <3>2 DEF Saving
    <3> QED
      BY <1>1, <1>3, <2>4, <3>3 DEF MatchInv, DriverMatchesInserter
  <2> QED
    BY <2>3, <2>4
<1> QED
  BY <1>1, <1>2, <1>3

LEMMA MatchCall ==
  ASSUME TypeInv, MatchInv, Started, Call
  PROVE  MatchInv'
<1>1. \A r \in ListingRequests : r.op = "read_directory"
  BY DEF ListingRequests, Request
<1>2. \A r \in ReadRequests : r.op = "read"
  BY DEF ReadRequests, Request
<1>3. \A r \in DeleteRequests : r.op = "delete"
  BY DEF DeleteRequests, Request
<1>4. \A r \in FolderRequests \cup FileRequests :
        r.op = "write" /\ r \in FAT32DriverRequest
  BY RequestTypes DEF FolderRequests, FileRequests, Request, TypeInv
<1>5. CASE \E r \in ListingRequests : ReadDirectory(r)
  BY <1>1, <1>5, MatchAnswer DEF ReadDirectory
<1>6. CASE \E r \in ReadRequests : ReadNotFound(r) \/ ReadNothing(r) \/ ReadFile(r)
  <2>1. PICK r \in ReadRequests : ReadNotFound(r) \/ ReadNothing(r) \/ ReadFile(r)
    BY <1>6
  <2>2. r.op = "read" /\ r.op # "write"
    BY <1>2
  <2>3. CASE ReadNotFound(r) \/ ReadNothing(r)
    BY <2>2, <2>3, MatchAnswer DEF ReadNotFound, ReadNothing
  <2>4. CASE ReadFile(r)
    BY <2>2, <2>4, MatchReadFile
  <2> QED
    BY <2>1, <2>3, <2>4
<1>7. CASE \E r \in FolderRequests \cup FileRequests : WriteRefused(r)
  BY <1>4, <1>7, MatchRefused
<1>8. CASE \E r \in FileRequests : WriteFile(r)
  BY <1>8, MatchWriteFile
<1>9. CASE \E r \in FolderRequests, index \in Clusters : WriteFolder(r, index)
  BY <1>9, MatchWriteFolder
<1>10. CASE \E r \in DeleteRequests : DeleteRefused(r) \/ Delete(r)
  <2>1. PICK r \in DeleteRequests : DeleteRefused(r) \/ Delete(r)
    BY <1>10
  <2>2. r.op = "delete" /\ r.op # "write"
    BY <1>3
  <2>3. CASE DeleteRefused(r)
    BY <2>2, <2>3, MatchAnswer DEF DeleteRefused
  <2>4. CASE Delete(r)
    BY <2>2, <2>4, MatchDelete
  <2> QED
    BY <2>1, <2>3, <2>4
<1> QED
  BY <1>5, <1>6, <1>7, <1>8, <1>9, <1>10 DEF Call

LEMMA MatchSystem ==
  ASSUME TypeInv, MatchInv, System
  PROVE  MatchInv'
<1>1. Started /\ Next
  BY DEF System, Started
<1>2. TypeInv'
  BY <1>1, TypeStep
<1>3. CASE Call
  BY <1>1, <1>3, MatchCall
<1>4. CASE PowerLoss
  BY <1>4, MatchPowerLoss
<1>5. CASE Kernel
  <2>1. CASE CreateFat32 \/ LoadFat
    BY <2>1, MatchBoot
  <2>2. CASE FollowChain
    BY <2>2, MatchFollowChain
  <2>3. CASE \E i \in Clusters : AllocateCluster(i) \/ AllocateLastCluster(i)
    BY <1>1, <1>2, <2>3, MatchAllocate, MatchAllocateLast
  <2>4. CASE DiskFull
    BY <1>1, <1>2, <2>4, MatchDiskFull
  <2>5. CASE WalkChain \/ EndOfChain
    BY <2>5, MatchWalk
  <2>6. CASE FlushWrite
    BY <1>1, <2>6, MatchFlushWrite
  <2>7. CASE Return
    BY <2>7, MatchReturn
  <2> QED
    BY <1>5, <2>1, <2>2, <2>3, <2>4, <2>5, <2>6, <2>7 DEF Kernel
<1> QED
  BY <1>1, <1>3, <1>4, <1>5 DEF Next

\* Nothing the host does is seen by a call: there is none while it runs.
LEMMA MatchHost ==
  ASSUME HostInv, MatchInv,
         \/ \E r \in Target : RunInserter(r)
         \/ Insert \/ SaveImage \/ InserterKilled \/ UNCHANGED inserterVars
  PROVE  MatchInv'
<1>1. CASE SaveImage
  <2>1. pc = "off" /\ pc' = "off" /\ locals' = locals /\ code' = code
    BY <1>1 DEF SaveImage, HostInv
  <2> QED
    BY <2>1 DEF MatchInv, DriverMatchesInserter, locals
<1>2. CASE ~SaveImage
  <2>1. UNCHANGED vars /\ start' = start
    BY <1>2 DEF RunInserter, Insert, InserterKilled, inserterVars
  <2>2. /\ disk' = disk /\ fat' = fat /\ table' = table /\ pc' = pc /\ req' = req
        /\ cur' = cur /\ prev' = prev /\ first' = first /\ counter' = counter
        /\ left' = left /\ queue' = queue /\ code' = code
    BY <2>1 DEF vars, locals
  <2>3. Placing' = Placing
    BY <2>1, <2>2 DEF Placing, PlacedParts
  <2>4. Saving' = Saving
    BY <2>1, <2>2 DEF Saving
  <2>5. DriverMatchesInserter' = DriverMatchesInserter
    BY <2>1, <2>2 DEF DriverMatchesInserter
  <2> QED
    BY <2>2, <2>3, <2>4, <2>5 DEF MatchInv
<1> QED
  BY <1>1, <1>2

LEMMA MatchStep ==
  ASSUME TypeInv, HostInv, MatchInv, [InserterNext]_inserterVars
  PROVE  MatchInv'
BY MatchSystem, MatchHost DEF InserterNext

\* The driver of the host repeats that of the system: whatever was done to the
\* disk before, and however many clusters a file takes or finds, the disk and
\* the code that write of fat32.c ends with are what write of fat32-no-cmos.c
\* makes of the same disk and the same request.
THEOREM DriversMatch == InserterSpec => []DriverMatchesInserter
<1>1. InserterInit => MatchInv
  BY MatchInit
<1>2. TypeInv /\ HostInv /\ MatchInv /\ [InserterNext]_inserterVars => MatchInv'
  BY MatchStep
<1>3. MatchInv => DriverMatchesInserter
  BY DEF MatchInv
<1> QED
  BY <1>1, <1>2, <1>3, HostAlways, PTL DEF InserterSpec

-----------------------------------------------------------------------------
(* What the host writes back is a disk that the system can use: the two    *)
(* reserved clusters hold what they must, and no link or entry leads to    *)
(* them.                                                                   *)

SafeImage(img) ==
  /\ \A c \in Clusters : img[c] = Blank \/ SafeCell(c, img[c])
  /\ \A c \in Reserved : SafeCell(c, img[c])

LEMMA InitializedSafe ==
  ASSUME NEW img \in [Clusters -> Cells],
         \A c \in Clusters : img[c] = Blank \/ SafeCell(c, img[c]),
         img[BOOT_SECTOR] = Signature => \A c \in Reserved : SafeCell(c, img[c])
  PROVE  SafeImage(Initialized(img))
<1>1. CASE img[BOOT_SECTOR] = Signature
  BY <1>1 DEF Initialized, SafeImage
<1>2. CASE img[BOOT_SECTOR] # Signature
  <2>1. SafeCell(ROOT_CLUSTER_NUMBER, DirCell(RootTable))
    <3>1. SafeTable(RootTable) /\ IsRootTable(RootTable)
      BY InitDirectoryTableSafe, ReservedFacts DEF RootTable
    <3> QED
      BY <3>1, DirCellSafe, ReservedFacts
  <2>2. SafeCell(FAT_CLUSTER_NUMBER, FatCell(FormattedMap))
    BY CellKinds, FormattedMapSafe, ReservedFacts DEF SafeCell
  <2>3. SafeCell(BOOT_SECTOR, Signature)
    BY CellKinds, ReservedFacts DEF SafeCell
  <2>4. /\ BOOT_SECTOR \in Clusters /\ ROOT_CLUSTER_NUMBER \in Clusters
        /\ FAT_CLUSTER_NUMBER \in Clusters
        /\ BOOT_SECTOR # ROOT_CLUSTER_NUMBER /\ BOOT_SECTOR # FAT_CLUSTER_NUMBER
        /\ ROOT_CLUSTER_NUMBER # FAT_CLUSTER_NUMBER
    BY ReservedFacts DEF Reserved
  <2>5. ASSUME NEW c \in Clusters
        PROVE  Formatted(img)[c] =
                 IF c = BOOT_SECTOR THEN Signature
                 ELSE IF c = ROOT_CLUSTER_NUMBER THEN DirCell(RootTable)
                 ELSE IF c = FAT_CLUSTER_NUMBER THEN FatCell(FormattedMap)
                 ELSE img[c]
    BY <2>4 DEF Formatted
  <2>6. SafeImage(Formatted(img))
    BY <2>1, <2>2, <2>3, <2>4, <2>5 DEF SafeImage, Reserved
  <2> QED
    BY <1>2, <2>6 DEF Initialized
<1> QED
  BY <1>1, <1>2

LEMMA ImageMapSafe ==
  ASSUME NEW img, SafeImage(img)
  PROVE  SafeMap(AsFat(img[FAT_CLUSTER_NUMBER]))
<1>1. SafeCell(FAT_CLUSTER_NUMBER, img[FAT_CLUSTER_NUMBER])
  BY DEF SafeImage, Reserved
<1> QED
  BY <1>1 DEF SafeCell, AsFat

LEMMA CodeZero ==
  ASSUME NEW img \in [Clusters -> Cells], NEW r \in FAT32DriverRequest,
         CodeFor(img, r) = 0, NEW p, p = r.parent_cluster_number
  PROVE  /\ p \in Clusters /\ img[p].kind = "dir"
         /\ AsTable(img[p]) = img[p].entries
         /\ AsTable(img[p]) \in FAT32DirectoryTable
         /\ ~Duplicate(AsTable(img[p]), r)
<1>1. p \in Clusters /\ ReadCluster(img, p) = img[p]
  BY DEF FAT32DriverRequest, ReadCluster
<1>2. /\ AsTable(img[p])[0].attribute = ATTR_SUBDIRECTORY
      /\ ~Duplicate(AsTable(img[p]), r)
  BY <1>1 DEF CodeFor
<1>3. img[p] \in Cells
  BY <1>1
<1> QED
  BY <1>1, <1>2, <1>3, DirectoryKind, AsTableType

LEMMA ParentCellSafe ==
  ASSUME NEW img \in [Clusters -> Cells], NEW r \in FAT32DriverRequest,
         CodeFor(img, r) = 0, SafeImage(img), NEW p, p = r.parent_cluster_number,
         NEW e, e.cluster \notin Reserved
  PROVE  /\ p # FAT_CLUSTER_NUMBER
         /\ SafeCell(p, DirCell(StoreEntry(MarkNotEmpty(AsTable(img[p]), p), e)))
<1>1. /\ p \in Clusters /\ img[p].kind = "dir" /\ AsTable(img[p]) = img[p].entries
      /\ AsTable(img[p]) \in FAT32DirectoryTable
  BY CodeZero
<1>2. img[p] # Blank
  BY <1>1, CellKinds
<1>3. SafeCell(p, img[p])
  BY <1>1, <1>2 DEF SafeImage
<1>4. p # FAT_CLUSTER_NUMBER /\ SafeTable(AsTable(img[p]))
  BY <1>1, <1>3 DEF SafeCell
<1>5. p = ROOT_CLUSTER_NUMBER => IsRootTable(AsTable(img[p]))
  BY <1>1, <1>3 DEF SafeCell, IsRoot
<1> DEFINE t == MarkNotEmpty(AsTable(img[p]), p)
<1>6. SafeTable(t) /\ (p = ROOT_CLUSTER_NUMBER => IsRootTable(t))
  BY <1>1, <1>4, <1>5, MarkNotEmptySafe
<1> HIDE DEF t
<1>7. /\ SafeTable(StoreEntry(t, e))
      /\ p = ROOT_CLUSTER_NUMBER => IsRootTable(StoreEntry(t, e))
  BY <1>6, StoreEntrySafe
<1>8. SafeCell(p, DirCell(StoreEntry(t, e)))
  BY <1>4, <1>7, DirCellSafe
<1> QED
  BY <1>4, <1>8 DEF t

LEMMA SavedSafe ==
  ASSUME NEW img \in [Clusters -> Cells], SafeImage(img), NEW m, SafeMap(m),
         NEW p \in Clusters, p # FAT_CLUSTER_NUMBER,
         NEW t, SafeCell(p, DirCell(t))
  PROVE  SafeImage(Saved(img, p, m, t))
<1>1. SafeCell(FAT_CLUSTER_NUMBER, FatCell(m))
  BY CellKinds, ReservedFacts DEF SafeCell
<1>2. FAT_CLUSTER_NUMBER \in Clusters /\ Reserved \subseteq Clusters
  BY ReservedFacts DEF Reserved
<1>3. ASSUME NEW c \in Clusters
      PROVE  Saved(img, p, m, t)[c] = IF c = p THEN DirCell(t)
                                      ELSE IF c = FAT_CLUSTER_NUMBER THEN FatCell(m)
                                      ELSE img[c]
  BY <1>2 DEF Saved
<1> QED
  BY <1>1, <1>2, <1>3 DEF SafeImage

LEMMA FileLinksSafe ==
  ASSUME NEW map \in FatMaps, SafeMap(map), NEW free, free = FreeFrom(map, 3),
         NEW n \in Nat, n =< Cardinality(free), NEW size
  PROVE  SafeMap(FileMap(map, free, n, size))
<1>1. free \in SUBSET Clusters /\ \A c \in free : c >= 3 /\ c \notin Reserved
  BY FreeClusters, ReservedFacts DEF Reserved
<1>2. Cardinality(free) \in Nat
  BY <1>1, ClusterSets
<1>3. ASSUME NEW c \in FilePart(free, n), PartIn(free, c) < n
      PROVE  Min({d \in free : d > c}) \notin Reserved
  <2>1. c \in free
    BY DEF FilePart
  <2>2. PartIn(free, c) < Cardinality(free)
    BY <1>1, <1>2, <1>3, <2>1, PartFromOne
  <2> QED
    BY <1>1, <2>1, <2>2, NextFree
<1>4. FAT_CLUSTER_NUMBER \notin FilePart(free, n)
      /\ ROOT_CLUSTER_NUMBER \notin FilePart(free, n)
  BY <1>1 DEF FilePart, Reserved
<1>5. FAT_CLUSTER_NUMBER \in Clusters /\ ROOT_CLUSTER_NUMBER \in Clusters
  BY ReservedFacts DEF Reserved
<1>6. SafeMap(FileLinks(map, free, n))
  BY <1>3, <1>4, <1>5 DEF SafeMap, FileLinks
<1> QED
  BY <1>6, SetLinkSafe, ReservedFacts DEF FileMap

LEMMA WithFileSafe ==
  ASSUME NEW img \in [Clusters -> Cells], SafeImage(img),
         NEW r \in FAT32DriverRequest, CodeFor(img, r) = 0
  PROVE  SafeImage(WithFile(img, r))
<1>1. PICK map \in FatMaps : map = AsFat(img[FAT_CLUSTER_NUMBER])
  BY MapOfImage
<1>2. PICK free : free = FreeFrom(map, 3)
  OBVIOUS
<1>3. free \in SUBSET Clusters /\ \A c \in free : c >= 3 /\ c \notin Reserved
  BY <1>2, FreeClusters, ReservedFacts DEF Reserved
<1>4. r.buffer_size \in Nat /\ r.parent_cluster_number \in Clusters
  BY DEF FAT32DriverRequest
<1>5. PICK n \in Nat : n = Placed(free, r.buffer_size)
  BY <1>3, <1>4, PlacedIs
<1>6. n =< Cardinality(free)
  BY <1>3, <1>4, <1>5, PlacedIs
<1>7. PICK p \in Clusters : p = r.parent_cluster_number
  BY <1>4
<1>8. PICK e : e = NewFile(free, n, r)
  OBVIOUS
<1>9. PICK m : m = FileMap(map, free, n, r.buffer_size)
  OBVIOUS
<1>10. PICK t : t = StoreEntry(MarkNotEmpty(AsTable(img[p]), p), e)
  OBVIOUS
<1>11. PICK filled \in [Clusters -> Cells] : filled = FileFilled(img, free, n, r)
  BY <1>3, FileFilledType
<1>12. WithFile(img, r) = Saved(filled, p, m, t)
  BY <1>1, <1>2, <1>5, <1>7, <1>8, <1>9, <1>10, <1>11, WithFileIs
<1>13. SafeMap(m)
  BY <1>1, <1>2, <1>6, <1>9, ImageMapSafe, FileLinksSafe
<1>14. e.cluster \notin Reserved
  <2>1. e.cluster = IF n > 0 THEN Min(FilePart(free, n)) ELSE 0
    BY <1>8 DEF NewFile, FileEntry
  <2>2. n > 0 => Min(FilePart(free, n)) \in free
    BY <1>3, <1>6, FirstPart
  <2> QED
    BY <1>3, <2>1, <2>2, ReservedFacts
<1>15. p # FAT_CLUSTER_NUMBER /\ SafeCell(p, DirCell(t))
  BY <1>7, <1>10, <1>14, ParentCellSafe
<1>16. SafeImage(filled)
  <2>1. \A c \in Clusters : c \in FilePart(free, n) =>
          c \notin Reserved /\ SafeCell(c, filled[c])
    BY <1>3, <1>11, CellKinds DEF FilePart, FileFilled, SafeCell, Reserved
  <2>2. \A c \in Clusters : c \notin FilePart(free, n) => filled[c] = img[c]
    BY <1>11 DEF FileFilled
  <2>3. Reserved \subseteq Clusters
    BY ReservedFacts
  <2> QED
    BY <2>1, <2>2, <2>3 DEF SafeImage
<1> QED
  BY <1>12, <1>13, <1>15, <1>16, SavedSafe

LEMMA WithFolderSafe ==
  ASSUME NEW img \in [Clusters -> Cells], SafeImage(img),
         NEW r \in FAT32DriverRequest, CodeFor(img, r) = 0
  PROVE  SafeImage(WithFolder(img, r))
<1>1. PICK map \in FatMaps : map = AsFat(img[FAT_CLUSTER_NUMBER])
  BY MapOfImage
<1>2. PICK index \in Clusters : index = FolderIndex(map)
  BY FolderIndexIs
<1>3. PICK p \in Clusters : p = r.parent_cluster_number
  BY DEF FAT32DriverRequest
<1>4. PICK e : e = FolderEntry(r, index)
  OBVIOUS
<1>5. PICK m : m = SetLink(map, index, FAT32_FAT_END_OF_FILE)
  OBVIOUS
<1>6. PICK t : t = StoreEntry(MarkNotEmpty(AsTable(img[p]), p), e)
  OBVIOUS
<1>7. PICK cell : cell = DirCell(InitDirectoryTable(r.name, p))
  OBVIOUS
<1>8. PICK img1 : img1 = Saved(img, p, m, t)
  OBVIOUS
<1>9. WithFolder(img, r) = [img1 EXCEPT ![index] = cell]
  BY <1>1, <1>2, <1>3, <1>4, <1>5, <1>6, <1>7, <1>8, WithFolderIs
<1>10. SafeMap(map)
  BY <1>1, ImageMapSafe
<1>11. index \notin Reserved
  BY <1>2, <1>10, FolderIndexIs, ReservedFacts DEF SafeMap, Reserved
<1>12. SafeMap(m)
  BY <1>5, <1>10, SetLinkSafe, ReservedFacts
<1>13. e.cluster \notin Reserved
  BY <1>4, <1>11 DEF FolderEntry
<1>14. p # FAT_CLUSTER_NUMBER /\ SafeCell(p, DirCell(t))
  BY <1>3, <1>6, <1>13, ParentCellSafe
<1>15. SafeImage(img1)
  BY <1>8, <1>12, <1>14, SavedSafe
<1>16. SafeCell(index, cell)
  <2>1. SafeTable(InitDirectoryTable(r.name, p))
    BY <1>14, InitDirectoryTableSafe
  <2> QED
    BY <1>7, <1>11, <2>1, DirCellSafe DEF Reserved
<1>17. DOMAIN img1 = Clusters
  BY <1>8 DEF Saved
<1>18. \A c \in Clusters :
         [img1 EXCEPT ![index] = cell][c] = IF c = index THEN cell ELSE img1[c]
  BY <1>17
<1>19. Reserved \subseteq Clusters
  BY ReservedFacts
<1> QED
  BY <1>9, <1>11, <1>15, <1>16, <1>18, <1>19 DEF SafeImage

LEMMA WrittenSafe ==
  ASSUME NEW img \in [Clusters -> Cells], SafeImage(img),
         NEW r \in FAT32DriverRequest
  PROVE  SafeImage(Written(img, r))
BY WithFileSafe, WithFolderSafe DEF Written

LEMMA SafeSave ==
  ASSUME SafeInv, HostInv, SaveImage, TypeInv'
  PROVE  SafeInv'
<1>1. /\ pc = "off" /\ pc' = "off" /\ args \in FAT32DriverRequest
      /\ disk' = Written(Initialized(disk), args)
      /\ disk \in [Clusters -> Cells]
  BY TargetType DEF HostInv, SaveImage, SafeInv, TypeInv, TypeOK
<1>2. PICK img : img = Initialized(disk)
  OBVIOUS
<1>3. img \in [Clusters -> Cells] /\ SafeImage(img)
  <2>1. SafeImage(Initialized(disk))
    BY <1>1, InitializedSafe DEF SafeInv, DiskSafe
  <2> QED
    BY <1>1, <1>2, <2>1, InitializedType
<1>4. SafeImage(disk')
  BY <1>1, <1>2, <1>3, WrittenSafe
<1>5. DiskSafe'
  BY <1>4 DEF SafeImage, DiskSafe
<1>6. FormatSafe'
  BY <1>1 DEF FormatSafe
<1>7. QueueSafe' /\ CallSafe'
  BY DEF SaveImage, SafeInv, QueueSafe, CallSafe, locals
<1> QED
  BY <1>5, <1>6, <1>7 DEF SafeInv

LEMMA InserterSafeStep ==
  ASSUME SafeInv, HostInv, [InserterNext]_inserterVars,
         "format" \notin PowerFailsAt
  PROVE  SafeInv'
<1>1. CASE SaveImage
  <2>1. TypeInv'
    BY HostStep DEF SafeInv
  <2> QED
    BY <1>1, <2>1, SafeSave
<1>2. CASE ~SaveImage
  <2>1. [Next]_vars
    BY <1>2 DEF InserterNext, System, RunInserter, Insert, InserterKilled,
                inserterVars
  <2> QED
    BY <2>1, SafeStep
<1> QED
  BY <1>1, <1>2

LEMMA InserterSafe ==
  ASSUME "format" \notin PowerFailsAt
  PROVE  InserterSpec => []SafeInv
<1>1. InserterInit => SafeInv
  BY SafeInit DEF InserterInit
<1>2. SafeInv /\ HostInv /\ [InserterNext]_inserterVars => SafeInv'
  BY InserterSafeStep
<1> QED
  BY <1>1, <1>2, HostAlways, PTL DEF InserterSpec

\* The inserter between the runs of the system does not break what the driver
\* of the system relies on: whichever cluster it is given as parent, the FAT
\* and the root directory stay where they are (fat32-no-cmos.c:231-375).
THEOREM InserterKeepsReserved ==
  ASSUME "format" \notin PowerFailsAt
  PROVE  InserterSpec => []ReservedClustersIntact
<1>1. SafeInv => ReservedClustersIntact
  BY SafeInvSuffices
<1> QED
  BY <1>1, InserterSafe, PTL

-----------------------------------------------------------------------------
(* The directory tables of what the host writes back: no name twice.       *)

UniqueImage(img) == \A c \in Clusters : UniqueCell(img[c])

LEMMA InitializedUnique ==
  ASSUME NEW img \in [Clusters -> Cells], UniqueImage(img)
  PROVE  UniqueImage(Initialized(img))
<1>1. UniqueCell(DirCell(RootTable))
  BY InitUnique, UniqueCells DEF RootTable
<1>2. UniqueCell(FatCell(FormattedMap)) /\ UniqueCell(Signature)
  BY UniqueCells
<1>3. \A c \in Clusters : Formatted(img)[c] \in
        {Signature, DirCell(RootTable), FatCell(FormattedMap), img[c]}
  BY DEF Formatted
<1> QED
  BY <1>1, <1>2, <1>3 DEF UniqueImage, Initialized

LEMMA ParentCellUnique ==
  ASSUME NEW img \in [Clusters -> Cells], NEW r \in FAT32DriverRequest,
         CodeFor(img, r) = 0, UniqueImage(img), NEW p, p = r.parent_cluster_number,
         NEW e, e.name = r.name, e.ext = r.ext
  PROVE  UniqueCell(DirCell(StoreEntry(MarkNotEmpty(AsTable(img[p]), p), e)))
<1>1. /\ p \in Clusters /\ img[p].kind = "dir" /\ AsTable(img[p]) = img[p].entries
      /\ AsTable(img[p]) \in FAT32DirectoryTable
      /\ ~Duplicate(AsTable(img[p]), r)
  BY CodeZero
<1>2. Accepts(AsTable(img[p]), r)
  BY <1>1 DEF UniqueImage, UniqueCell, Accepts
<1> DEFINE t == MarkNotEmpty(AsTable(img[p]), p)
<1>3. NamedAs(AsTable(img[p]), t)
  BY <1>1, MarkNamedAs
<1>4. Accepts(t, r)
  BY <1>2, <1>3, NamedAsAccepts
<1> HIDE DEF t
<1>5. Unique(StoreEntry(t, e))
  BY <1>4, StoreUnique
<1> QED
  BY <1>5, UniqueCells DEF t

LEMMA SavedUnique ==
  ASSUME NEW img \in [Clusters -> Cells], UniqueImage(img), NEW m, NEW p,
         NEW t, UniqueCell(DirCell(t))
  PROVE  UniqueImage(Saved(img, p, m, t))
<1>1. \A c \in Clusters : Saved(img, p, m, t)[c] \in {DirCell(t), FatCell(m), img[c]}
  BY DEF Saved
<1>2. UniqueCell(FatCell(m))
  BY UniqueCells
<1> QED
  BY <1>1, <1>2 DEF UniqueImage

LEMMA WithFileUnique ==
  ASSUME NEW img \in [Clusters -> Cells], UniqueImage(img),
         NEW r \in FAT32DriverRequest, CodeFor(img, r) = 0
  PROVE  UniqueImage(WithFile(img, r))
<1>1. PICK map : map = AsFat(img[FAT_CLUSTER_NUMBER])
  OBVIOUS
<1>2. PICK free : free = FreeFrom(map, 3)
  OBVIOUS
<1>3. PICK n : n = Placed(free, r.buffer_size)
  OBVIOUS
<1>4. PICK p : p = r.parent_cluster_number
  OBVIOUS
<1>5. PICK e : e = NewFile(free, n, r)
  OBVIOUS
<1>6. PICK m : m = FileMap(map, free, n, r.buffer_size)
  OBVIOUS
<1>7. PICK t : t = StoreEntry(MarkNotEmpty(AsTable(img[p]), p), e)
  OBVIOUS
<1>8. PICK filled \in [Clusters -> Cells] : filled = FileFilled(img, free, n, r)
  BY <1>2, FreeClusters, FileFilledType
<1>9. WithFile(img, r) = Saved(filled, p, m, t)
  BY <1>1, <1>2, <1>3, <1>4, <1>5, <1>6, <1>7, <1>8, WithFileIs
<1>10. e.name = r.name /\ e.ext = r.ext
  BY <1>5 DEF NewFile, FileEntry
<1>11. UniqueCell(DirCell(t))
  BY <1>4, <1>7, <1>10, ParentCellUnique
<1>12. UniqueImage(filled)
  BY <1>8, UniqueCells DEF UniqueImage, FileFilled
<1> QED
  BY <1>9, <1>11, <1>12, SavedUnique

LEMMA WithFolderUnique ==
  ASSUME NEW img \in [Clusters -> Cells], UniqueImage(img),
         NEW r \in FAT32DriverRequest, CodeFor(img, r) = 0, r.ext = NoExt
  PROVE  UniqueImage(WithFolder(img, r))
<1>1. PICK map : map = AsFat(img[FAT_CLUSTER_NUMBER])
  OBVIOUS
<1>2. PICK index : index = FolderIndex(map)
  OBVIOUS
<1>3. PICK p : p = r.parent_cluster_number
  OBVIOUS
<1>4. PICK e : e = FolderEntry(r, index)
  OBVIOUS
<1>5. PICK m : m = SetLink(map, index, FAT32_FAT_END_OF_FILE)
  OBVIOUS
<1>6. PICK t : t = StoreEntry(MarkNotEmpty(AsTable(img[p]), p), e)
  OBVIOUS
<1>7. PICK cell : cell = DirCell(InitDirectoryTable(r.name, p))
  OBVIOUS
<1>8. PICK img1 : img1 = Saved(img, p, m, t)
  OBVIOUS
<1>9. WithFolder(img, r) = [img1 EXCEPT ![index] = cell]
  BY <1>1, <1>2, <1>3, <1>4, <1>5, <1>6, <1>7, <1>8, WithFolderIs
<1>10. e.name = r.name /\ e.ext = r.ext
  BY <1>4 DEF FolderEntry
<1>11. UniqueCell(DirCell(t))
  BY <1>3, <1>6, <1>10, ParentCellUnique
<1>12. UniqueImage(img1)
  BY <1>8, <1>11, SavedUnique
<1>13. UniqueCell(cell)
  BY <1>7, InitUnique, UniqueCells
<1>14. DOMAIN img1 = Clusters
  BY <1>8 DEF Saved
<1> QED
  BY <1>9, <1>12, <1>13, <1>14 DEF UniqueImage

LEMMA UniqueSave ==
  ASSUME TypeInv, HostInv, UniqueInv, SaveImage
  PROVE  UniqueInv'
<1>1. /\ pc = "off" /\ pc' = "off" /\ args \in FAT32DriverRequest
      /\ args.ext = NoExt /\ queue' = queue
      /\ disk' = Written(Initialized(disk), args)
      /\ disk \in [Clusters -> Cells]
  BY TargetType DEF HostInv, SaveImage, TypeInv, TypeOK, Target
<1>2. PICK img : img = Initialized(disk)
  OBVIOUS
<1>3. UniqueImage(disk)
  BY NamesUniqueCells DEF UniqueInv, UniqueImage
<1>4. img \in [Clusters -> Cells] /\ UniqueImage(img)
  BY <1>1, <1>2, <1>3, InitializedType, InitializedUnique
<1>5. UniqueImage(Written(img, args))
  BY <1>1, <1>4, WithFileUnique, WithFolderUnique DEF Written
<1>6. \A c \in Clusters : UniqueCell(disk'[c])
  BY <1>1, <1>2, <1>5 DEF UniqueImage
<1>7. NamesUnique'
  BY <1>6 DEF NamesUnique, UniqueCell, Unique
<1> QED
  BY <1>1, <1>7 DEF UniqueInv

LEMMA InserterUniqueStep ==
  ASSUME TypeInv, HostInv, UniqueInv, FolderExts \subseteq {NoExt}, WholeWrites,
         [InserterNext]_inserterVars
  PROVE  UniqueInv'
<1>1. CASE SaveImage
  BY <1>1, UniqueSave
<1>2. CASE ~SaveImage
  <2>1. [Next]_vars
    BY <1>2 DEF InserterNext, System, RunInserter, Insert, InserterKilled,
                inserterVars
  <2> QED
    BY <2>1, UniqueStep
<1> QED
  BY <1>1, <1>2

\* The inserter adds no second entry of a name either, with entries of the
\* system before and after it (fat32-no-cmos.c:240-255).
THEOREM InserterNamesUnique ==
  ASSUME FolderExts \subseteq {NoExt}, WholeWrites
  PROVE  InserterSpec => []NamesUnique
<1>1. InserterInit => UniqueInv
  BY UniqueInit DEF InserterInit
<1>2. TypeInv /\ HostInv /\ UniqueInv /\ [InserterNext]_inserterVars => UniqueInv'
  BY InserterUniqueStep
<1>3. UniqueInv => NamesUnique
  BY DEF UniqueInv
<1> QED
  BY <1>1, <1>2, <1>3, HostAlways, PTL DEF InserterSpec

-----------------------------------------------------------------------------
(* Folders: mkdir lists them late, with inserter runs in between as well.  *)

LEMMA InserterFolderStep ==
  ASSUME SafeInv, HostInv, FolderInv, [InserterNext]_inserterVars
  PROVE  FolderInv' /\ [FolderListed]_vars
<1>1. CASE SaveImage
  <2>1. pc = "off" /\ ~FolderCall
    BY <1>1 DEF SaveImage, HostInv, FolderInv, FolderCall
  <2>2. FolderListed
    BY <2>1, NotListed
  <2>3. FolderInv'
    BY <1>1, <2>1 DEF SaveImage, FolderInv
  <2> QED
    BY <2>2, <2>3
<1>2. CASE ~SaveImage
  <2>1. [Next]_vars
    BY <1>2 DEF InserterNext, System, RunInserter, Insert, InserterKilled,
                inserterVars
  <2> QED
    BY <2>1, FolderStep
<1> QED
  BY <1>1, <1>2

\* mkdir of the system takes a cluster before it lists a folder on a disk that
\* an inserter has changed as well (fat32.c:258-260).
THEOREM InserterFoldersListedLate ==
  ASSUME "format" \notin PowerFailsAt
  PROVE  InserterSpec => FoldersListedAfterAllocation
<1>1. InserterInit => FolderInv
  BY FolderInit DEF InserterInit
<1>2. SafeInv /\ HostInv /\ FolderInv /\ [InserterNext]_inserterVars => FolderInv'
  BY InserterFolderStep
<1>3. SafeInv /\ HostInv /\ FolderInv /\ [InserterNext]_inserterVars =>
        [\A c \in Clusters, s \in Slots \ {0} :
           FolderAppears(c, s) =>
             AsFat(disk[FAT_CLUSTER_NUMBER])[disk'[c].entries[s].cluster]
               = FAT32_FAT_END_OF_FILE]_vars
  BY InserterFolderStep DEF FolderListed
<1> QED
  BY <1>1, <1>2, <1>3, HostAlways, InserterSafe, PTL
     DEF InserterSpec, FoldersListedAfterAllocation

-----------------------------------------------------------------------------
(* What an inserter run does to the root directory.                        *)

\* What callers and users of the inserter keep to, and where the power stays on.
PlainNames ==
  /\ "format" \notin PowerFailsAt
  /\ NoName \notin CallerNames /\ RootName \notin CallerNames

ListedIn(t) ==
  {<<t[s].name, t[s].ext>> : s \in {q \in Slots \ {0} : t[q].name # NoName}}

RootOf(img) == AsTable(img[ROOT_CLUSTER_NUMBER])

LEMMA InitializedLists ==
  ASSUME NEW img \in [Clusters -> Cells]
  PROVE  ListedIn(RootOf(Initialized(img))) =
           IF img[BOOT_SECTOR] # Signature THEN {} ELSE ListedIn(RootOf(img))
<1>1. CASE img[BOOT_SECTOR] # Signature
  <2>1. /\ ROOT_CLUSTER_NUMBER \in Clusters
        /\ ROOT_CLUSTER_NUMBER # FAT_CLUSTER_NUMBER
    BY ReservedFacts DEF Reserved
  <2>2. Formatted(img)[ROOT_CLUSTER_NUMBER] = DirCell(RootTable)
    BY <2>1 DEF Formatted
  <2>3. RootOf(Initialized(img)) = RootTable
    BY <1>1, <2>2, FreshTable DEF Initialized, RootOf
  <2>4. \A s \in Slots \ {0} : RootTable[s].name = NoName
    BY DEF RootTable, InitDirectoryTable, ZeroEntry
  <2> QED
    BY <1>1, <2>3, <2>4 DEF ListedIn
<1>2. CASE img[BOOT_SECTOR] = Signature
  BY <1>2 DEF Initialized
<1> QED
  BY <1>1, <1>2

\* A table with room lists one entry more, a full one stays as it is.
LEMMA StoreLists ==
  ASSUME NEW t, NEW u, NamedAs(t, u), t[0].name # NoName,
         NEW e, e.name # NoName
  PROVE  ListedIn(StoreEntry(u, e)) =
           IF \A s \in Slots : t[s].name # NoName THEN ListedIn(t)
           ELSE ListedIn(t) \cup {<<e.name, e.ext>>}
<1>1. \A s \in Slots : u[s].name = t[s].name /\ u[s].ext = t[s].ext
  BY DEF NamedAs
<1>2. CASE \A s \in Slots : t[s].name # NoName
  <2>1. \A s \in Slots : ~IsFirstUnused(u, s)
    BY <1>1, <1>2 DEF IsFirstUnused
  <2>2. \A s \in Slots : StoreEntry(u, e)[s] = u[s]
    BY <2>1 DEF StoreEntry
  <2> QED
    BY <1>1, <1>2, <2>2 DEF ListedIn
<1>3. CASE ~(\A s \in Slots : t[s].name # NoName)
  <2> DEFINE unused == {s \in Slots : u[s].name = NoName}
  <2>1. unused \in SUBSET Nat /\ unused # {}
    BY <1>1, <1>3, ClusterFacts
  <2>2. PICK x \in unused : \A q \in unused : x =< q
    BY <2>1, LeastNat
  <2>3. \A q \in Slots : q \in Int
    BY ClusterFacts
  <2>4. x \in Slots /\ IsFirstUnused(u, x)
    BY <2>2, <2>3 DEF IsFirstUnused
  <2>5. \A s \in Slots : IsFirstUnused(u, s) => s = x
    BY <2>3, <2>4 DEF IsFirstUnused
  <2>6. x # 0 /\ t[x].name = NoName
    BY <1>1, <2>4, ClusterFacts DEF IsFirstUnused
  <2>7. \A s \in Slots : StoreEntry(u, e)[s] = IF s = x THEN e ELSE u[s]
    BY <2>4, <2>5 DEF StoreEntry
  <2> HIDE DEF unused
  <2> DEFINE v == StoreEntry(u, e)
  <2>8. /\ v[x] = e
        /\ \A s \in Slots \ {x} : v[s].name = t[s].name /\ v[s].ext = t[s].ext
    BY <1>1, <2>4, <2>7
  <2> HIDE DEF v
  <2>9. ASSUME NEW k \in ListedIn(v)
        PROVE  k \in ListedIn(t) \cup {<<e.name, e.ext>>}
    <3>1. PICK s \in Slots \ {0} : v[s].name # NoName /\ k = <<v[s].name, v[s].ext>>
      BY <2>9 DEF ListedIn
    <3>2. CASE s = x
      BY <3>1, <3>2, <2>8
    <3>3. CASE s # x
      <4>1. t[s].name # NoName /\ k = <<t[s].name, t[s].ext>>
        BY <3>1, <3>3, <2>8
      <4> QED
        BY <4>1 DEF ListedIn
    <3> QED
      BY <3>2, <3>3
  <2>10. ASSUME NEW k \in ListedIn(t)
         PROVE  k \in ListedIn(v)
    <3>1. PICK s \in Slots \ {0} : t[s].name # NoName /\ k = <<t[s].name, t[s].ext>>
      BY <2>10 DEF ListedIn
    <3>2. s # x
      BY <3>1, <2>6
    <3>3. v[s].name # NoName /\ k = <<v[s].name, v[s].ext>>
      BY <3>1, <3>2, <2>8
    <3> QED
      BY <3>3 DEF ListedIn
  <2>11. <<e.name, e.ext>> \in ListedIn(v)
    <3>1. x \in Slots \ {0} /\ v[x].name # NoName
      BY <2>4, <2>6, <2>8
    <3> QED
      BY <3>1, <2>8 DEF ListedIn
  <2>12. ListedIn(v) = ListedIn(t) \cup {<<e.name, e.ext>>}
    BY <2>9, <2>10, <2>11
  <2> QED
    BY <1>3, <2>12 DEF v
<1> QED
  BY <1>2, <1>3

\* Of the root directory the write of a file or folder changes only the table
\* of its own parent.
EntryInRoot(img, r, new) ==
  \E e : /\ e.name = r.name /\ e.ext = r.ext
         /\ RootOf(new) =
              StoreEntry(MarkNotEmpty(RootOf(img), ROOT_CLUSTER_NUMBER), e)

LEMMA RootWritten ==
  ASSUME NEW img \in [Clusters -> Cells], SafeImage(img),
         NEW r \in FAT32DriverRequest, CodeFor(img, r) = 0, r.ext = NoExt,
         NEW p, p = r.parent_cluster_number
  PROVE  /\ p # ROOT_CLUSTER_NUMBER => RootOf(Written(img, r)) = RootOf(img)
         /\ p = ROOT_CLUSTER_NUMBER => EntryInRoot(img, r, Written(img, r))
<1>1. PICK map \in FatMaps : map = AsFat(img[FAT_CLUSTER_NUMBER])
  BY MapOfImage
<1>2. /\ ROOT_CLUSTER_NUMBER \in Clusters
      /\ ROOT_CLUSTER_NUMBER # FAT_CLUSTER_NUMBER
  BY ReservedFacts DEF Reserved
<1>3. p \in Clusters
  BY CodeZero
<1>4. ASSUME NEW i, DOMAIN i = Clusters, NEW m, NEW t
      PROVE  Saved(i, p, m, t)[ROOT_CLUSTER_NUMBER] =
               IF p = ROOT_CLUSTER_NUMBER THEN DirCell(t) ELSE i[ROOT_CLUSTER_NUMBER]
  BY <1>2, <1>4 DEF Saved
<1>5. \A t : AsTable(DirCell(t)) = t
  BY CellKinds DEF AsTable
<1>6. CASE r.buffer_size # 0
  <2>1. PICK free : free = FreeFrom(map, 3)
    OBVIOUS
  <2>2. PICK n : n = Placed(free, r.buffer_size)
    OBVIOUS
  <2>3. PICK e : e = NewFile(free, n, r)
    OBVIOUS
  <2>4. PICK m : m = FileMap(map, free, n, r.buffer_size)
    OBVIOUS
  <2>5. PICK t : t = StoreEntry(MarkNotEmpty(AsTable(img[p]), p), e)
    OBVIOUS
  <2>6. PICK filled \in [Clusters -> Cells] : filled = FileFilled(img, free, n, r)
    <3>1. free \in SUBSET Clusters
      BY <2>1, FreeClusters
    <3> QED
      BY <3>1, FileFilledType
  <2>7. Written(img, r) = Saved(filled, p, m, t)
    <3>1. WithFile(img, r) = Saved(filled, p, m, t)
      BY <1>1, <2>1, <2>2, <2>3, <2>4, <2>5, <2>6, WithFileIs
    <3> QED
      BY <3>1, <1>6 DEF Written
  <2>8. filled[ROOT_CLUSTER_NUMBER] = img[ROOT_CLUSTER_NUMBER]
    <3>1. ROOT_CLUSTER_NUMBER \notin FilePart(free, n)
      BY <2>1, FreeClusters, ReservedFacts DEF FilePart
    <3> QED
      BY <3>1, <2>6, <1>2 DEF FileFilled
  <2>9. e.name = r.name /\ e.ext = r.ext
    BY <2>3 DEF NewFile, FileEntry
  <2>10. Written(img, r)[ROOT_CLUSTER_NUMBER] =
           IF p = ROOT_CLUSTER_NUMBER THEN DirCell(t) ELSE img[ROOT_CLUSTER_NUMBER]
    BY <1>4, <2>6, <2>7, <2>8
  <2> QED
    BY <1>5, <2>5, <2>9, <2>10 DEF RootOf, EntryInRoot
<1>7. CASE r.buffer_size = 0
  <2>1. PICK index \in Clusters : index = FolderIndex(map)
    BY FolderIndexIs
  <2>2. PICK e : e = FolderEntry(r, index)
    OBVIOUS
  <2>3. PICK m : m = SetLink(map, index, FAT32_FAT_END_OF_FILE)
    OBVIOUS
  <2>4. PICK t : t = StoreEntry(MarkNotEmpty(AsTable(img[p]), p), e)
    OBVIOUS
  <2>5. PICK cell : cell = DirCell(InitDirectoryTable(r.name, p))
    OBVIOUS
  <2>6. PICK img1 : img1 = Saved(img, p, m, t)
    OBVIOUS
  <2>7. Written(img, r) = [img1 EXCEPT ![index] = cell]
    <3>1. WithFolder(img, r) = [img1 EXCEPT ![index] = cell]
      BY <1>1, <2>1, <2>2, <2>3, <2>4, <2>5, <2>6, WithFolderIs
    <3> QED
      BY <3>1, <1>7 DEF Written
  <2>8. index # ROOT_CLUSTER_NUMBER
    <3>1. SafeMap(map)
      BY <1>1, ImageMapSafe
    <3> QED
      BY <2>1, <3>1, FolderIndexIs, ReservedFacts DEF SafeMap
  <2>9. e.name = r.name /\ e.ext = r.ext
    BY <2>2 DEF FolderEntry
  <2>10. Written(img, r)[ROOT_CLUSTER_NUMBER] = img1[ROOT_CLUSTER_NUMBER]
    BY <2>7, <2>8
  <2>11. img1[ROOT_CLUSTER_NUMBER] =
           IF p = ROOT_CLUSTER_NUMBER THEN DirCell(t) ELSE img[ROOT_CLUSTER_NUMBER]
    BY <1>4, <2>6
  <2> QED
    BY <1>5, <2>4, <2>9, <2>10, <2>11 DEF RootOf, EntryInRoot
<1> QED
  BY <1>6, <1>7

LEMMA WrittenLists ==
  ASSUME NEW img \in [Clusters -> Cells], SafeImage(img), PlainNames,
         NEW r \in Target,
         NEW p, p = r.parent_cluster_number
  PROVE  ListedIn(RootOf(Written(img, r))) =
           ListedIn(RootOf(img)) \cup
             (IF p = ROOT_CLUSTER_NUMBER /\ ~RootFull(img)
                THEN {<<r.name, r.ext>>} ELSE {})
<1>1. /\ r \in FAT32DriverRequest /\ r.ext = NoExt
      /\ r.name # NoName /\ r.name # RootName
  BY TargetType DEF Target, PlainNames
<1>2. IsRoot(img[ROOT_CLUSTER_NUMBER]) /\ img[ROOT_CLUSTER_NUMBER] \in Cells
  BY ReservedFacts DEF SafeImage, SafeCell, Reserved
<1>3. /\ IsRootTable(RootOf(img)) /\ RootOf(img) \in FAT32DirectoryTable
      /\ RootOf(img)[0].name = RootName
      /\ RootOf(img)[0].attribute = ATTR_SUBDIRECTORY
  BY <1>2, AsTableType DEF IsRoot, IsRootTable, RootOf, AsTable
<1>4. RootName # NoName
  BY LayoutAssumption
<1>5. CASE CodeFor(img, r) = 0
  <2>1. CASE p # ROOT_CLUSTER_NUMBER
    BY <1>1, <1>5, <2>1, RootWritten
  <2>2. CASE p = ROOT_CLUSTER_NUMBER
    <3>1. PICK e : /\ e.name = r.name /\ e.ext = r.ext
                   /\ RootOf(Written(img, r)) =
                        StoreEntry(MarkNotEmpty(RootOf(img), p), e)
      <4>1. EntryInRoot(img, r, Written(img, r))
        BY <1>1, <1>5, <2>2, RootWritten
      <4> QED
        BY <4>1, <2>2 DEF EntryInRoot
    <3>2. PICK u : u = MarkNotEmpty(RootOf(img), p)
      OBVIOUS
    <3>3. NamedAs(RootOf(img), u)
      BY <1>3, <3>2, MarkNamedAs
    <3>4. PICK t : t = RootOf(img)
      OBVIOUS
    <3>5. ListedIn(StoreEntry(u, e)) =
            IF \A s \in Slots : t[s].name # NoName THEN ListedIn(t)
            ELSE ListedIn(t) \cup {<<e.name, e.ext>>}
      BY <1>1, <1>3, <1>4, <3>1, <3>3, <3>4, StoreLists
    <3>6. RootFull(img) <=> \A s \in Slots : t[s].name # NoName
      BY <3>4 DEF RootFull, RootOf
    <3> QED
      BY <2>2, <3>1, <3>2, <3>4, <3>5, <3>6
  <2> QED
    BY <2>1, <2>2
<1>6. CASE CodeFor(img, r) # 0
  <2>1. Written(img, r) = img
    BY <1>6 DEF Written
  <2>2. CASE p # ROOT_CLUSTER_NUMBER
    BY <2>1, <2>2
  <2>3. CASE p = ROOT_CLUSTER_NUMBER
    <3>1. ReadCluster(img, p) = img[ROOT_CLUSTER_NUMBER]
      BY <2>3, ReservedFacts DEF ReadCluster, Reserved
    <3>2. Duplicate(RootOf(img), r)
      BY <1>3, <1>6, <3>1 DEF CodeFor, RootOf
    <3>3. PICK s \in Slots : RootOf(img)[s].name = r.name /\ RootOf(img)[s].ext = r.ext
      BY <3>2 DEF Duplicate
    <3>4. s # 0
      BY <1>1, <1>3, <3>3
    <3>5. <<r.name, r.ext>> \in ListedIn(RootOf(img))
      <4>1. PICK t : t = RootOf(img)
        OBVIOUS
      <4>2. s \in Slots \ {0} /\ t[s].name # NoName
            /\ <<r.name, r.ext>> = <<t[s].name, t[s].ext>>
        BY <1>1, <3>3, <3>4, <4>1
      <4>3. <<r.name, r.ext>> \in ListedIn(t)
        BY <4>2 DEF ListedIn
      <4> QED
        BY <4>1, <4>3
    <3> QED
      BY <2>1, <3>5
  <2> QED
    BY <2>2, <2>3
<1> QED
  BY <1>5, <1>6

LEMMA SaveInserts ==
  ASSUME SafeInv, HostInv, PlainNames, SaveImage
  PROVE  Listing' = RootListing \cup Inserted
<1>1. /\ args \in Target
      /\ disk' = Written(Initialized(disk), args)
      /\ disk \in [Clusters -> Cells] /\ pc = "off"
  BY DEF HostInv, SaveImage, SafeInv, TypeInv, TypeOK
<1>2. PICK img : img = Initialized(disk)
  OBVIOUS
<1>3. img \in [Clusters -> Cells] /\ SafeImage(img)
  <2>1. SafeImage(Initialized(disk))
    BY <1>1, InitializedSafe DEF SafeInv, DiskSafe
  <2> QED
    BY <1>1, <1>2, <2>1, InitializedType
<1>4. PICK p : p = args.parent_cluster_number
  OBVIOUS
<1>5. ListedIn(RootOf(Written(img, args))) =
        ListedIn(RootOf(img)) \cup
          (IF p = ROOT_CLUSTER_NUMBER /\ ~RootFull(img)
             THEN {<<args.name, args.ext>>} ELSE {})
  BY <1>1, <1>3, <1>4, WrittenLists
<1>6. Inserted = IF p = ROOT_CLUSTER_NUMBER /\ ~RootFull(img)
                   THEN {<<args.name, args.ext>>} ELSE {}
  BY <1>2, <1>4 DEF Inserted
<1>7. RootListing = ListedIn(RootOf(img))
  <2>1. Listing = ListedIn(RootOf(disk))
    BY DEF Listing, ListedIn, RootOf
  <2> QED
    BY <1>1, <1>2, <2>1, InitializedLists DEF RootListing, is_empty_storage
<1>8. Listing' = ListedIn(RootOf(disk'))
  BY DEF Listing, ListedIn, RootOf
<1> QED
  BY <1>1, <1>2, <1>5, <1>6, <1>7, <1>8

LEMMA InsertStep ==
  ASSUME SafeInv, HostInv, PlainNames, [InserterNext]_inserterVars
  PROVE  host # "none" =>
           \/ disk' = disk
           \/ Listing' = RootListing \cup Inserted /\ host = "done"
<1>1. CASE SaveImage
  BY <1>1, SaveInserts DEF SaveImage
<1>2. CASE ~SaveImage
  BY <1>2 DEF InserterNext, System, RunInserter, Insert, InserterKilled,
              inserterVars, vars
<1> QED
  BY <1>1, <1>2

\* A run of the inserter adds to the root directory the entry it was asked for
\* or nothing, on any image the system leaves: one that was never formatted,
\* one whose root directory or whose clusters are all taken, a parent that is
\* no directory included (external-inserter.c:36-97).
THEOREM InsertAdds ==
  ASSUME PlainNames
  PROVE  InserterSpec => InsertAddsOneEntry
<1>1. SafeInv /\ HostInv /\ [InserterNext]_inserterVars =>
        [host # "none" =>
           \/ disk' = disk
           \/ Listing' = RootListing \cup Inserted /\ host = "done"]_inserterVars
  BY InsertStep
<1>2. "format" \notin PowerFailsAt
  BY DEF PlainNames
<1> QED
  BY <1>1, <1>2, HostAlways, InserterSafe, PTL DEF InserterSpec, InsertAddsOneEntry
=============================================================================
