----------------------------- MODULE Fat32Layout -----------------------------
(***************************************************************************)
(* The on-disk structures of "FAT32 - IF2230 edition": clusters, the file  *)
(* allocation table, directory entries and directory tables, with the      *)
(* operators the driver of src/src/fat32.c computes on them.  No state.    *)
(*                                                                         *)
(* A cluster of the disk is a record: the kind of what was last written    *)
(* there, and that.  Reading a cluster as something else than what it      *)
(* holds goes through AsTable and AsFat.                                   *)
(***************************************************************************)
EXTENDS Integers

CONSTANTS
  ClusterMapSize,   \* CLUSTER_MAP_SIZE: entries of the FAT (512)
  TableSize,        \* directory entries in one cluster (64)
  ClusterSize,      \* CLUSTER_SIZE in bytes (2048)
  Blocks,           \* CLUSTER_BLOCK_COUNT: blocks in one cluster (4)
  Names,            \* the file and folder names callers use
  RootName,         \* "root", the name of the root directory
  NoName,           \* eight zero bytes
  JunkName,         \* what a name field reads as where no table was written
  Exts,             \* the non-empty extensions callers use
  NoExt             \* three zero bytes

ASSUME LayoutAssumption ==
  /\ ClusterMapSize \in Nat /\ ClusterMapSize > 3
  /\ TableSize \in Nat /\ TableSize > 0
  /\ ClusterSize \in Nat /\ ClusterSize > 0
  /\ Blocks \in Nat /\ Blocks > 0
  /\ NoName \notin Names \cup {RootName, JunkName}
  /\ JunkName \notin Names \cup {RootName}
  /\ NoExt \notin Exts

-----------------------------------------------------------------------------
(* Cluster numbers and the values of a FAT entry. *)

BOOT_SECTOR         == 0
FAT_CLUSTER_NUMBER  == 1
ROOT_CLUSTER_NUMBER == 2

Clusters == 0 .. (ClusterMapSize - 1)

\* Two values outside 0 .. ClusterMapSize - 1 that a FAT entry may hold.
\* CLUSTER_1_VALUE is the same number as FAT32_FAT_END_OF_FILE.
FAT32_FAT_END_OF_FILE == -1
CLUSTER_0_VALUE       == -2
CLUSTER_1_VALUE       == FAT32_FAT_END_OF_FILE

Links   == Clusters \cup {FAT32_FAT_END_OF_FILE, CLUSTER_0_VALUE}
FatMaps == [Clusters -> Links]

ZeroMap == [c \in Clusters |-> 0]

\* The FAT that create_fat32 writes.
FormattedMap ==
  [c \in Clusters |-> CASE c = 0 -> CLUSTER_0_VALUE
                        [] c = 1 -> CLUSTER_1_VALUE
                        [] c = 2 -> FAT32_FAT_END_OF_FILE
                        [] OTHER -> 0]

\* cluster_map[c].  Past the end of the array lies memory that nothing in
\* the system writes: it reads as zero.
Link(map, c) == IF c \in Clusters THEN map[c] ELSE 0

\* cluster_map[c] = v, which past the end changes no modelled state.
SetLink(map, c, v) == [x \in Clusters |-> IF x = c THEN v ELSE map[x]]

\* i is the first free cluster at or after "from".
IsFirstFree(map, from, i) ==
  /\ i \in Clusters /\ i >= from /\ map[i] = 0
  /\ \A j \in Clusters : j >= from /\ j < i => map[j] # 0

NoneFree(map, from) == \A i \in Clusters : i >= from => map[i] # 0

-----------------------------------------------------------------------------
(* Directory entries and directory tables. *)

ATTR_SUBDIRECTORY == "subdirectory"
UATTR_NOT_EMPTY   == "not_empty"
Unset             == "unset"       \* an attribute byte that is zero

Slots    == 0 .. (TableSize - 1)
AnyName  == Names \cup {RootName, NoName, JunkName}
AnyExt   == Exts \cup {NoExt}

FAT32DirectoryEntry ==
  [name : AnyName, ext : AnyExt,
   attribute : {Unset, ATTR_SUBDIRECTORY},
   user_attribute : {Unset, UATTR_NOT_EMPTY},
   undelete : {0, 1}, cluster : Clusters, filesize : Nat]

FAT32DirectoryTable == [Slots -> FAT32DirectoryEntry]

ZeroEntry ==
  [name |-> NoName, ext |-> NoExt, attribute |-> Unset,
   user_attribute |-> Unset, undelete |-> 0, cluster |-> 0, filesize |-> 0]

ZeroTable == [s \in Slots |-> ZeroEntry]

\* What a cluster that holds something else reads as when it is taken for a
\* table: attribute bytes that are not ATTR_SUBDIRECTORY, names nobody uses.
JunkTable == [s \in Slots |-> [ZeroEntry EXCEPT !.name = JunkName]]

\* init_directory_table over a zeroed table: entry 0 names the directory
\* itself and points to its parent.
InitDirectoryTable(name, parent) ==
  [s \in Slots |-> IF s = 0 THEN [ZeroEntry EXCEPT
                                    !.name = name,
                                    !.attribute = ATTR_SUBDIRECTORY,
                                    !.cluster = parent]
                            ELSE ZeroEntry]

\* A mutation: the scan ends at the first unused entry.
DuplicateBeforeHole(t, r) ==
  \E s \in Slots : /\ t[s].name = r.name /\ t[s].ext = r.ext
                   /\ \A q \in Slots : q < s => t[q].name # NoName

\* The duplicate test of write: same name and same extension, anywhere in the
\* table.  An empty name equals the name of an unused entry.
Duplicate(t, r) ==
  \E s \in Slots : t[s].name = r.name /\ t[s].ext = r.ext

\* The first entry whose name starts with a zero byte.
IsFirstUnused(t, s) ==
  /\ s \in Slots /\ t[s].name = NoName
  /\ \A q \in Slots : q < s => t[q].name # NoName

\* Mutations: the loop goes on after it stored the entry, and it has no end.
StoreEntryNoBreak(t, e) ==
  [s \in Slots |-> IF t[s].name = NoName THEN e ELSE t[s]]
StoreEntryNoEnd(t, e) ==
  [s \in 0 .. TableSize |->
     IF s = TableSize
       THEN IF \A q \in Slots : t[q].name # NoName THEN e ELSE ZeroEntry
       ELSE IF IsFirstUnused(t, s) THEN e ELSE t[s]]

\* The new entry goes into the first unused one; a full table stays as it is.
StoreEntry(t, e) == [s \in Slots |-> IF IsFirstUnused(t, s) THEN e ELSE t[s]]

\* table[parent_cluster_number].user_attribute = UATTR_NOT_EMPTY: the cluster
\* number of the directory is the index.  Past the end of the table the byte
\* falls outside the modelled state.
MarkNotEmpty(t, parent) ==
  [s \in Slots |-> IF s = parent
                     THEN [t[s] EXCEPT !.user_attribute = UATTR_NOT_EMPTY]
                     ELSE t[s]]

FileEntry(r, first, filesize) ==
  [name |-> r.name, ext |-> r.ext, attribute |-> Unset,
   user_attribute |-> UATTR_NOT_EMPTY, undelete |-> 1,
   cluster |-> first, filesize |-> filesize]

FolderEntry(r, index) ==
  [name |-> r.name, ext |-> NoExt, attribute |-> ATTR_SUBDIRECTORY,
   user_attribute |-> Unset, undelete |-> 1,
   cluster |-> index, filesize |-> 0]

-----------------------------------------------------------------------------
(* Clusters of the disk. *)

Blank      == [kind |-> "blank"]
Signature  == [kind |-> "signature"]
FatCell(m) == [kind |-> "fat", map |-> m]
DirCell(t) == [kind |-> "dir", entries |-> t]

\* Part n of what was written under this name and extension: the payload of a
\* file is told apart by the file it was written to.
DataCell(name, ext, n) == [kind |-> "data", part |-> <<name, ext, n>>]

\* What the ATA device hands out beyond the end of the disk.
Junk == [kind |-> "junk"]

Cells ==
  [kind : {"blank", "signature"}]
    \cup [kind : {"fat"}, map : FatMaps]
    \cup [kind : {"dir"}, entries : FAT32DirectoryTable]
    \cup [kind : {"data"}, part : AnyName \X AnyExt \X Nat]

AsTable(cell) == CASE cell.kind = "dir"   -> cell.entries
                   [] cell.kind = "blank" -> ZeroTable
                   [] OTHER               -> JunkTable

\* Cluster 1 never holds anything but a FAT or zeros (ReservedClustersIntact).
AsFat(cell) == IF cell.kind = "fat" THEN cell.map ELSE ZeroMap

ReadCluster(disk, c) == IF c \in Clusters THEN disk[c] ELSE Junk

\* A write beyond the end of the disk is refused by the device.
WriteCluster(disk, c, cell) ==
  [x \in Clusters |-> IF x = c THEN cell ELSE disk[x]]

\* The cluster after power was lost with the first k blocks of a directory
\* table or of a FAT written over "old": entries are spread evenly over the
\* blocks.  The signature is one block long.
Torn(old, new, k) ==
  CASE new.kind = "dir" ->
         DirCell([s \in Slots |-> IF s * Blocks < k * TableSize
                                    THEN new.entries[s] ELSE AsTable(old)[s]])
    [] new.kind = "fat" ->
         FatCell([c \in Clusters |-> IF c * Blocks < k * ClusterMapSize
                                       THEN new.map[c] ELSE AsFat(old)[c]])
    [] OTHER -> new
=============================================================================
