-------------------------------- MODULE Inserter --------------------------------
(***************************************************************************)
(* The inserter (external-inserter.c with fat32-no-cmos.c): a program of   *)
(* the host that puts one file into the disk image while the system is     *)
(* off.  It loads the image into memory, runs a second copy of the driver  *)
(* on that memory, and writes all of it back.                              *)
(*                                                                         *)
(* Nobody sees the memory image before it is complete: what the driver of  *)
(* fat32.c does cluster by cluster is computed here in one go, as a        *)
(* function of the image.  The two copies are meant to be the same.        *)
(***************************************************************************)
EXTENDS Fat32Refinement, FiniteSets, FiniteSetsExt

CONSTANTS
  ParentArgs,     \* the numbers a user gives as parent cluster
  TargetSizes     \* the sizes of target files; 0 for one that is missing

ASSUME InserterAssumption ==
  /\ ParentArgs \subseteq Clusters
  /\ TargetSizes \subseteq Nat

VARIABLES
  host,           \* none, loaded (the image is read), done (write returned)
  args,           \* the request that main makes of its arguments
  image_storage,  \* NoImage while the inserter does not run
  retcode,
  start           \* the disk when the call of write began; not in the code

hostVars == <<host, args, image_storage, retcode>>
inserterVars == <<vars, hostVars, start>>

NoImage == << >>

Target ==
  [op : {"write"}, name : CallerNames, ext : {NoExt},
   parent_cluster_number : ParentArgs, buffer_size : TargetSizes]

-----------------------------------------------------------------------------
(* The driver of the host, as a function of the image.                     *)

\* create_fat32: the signature, the root directory and the FAT.
Formatted(img) ==
  [img EXCEPT ![BOOT_SECTOR] = Signature,
              ![ROOT_CLUSTER_NUMBER] = DirCell(RootTable),
              ![FAT_CLUSTER_NUMBER] = FatCell(FormattedMap)]

Initialized(img) ==
  IF img[BOOT_SECTOR] # Signature THEN Formatted(img) ELSE img

\* The free clusters that a loop comes to; it takes them from the lowest on.
FreeFrom(map, from) == {c \in Clusters : c >= from /\ map[c] = 0}

PartsOf(size) == (size + ClusterSize - 1) \div ClusterSize

\* The part of the file that goes into cluster c.
PartIn(free, c) == Cardinality({d \in free : d =< c})

\* The FAT and the directory are saved last.
Saved(img, p, map, t) ==
  [img EXCEPT ![FAT_CLUSTER_NUMBER] = FatCell(map), ![p] = DirCell(t)]

\* The last part leaves its mark on the entry of the part before it, of
\* cluster 0 when there is none.  Without room for all of it the file has as
\* many clusters as there are, no mark and size 0.
WithFile(img, r) ==
  LET p      == r.parent_cluster_number
      map    == AsFat(img[FAT_CLUSTER_NUMBER])
      free   == FreeFrom(map, 3)
      fits   == PartsOf(r.buffer_size) =< Cardinality(free)
      placed == IF fits THEN PartsOf(r.buffer_size) ELSE Cardinality(free)
      file   == {c \in free : PartIn(free, c) =< placed}
      before == IF placed > 1 THEN CHOOSE c \in file : PartIn(free, c) = placed - 1
                              ELSE 0
      linked == [c \in Clusters |-> IF c \in file /\ PartIn(free, c) < placed
                                      THEN Min({d \in free : d > c}) ELSE map[c]]
      marked == IF fits THEN SetLink(linked, before, FAT32_FAT_END_OF_FILE)
                        ELSE linked
      filled == [c \in Clusters |-> IF c \in file
                                      THEN DataCell(r.name, r.ext, PartIn(free, c))
                                      ELSE img[c]]
      entry  == FileEntry(r, IF placed > 0 THEN Min(file) ELSE 0,
                          IF fits THEN r.buffer_size ELSE 0)
  IN Saved(filled, p, marked, StoreEntry(MarkNotEmpty(AsTable(img[p]), p), entry))

\* A mutation: the search for a free cluster starts behind the root directory.
WithFolderBehindRoot(img, r) ==
  LET p     == r.parent_cluster_number
      map   == AsFat(img[FAT_CLUSTER_NUMBER])
      free  == FreeFrom(map, 3)
      index == IF free = {} THEN 3 ELSE Min(free)
      t     == StoreEntry(MarkNotEmpty(AsTable(img[p]), p), FolderEntry(r, index))
  IN [Saved(img, p, SetLink(map, index, FAT32_FAT_END_OF_FILE), t)
        EXCEPT ![index] = DirCell(InitDirectoryTable(r.name, p))]

\* A mutation: on a full disk index is where the search ended.
WithFolderAtEnd(img, r) ==
  LET p     == r.parent_cluster_number
      map   == AsFat(img[FAT_CLUSTER_NUMBER])
      free  == FreeFrom(map, 0)
      index == IF free = {} THEN ClusterMapSize ELSE Min(free)
      t     == StoreEntry(MarkNotEmpty(AsTable(img[p]), p), FolderEntry(r, index))
  IN WriteCluster(Saved(img, p, SetLink(map, index, FAT32_FAT_END_OF_FILE), t),
                  index, DirCell(InitDirectoryTable(r.name, p)))

\* The target is empty or cannot be opened: a folder of its name.
WithFolder(img, r) ==
  LET p     == r.parent_cluster_number
      map   == AsFat(img[FAT_CLUSTER_NUMBER])
      free  == FreeFrom(map, 0)
      index == IF free = {} THEN 0 ELSE Min(free)
      t     == StoreEntry(MarkNotEmpty(AsTable(img[p]), p), FolderEntry(r, index))
  IN [Saved(img, p, SetLink(map, index, FAT32_FAT_END_OF_FILE), t)
        EXCEPT ![index] = DirCell(InitDirectoryTable(r.name, p))]

\* The code that write returns, decided before anything is written.
CodeFor(img, r) ==
  LET t == AsTable(ReadCluster(img, r.parent_cluster_number)) IN
    CASE t[0].attribute # ATTR_SUBDIRECTORY -> 2
      [] t[0].attribute = ATTR_SUBDIRECTORY /\ Duplicate(t, r) -> 1
      [] OTHER -> 0

Written(img, r) ==
  CASE CodeFor(img, r) # 0 -> img
    [] CodeFor(img, r) = 0 /\ r.buffer_size # 0 -> WithFile(img, r)
    [] OTHER -> WithFolder(img, r)

-----------------------------------------------------------------------------
(* main of the inserter, and the system in between.                        *)

InserterInit ==
  /\ Init
  /\ host = "none" /\ args = NoRequest /\ image_storage = NoImage /\ retcode = 0
  /\ start = NoImage

\* The image is read; the system does not run.
RunInserter(r) ==
  /\ host = "none" /\ pc = "off"
  /\ host' = "loaded"
  /\ args' = r
  /\ image_storage' = disk
  /\ UNCHANGED <<vars, retcode, start>>

\* A mutation: the copy of the driver is used without its initialization.
InsertUninitialized ==
  /\ host = "loaded"
  /\ image_storage' = Written(image_storage, args)
  /\ retcode' = CodeFor(image_storage, args)
  /\ host' = "done"
  /\ UNCHANGED <<vars, args, start>>

\* initialize_filesystem_fat32 and write, on the image in memory.
Insert ==
  /\ host = "loaded"
  /\ image_storage' = Written(Initialized(image_storage), args)
  /\ retcode' = CodeFor(Initialized(image_storage), args)
  /\ host' = "done"
  /\ UNCHANGED <<vars, args, start>>

\* The whole image is written back, whatever write returned.
SaveImage ==
  /\ host = "done"
  /\ disk' = image_storage
  /\ host' = "none" /\ args' = NoRequest /\ retcode' = 0
  /\ image_storage' = NoImage
  /\ UNCHANGED <<start, fat, table, pc, req, locals, queue, code, known>>

\* The program is killed before it opens the image for writing.
InserterKilled ==
  /\ host # "none"
  /\ host' = "none" /\ args' = NoRequest /\ retcode' = 0
  /\ image_storage' = NoImage
  /\ UNCHANGED <<vars, start>>

\* The system runs.
System ==
  /\ host = "none"
  /\ Next
  /\ start' = CASE req'.op # "write" \/ pc' = "off" -> NoImage
                [] req'.op = "write" /\ pc = "idle" -> disk
                [] OTHER -> start
  /\ UNCHANGED hostVars

InserterNext ==
  \/ System
  \/ \E r \in Target : RunInserter(r)
  \/ Insert
  \/ SaveImage
  \/ InserterKilled

InserterSpec == InserterInit /\ [][InserterNext]_inserterVars

-----------------------------------------------------------------------------
(* Properties.                                                             *)

HostTypeOK ==
  /\ host \in {"none", "loaded", "done"}
  /\ args \in Target \cup {NoRequest}
  /\ image_storage \in [Clusters -> Cells] \cup {NoImage}
  /\ retcode \in 0 .. 2
  /\ start \in [Clusters -> Cells] \cup {NoImage}

\* The driver's variables keep their types on the images that the host leaves.
InserterTypeOK == TypeOK /\ HostTypeOK

\* fat32-no-cmos.c repeats the code of fat32.c: when write of the driver
\* returns, the disk and the code are what the inserter's write makes of the
\* same disk and the same request, the loop over the free clusters, a full
\* directory and a full disk included.
DriverMatchesInserter ==
  pc = "return" /\ req.op = "write" =>
    /\ disk = Written(start, req)
    /\ code = CodeFor(start, req)

\* The root directory of a file system; an image without the signature has none.
RootListing == IF is_empty_storage THEN {} ELSE Listing

RootFull(img) ==
  \A s \in Slots : AsTable(img[ROOT_CLUSTER_NUMBER])[s].name # NoName

Inserted ==
  LET root == args.parent_cluster_number = ROOT_CLUSTER_NUMBER IN
    IF root /\ ~RootFull(Initialized(disk)) THEN {<<args.name, args.ext>>} ELSE {}

\* An inserter run changes the root directory by the entry it was asked for or
\* not at all, whatever image it finds, an empty one and one that lost its
\* signature included, whichever cluster is given as parent, and whenever
\* it is killed before it writes (external-inserter.c:76-97).
InsertAddsOneEntry ==
  [][host # "none" =>
       \/ disk' = disk
       \/ Listing' = RootListing \cup Inserted /\ host = "done"]_inserterVars
=============================================================================
