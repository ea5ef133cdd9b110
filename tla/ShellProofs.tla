------------------------------ MODULE ShellProofs ------------------------------
(***************************************************************************)
(* Theorems about Shell and FileCommands, for every size of disk and       *)
(* table, every set of names and any number of commands.                   *)
(***************************************************************************)
EXTENDS FileCommands, Fat32Proofs, FiniteSetTheorems

-----------------------------------------------------------------------------
(* Types.  What the shell asks for are requests, so that the driver's own  *)
(* lemmas say what a call leaves.                                          *)

ShellTypeInv ==
  /\ ShellTypeOK /\ TypeInv
  /\ command.op = "whereis" => command.name \in AnyName

LEMMA ServeType ==
  ASSUME TypeInv, NEW r \in FAT32DriverRequest, Serve(r)
  PROVE  TypeInv'
BY TypeReadDirectory, TypeWriteRefused, TypeWriteFile, TypeWriteFolder
   DEF Serve

LEMMA ListingType ==
  ASSUME NEW c \in Clusters, NEW name \in AnyName
  PROVE  Listing(c, name) \in FAT32DriverRequest
BY LayoutAssumption DEF Listing, FAT32DriverRequest, Ops, AnyExt

LEMMA NewFolderType ==
  ASSUME NEW c \in Clusters, NEW name \in AnyName
  PROVE  NewFolder(c, name) \in FAT32DriverRequest
BY DEF NewFolder, FAT32DriverRequest, Ops, AnyExt

LEMMA FunctionIsSeq ==
  ASSUME NEW S, NEW n \in Nat, NEW f \in [1 .. n -> S]
  PROVE  f \in Seq(S)
OBVIOUS

LEMMA OneCall ==
  ASSUME NEW r \in FAT32DriverRequest
  PROVE  <<r>> \in Seq(FAT32DriverRequest)
OBVIOUS

\* The order in which search visits the folders is a sequence of slots.
LEMMA FolderSlotsType ==
  ASSUME NEW from
  PROVE  /\ FolderSlots(from) \subseteq Slots
         /\ Cardinality(FolderSlots(from)) \in Nat
<1>1. FolderSlots(from) \subseteq Slots
  BY DEF FolderSlots
<1>2. 0 \in Int /\ TableSize - 1 \in Int
  BY LayoutAssumption
<1>3. IsFiniteSet(Slots)
  BY <1>2, FS_Interval DEF Slots
<1>4. IsFiniteSet(FolderSlots(from))
  BY <1>1, <1>3, FS_Subset
<1> QED
  BY <1>1, <1>4, FS_CardinalityType

LEMMA ShellTypeInit ==
  ASSUME ShellInit
  PROVE  ShellTypeInv
<1>1. TypeInv
  BY TypeInit DEF ShellInit
<1>2. cwd \in CWDdata
  BY ClusterFacts DEF ShellInit, CWDdata, AnyName, ROOT_CLUSTER_NUMBER
<1>3. command = [op |-> "main", name |-> NoName]
  BY DEF ShellInit, NoCommand
<1>4. calls \in Seq(FAT32DriverRequest)
  <2> DEFINE Files == [name : AnyName, ext : AnyExt, buffer_size : Nat \ {0}]
  <2>1. \A i \in DOMAIN StartFiles : StartFiles[i] \in Files
    <3>1. StartFiles \in Seq(Files)
      BY ShellAssumption
    <3> HIDE DEF Files
    <3> QED
      BY <3>1, LenProperties
  <2>2. \A i \in DOMAIN StartFiles :
          StartFile(StartFiles[i]) \in FAT32DriverRequest
    BY <2>1, ClusterFacts
       DEF StartFile, FAT32DriverRequest, Ops, ROOT_CLUSTER_NUMBER
  <2>3. Len(StartFiles) \in Nat /\ DOMAIN StartFiles = 1 .. Len(StartFiles)
    BY ShellAssumption, LenProperties
  <2> QED
    BY <2>2, <2>3, FunctionIsSeq DEF ShellInit
<1> QED
  BY <1>1, <1>2, <1>3, <1>4 DEF ShellTypeInv, ShellTypeOK, TypeInv, AnyName

LEMMA TypedType ==
  ASSUME ShellTypeInv, Typed
  PROVE  ShellTypeInv'
<1>1. ASSUME NEW op \in {"cd", "ls", "mkdir", "whereis"},
             NEW name \in AnyName \cup {ParentName},
             op = "whereis" => name \in AnyName,
             NEW r \in FAT32DriverRequest, Run(op, name, <<r>>)
      PROVE  ShellTypeInv'
  <2>1. TypeInv' /\ TypeOK'
    BY <1>1 DEF Run, vars, locals, ShellTypeInv, TypeInv, TypeOK, QueueOK
  <2> QED
    BY <1>1, <2>1, OneCall DEF Run, ShellTypeInv, ShellTypeOK
<1>2. /\ CallerNames \subseteq AnyName /\ RootName \in AnyName
      /\ NoName \in AnyName
  BY RequestAssumption DEF AnyName
<1>3. /\ cwd.currentCluster \in Clusters /\ cwd.prevCluster \in Clusters
      /\ cwd.cwdName \in AnyName
  BY DEF ShellTypeInv, ShellTypeOK, CWDdata
<1> QED
  BY <1>1, <1>2, <1>3, ListingType, NewFolderType
     DEF Typed, Cd, CdParent, Ls, Mkdir, Whereis

LEMMA NextCallType ==
  ASSUME ShellTypeInv, NextCall
  PROVE  ShellTypeInv'
<1>1. Head(calls) \in FAT32DriverRequest /\ calls' \in Seq(FAT32DriverRequest)
  BY HeadTailProperties DEF NextCall, ShellTypeInv, ShellTypeOK
<1>2. TypeInv'
  BY <1>1, ServeType DEF NextCall, ShellTypeInv
<1> QED
  BY <1>1, <1>2 DEF NextCall, ShellTypeInv, ShellTypeOK, TypeInv

LEMMA GoesType ==
  ASSUME ShellTypeInv, NEW q \in Seq(FAT32DriverRequest), Goes(q)
  PROVE  /\ TypeInv'
         /\ command'.op \in {"none", "main", "cd", "ls", "mkdir", "whereis"}
         /\ command'.name \in AnyName \cup {ParentName}
         /\ command'.op = "whereis" => command'.name \in AnyName
         /\ calls' \in Seq(FAT32DriverRequest)
<1>1. TypeInv'
  BY TypeReturn DEF Goes, ShellTypeInv
<1> QED
  BY <1>1 DEF Goes, NoCommand, AnyName, ShellTypeInv, ShellTypeOK

LEMMA ReturnsType ==
  ASSUME ShellTypeInv, Returns
  PROVE  ShellTypeInv'
<1>1. \A s \in Slots : /\ table[s] \in FAT32DirectoryEntry
                       /\ table[s].cluster \in Clusters
                       /\ table[s].name \in AnyName
  BY DEF ShellTypeInv, ShellTypeOK, TypeOK, FAT32DirectoryTable,
         FAT32DirectoryEntry
<1>2. << >> \in Seq(FAT32DriverRequest)
  OBVIOUS
<1>3. CASE CdReturns
  <2>1. command.name \in AnyName
    BY <1>3 DEF CdReturns, ShellTypeInv, ShellTypeOK
  <2>2. cwd' \in CWDdata
    BY <1>1, <1>3, <2>1
       DEF CdReturns, IsFirstFolder, ShellTypeInv, ShellTypeOK, CWDdata
  <2> QED
    BY <1>2, <1>3, <2>2, GoesType
       DEF CdReturns, ShellTypeInv, ShellTypeOK, TypeInv
<1>4. CASE CdParentReturns
  <2>1. cwd' \in CWDdata
    BY <1>1, <1>4, ClusterFacts
       DEF CdParentReturns, ShellTypeInv, ShellTypeOK, CWDdata,
           ROOT_CLUSTER_NUMBER
  <2> QED
    BY <1>2, <1>4, <2>1, GoesType
       DEF CdParentReturns, ShellTypeInv, ShellTypeOK, TypeInv
<1>5. CASE SearchReturns
  <2>1. PICK slots \in [1 .. Cardinality(FolderSlots(1)) -> FolderSlots(1)] :
          LET deeper == [i \in DOMAIN slots |->
                           Listing(table[slots[i]].cluster, command.name)]
          IN Goes(IF code = 0 THEN deeper \o calls ELSE calls)
    BY <1>5 DEF SearchReturns, SearchFrom
  <2> DEFINE deeper == [i \in DOMAIN slots |->
                          Listing(table[slots[i]].cluster, command.name)]
  <2>2. DOMAIN slots = 1 .. Cardinality(FolderSlots(1))
    OBVIOUS
  <2>3. deeper \in Seq(FAT32DriverRequest)
    <3>1. ASSUME NEW i \in DOMAIN slots
          PROVE  deeper[i] \in FAT32DriverRequest
      <4>1. slots[i] \in Slots
        BY FolderSlotsType
      <4>2. command.name \in AnyName
        BY <1>5 DEF SearchReturns, SearchFrom, ShellTypeInv
      <4> QED
        BY <1>1, <4>1, <4>2, ListingType
    <3> HIDE DEF deeper
    <3>2. DOMAIN deeper = 1 .. Cardinality(FolderSlots(1))
      BY <2>2 DEF deeper
    <3>3. deeper = [i \in DOMAIN slots |-> deeper[i]]
      BY DEF deeper
    <3>4. deeper \in [1 .. Cardinality(FolderSlots(1)) -> FAT32DriverRequest]
      BY <2>2, <3>1, <3>2, <3>3
    <3> QED
      BY <3>4, FolderSlotsType, FunctionIsSeq
  <2>4. Goes(IF code = 0 THEN deeper \o calls ELSE calls)
    BY <2>1
  <2> HIDE DEF deeper
  <2>5. (IF code = 0 THEN deeper \o calls ELSE calls)
          \in Seq(FAT32DriverRequest)
    BY <2>3, ConcatProperties DEF ShellTypeInv, ShellTypeOK
  <2> QED
    BY <1>5, <2>4, <2>5, GoesType
       DEF SearchReturns, SearchFrom, ShellTypeInv, ShellTypeOK, TypeInv
<1>6. CASE OtherReturns
  <2>1. calls \in Seq(FAT32DriverRequest)
    BY DEF ShellTypeInv, ShellTypeOK
  <2> QED
    BY <1>6, <2>1, GoesType
       DEF OtherReturns, ShellTypeInv, ShellTypeOK, TypeInv
<1> QED
  BY <1>3, <1>4, <1>5, <1>6 DEF Returns

LEMMA KernelStepType ==
  ASSUME TypeInv, KernelStep
  PROVE  TypeInv'
BY TypeBoot, TypeAllocate, TypeFlushWrite DEF KernelStep

LEMMA ShellTypeStep ==
  ASSUME ShellTypeInv, [ShellNext]_shellVars
  PROVE  ShellTypeInv'
<1>1. CASE Typed
  BY <1>1, TypedType
<1>2. CASE NextCall
  BY <1>2, NextCallType
<1>3. CASE Returns
  BY <1>3, ReturnsType
<1>4. CASE KernelStep
  BY <1>4, KernelStepType DEF KernelStep, ShellTypeInv, ShellTypeOK, TypeInv
<1>5. CASE UNCHANGED shellVars
  BY <1>5 DEF shellVars, vars, locals, ShellTypeInv, ShellTypeOK, TypeInv,
              TypeOK, QueueOK
<1> QED
  BY <1>1, <1>2, <1>3, <1>4, <1>5 DEF ShellNext

\* The shell calls the driver with nothing but requests, and cwd_data always
\* holds a cluster number and a name: whatever is typed, and in whatever order
\* cd, ls, mkdir and whereis come (commands.c).
THEOREM ShellTypeCorrect == ShellSpec => []ShellTypeOK
<1>1. ShellInit => ShellTypeInv
  BY ShellTypeInit
<1>2. ShellTypeInv /\ [ShellNext]_shellVars => ShellTypeInv'
  BY ShellTypeStep
<1>3. ShellTypeInv => ShellTypeOK
  BY DEF ShellTypeInv
<1> QED
  BY <1>1, <1>2, <1>3, PTL DEF ShellSpec

-----------------------------------------------------------------------------
(* The types of the commands on files.                                     *)

FilesTypeInv ==
  /\ FilesTypeOK /\ TypeInv
  /\ cwd \in CWDdata
  /\ command.name \in AnyName

LEMMA FileRequestType ==
  ASSUME FilesTypeInv, NEW op \in {"read", "write", "delete"},
         NEW name \in AnyName, NEW ext \in AnyExt, NEW size \in Nat
  PROVE  FileRequest(op, name, ext, size) \in FAT32DriverRequest
BY DEF FileRequest, FAT32DriverRequest, Ops, FilesTypeInv, CWDdata

LEMMA ListCwdType ==
  ASSUME FilesTypeInv
  PROVE  ListCwd \in FAT32DriverRequest
BY ListingType DEF ListCwd, FilesTypeInv, CWDdata

LEMMA FilesTypeInit ==
  ASSUME FilesInit
  PROVE  FilesTypeInv
<1>1. ShellTypeInv /\ command.name = NoName
  BY ShellTypeInit DEF FilesInit, ShellInit, NoCommand
<1> QED
  BY <1>1 DEF FilesInit, FilesTypeInv, FilesTypeOK, ShellTypeInv, ShellTypeOK,
              NoFile, AnyName, AnyExt

LEMMA RunFilesType ==
  ASSUME FilesTypeInv, NEW op, NEW src \in AnyName, NEW to \in AnyName,
         NEW routines \in Seq({"cp", "rm"}), NEW at \in {"list", "read", "probe"},
         NEW q \in Seq(FAT32DriverRequest),
         RunFiles(op, src, to, routines, at, q)
  PROVE  FilesTypeInv'
<1>1. TypeInv' /\ TypeOK'
  BY DEF RunFiles, Run, vars, locals, FilesTypeInv, TypeInv, TypeOK, QueueOK
<1>2. NoFile \in [ext : AnyExt, filesize : Nat]
  BY DEF NoFile, AnyExt
<1> QED
  BY <1>1, <1>2 DEF RunFiles, Run, FilesTypeInv, FilesTypeOK

LEMMA FileTypedType ==
  ASSUME FilesTypeInv, FileTyped
  PROVE  FilesTypeInv'
<1>1. CallerNames \subseteq AnyName /\ NoName \in AnyName /\ NoExt \in AnyExt
  BY RequestAssumption DEF AnyName, AnyExt
<1>2. CatClusters * ClusterSize \in Nat /\ ClusterSize \in Nat
  BY CatAssumption, LayoutAssumption
<1>3. /\ << >> \in Seq({"cp", "rm"}) /\ <<"cp">> \in Seq({"cp", "rm"})
      /\ <<"rm">> \in Seq({"cp", "rm"}) /\ <<"cp", "rm">> \in Seq({"cp", "rm"})
  OBVIOUS
<1>4. ASSUME NEW src \in CallerNames, Cat(src)
      PROVE  FilesTypeInv'
  BY <1>1, <1>2, <1>3, <1>4, FileRequestType, OneCall, RunFilesType DEF Cat
<1>5. ASSUME NEW src \in CallerNames, Rm(src)
      PROVE  FilesTypeInv'
  BY <1>1, <1>3, <1>5, ListCwdType, OneCall, RunFilesType DEF Rm
<1>6. ASSUME NEW src \in CallerNames, NEW to \in CallerNames, Cp(src, to)
      PROVE  FilesTypeInv'
  BY <1>1, <1>3, <1>6, ListCwdType, OneCall, RunFilesType DEF Cp
<1>7. ASSUME NEW src \in CallerNames, NEW to \in CallerNames, MvFiles(src, to)
      PROVE  FilesTypeInv'
  <2>1. <<FileRequest("read", src, NoExt, ClusterSize),
          FileRequest("read", to, NoExt, ClusterSize)>>
          \in Seq(FAT32DriverRequest)
    BY <1>1, <1>2, FileRequestType
  <2> QED
    BY <1>1, <1>3, <1>7, <2>1, RunFilesType DEF MvFiles
<1>8. ASSUME NEW src \in CallerNames, NEW to \in CallerNames,
             MvFolders(src, to)
      PROVE  FilesTypeInv'
  <2>1. <<Listing(cwd.currentCluster, src), Listing(cwd.currentCluster, to)>>
          \in Seq(FAT32DriverRequest)
    BY <1>1, ListingType DEF FilesTypeInv, CWDdata
  <2> QED
    BY <1>1, <1>3, <1>8, <2>1, RunFilesType DEF MvFolders
<1>9. ASSUME NEW src \in CallerNames, MkdirHere(src)
      PROVE  FilesTypeInv'
  <2>1. NewFolder(cwd.currentCluster, src) \in FAT32DriverRequest
    BY <1>1, NewFolderType DEF FilesTypeInv, CWDdata
  <2>2. TypeInv' /\ TypeOK'
    BY <1>9 DEF MkdirHere, Mkdir, Run, vars, locals, FilesTypeInv, TypeInv,
                TypeOK, QueueOK
  <2> QED
    BY <1>1, <1>9, <2>1, <2>2, OneCall
       DEF MkdirHere, Mkdir, Run, FilesTypeInv, FilesTypeOK
<1> QED
  BY <1>4, <1>5, <1>6, <1>7, <1>8, <1>9 DEF FileTyped

LEMMA NextFileCallType ==
  ASSUME FilesTypeInv, NextFileCall
  PROVE  FilesTypeInv'
<1>1. Head(calls) \in FAT32DriverRequest /\ calls' \in Seq(FAT32DriverRequest)
  BY HeadTailProperties DEF NextFileCall, FilesTypeInv, FilesTypeOK
<1>2. TypeInv'
  BY <1>1, ServeType, TypeRead, TypeDelete
     DEF NextFileCall, ServeFile, FilesTypeInv
<1> QED
  BY <1>1, <1>2 DEF NextFileCall, FilesTypeInv, FilesTypeOK, TypeInv

LEMMA FileGoesType ==
  ASSUME FilesTypeInv, NEW q \in Seq(FAT32DriverRequest), Goes(q)
  PROVE  /\ TypeInv' /\ calls' \in Seq(FAT32DriverRequest)
         /\ command'.name \in AnyName
BY TypeReturn DEF Goes, NoCommand, AnyName, FilesTypeInv

LEMMA RoutineEndsType ==
  ASSUME FilesTypeInv, todo # << >>, RoutineEnds
  PROVE  /\ TypeInv' /\ calls' \in Seq(FAT32DriverRequest)
         /\ command'.name \in AnyName
         /\ todo' \in Seq({"cp", "rm"}) /\ stage' = "list"
<1>1. todo' \in Seq({"cp", "rm"})
  BY HeadTailProperties DEF RoutineEnds, FilesTypeInv, FilesTypeOK
<1>2. (IF todo' = << >> THEN << >> ELSE <<ListCwd>>)
        \in Seq(FAT32DriverRequest)
  BY ListCwdType, OneCall
<1> QED
  BY <1>1, <1>2, FileGoesType DEF RoutineEnds

LEMMA GoesOnType ==
  ASSUME FilesTypeInv, NEW at, NEW r \in FAT32DriverRequest, GoesOn(at, r)
  PROVE  /\ TypeInv' /\ calls' \in Seq(FAT32DriverRequest)
         /\ command'.name \in AnyName
         /\ todo' = todo /\ stage' = at
BY OneCall, FileGoesType DEF GoesOn

LEMMA FileReturnsType ==
  ASSUME FilesTypeInv, FileReturns
  PROVE  FilesTypeInv'
<1> DEFINE Kept ==
             /\ TypeInv' /\ calls' \in Seq(FAT32DriverRequest)
             /\ command'.name \in AnyName
             /\ todo' \in Seq({"cp", "rm"})
             /\ stage' \in {"probe", "missing", "list", "read", "change"}
             /\ found' \in [ext : AnyExt, filesize : Nat]
<1>1. /\ todo \in Seq({"cp", "rm"}) /\ calls \in Seq(FAT32DriverRequest)
      /\ stage \in {"probe", "missing", "list", "read", "change"}
      /\ found \in [ext : AnyExt, filesize : Nat]
      /\ found.ext \in AnyExt /\ found.filesize \in Nat
      /\ dest \in AnyName /\ command.name \in AnyName
      /\ << >> \in Seq(FAT32DriverRequest) /\ << >> \in Seq({"cp", "rm"})
  BY DEF FilesTypeInv, FilesTypeOK
<1> SUFFICES Kept
  BY <1>1 DEF FileReturns, FilesTypeInv, FilesTypeOK, TypeInv
<1>2. CASE ProbeReturns
  BY <1>1, <1>2, FileGoesType, GoesOnType, ListCwdType DEF ProbeReturns
<1>3. CASE ListReturns
  <2>1. ASSUME NEW s \in Slots,
               found' = [ext |-> table[s].ext, filesize |-> table[s].filesize],
               GoesOn("read", FileRequest("read", command.name, found'.ext,
                                          found'.filesize))
        PROVE  Kept
    <3>1. table[s].ext \in AnyExt /\ table[s].filesize \in Nat
      BY DEF FilesTypeInv, FilesTypeOK, TypeOK, FAT32DirectoryTable,
             FAT32DirectoryEntry
    <3>2. found'.ext \in AnyExt /\ found'.filesize \in Nat
      BY <2>1, <3>1
    <3>3. FileRequest("read", command.name, found'.ext, found'.filesize)
            \in FAT32DriverRequest
      BY <1>1, <3>2, FileRequestType
    <3> QED
      BY <1>1, <2>1, <3>1, <3>3, GoesOnType
  <2>2. CASE RoutineEnds /\ UNCHANGED found
    BY <1>1, <1>3, <2>2, RoutineEndsType DEF ListReturns
  <2> QED
    BY <1>3, <2>1, <2>2 DEF ListReturns, IsFoundAt
<1>4. CASE ReadReturns
  <2>1. Change \in FAT32DriverRequest
    BY <1>1, FileRequestType DEF Change
  <2> QED
    BY <1>1, <1>4, <2>1, GoesOnType, RoutineEndsType DEF ReadReturns
<1>5. CASE ChangeReturns
  BY <1>1, <1>5, RoutineEndsType DEF ChangeReturns
<1>6. CASE NothingReturns
  BY <1>1, <1>6, FileGoesType DEF NothingReturns
<1> QED
  BY <1>2, <1>3, <1>4, <1>5, <1>6 DEF FileReturns

LEMMA FileKernelStepType ==
  ASSUME FilesTypeInv, FileKernelStep
  PROVE  FilesTypeInv'
<1>1. TypeInv'
  BY KernelStepType, TypeFollowChain, TypeDiskFull, TypeWalk
     DEF FileKernelStep, FilesTypeInv
<1> QED
  BY <1>1 DEF FileKernelStep, KernelStep, FilesTypeInv, FilesTypeOK, TypeInv

LEMMA FilesTypeStep ==
  ASSUME FilesTypeInv, [FilesNext]_fileVars
  PROVE  FilesTypeInv'
<1>1. CASE FileTyped
  BY <1>1, FileTypedType
<1>2. CASE NextFileCall
  BY <1>2, NextFileCallType
<1>3. CASE FileReturns
  BY <1>3, FileReturnsType
<1>4. CASE FileKernelStep
  BY <1>4, FileKernelStepType
<1>5. CASE UNCHANGED fileVars
  BY <1>5 DEF fileVars, shellVars, vars, locals, FilesTypeInv, FilesTypeOK,
              TypeInv, TypeOK, QueueOK
<1> QED
  BY <1>1, <1>2, <1>3, <1>4, <1>5 DEF FilesNext

\* cat, cp, rm and mv call the driver with nothing but requests, whichever
\* of their calls fail (commands.c).
THEOREM FilesTypeCorrect == FilesSpec => []FilesTypeOK
<1>1. FilesInit => FilesTypeInv
  BY FilesTypeInit
<1>2. FilesTypeInv /\ [FilesNext]_fileVars => FilesTypeInv'
  BY FilesTypeStep
<1>3. FilesTypeInv => FilesTypeOK
  BY DEF FilesTypeInv
<1> QED
  BY <1>1, <1>2, <1>3, PTL DEF FilesSpec

-----------------------------------------------------------------------------
(* cat's buffer.  While the kernel follows the chain of the file, the       *)
(* clusters moved and the bytes left fit it together.                      *)

CatInv ==
  /\ pc \notin {"chain", "return"} => got = << >>
  /\ command.op = "cat" =>
       /\ todo = << >> /\ stage = "read"
       /\ \A i \in 1 .. Len(calls) :
            /\ calls[i].op = "read"
            /\ calls[i].buffer_size = CatClusters * ClusterSize
       /\ pc \in {"idle", "chain", "return"}
       /\ Len(got) =< CatClusters
       /\ pc = "chain" =>
            /\ left > 0
            /\ Len(got) * ClusterSize + left =< CatClusters * ClusterSize

LEMMA SmallerProduct ==
  ASSUME NEW a \in Nat, NEW b \in Nat, NEW c \in Nat, a * c < b * c
  PROVE  a < b
<1> SUFFICES ASSUME b =< a PROVE FALSE
  OBVIOUS
<1>1. PICK d \in Nat : a = b + d
  <2>1. a - b \in Nat /\ a = b + (a - b)
    OBVIOUS
  <2> QED
    BY <2>1
<1>2. a * c = b * c + d * c
  BY <1>1
<1>3. d * c \in Nat /\ b * c \in Nat
  OBVIOUS
<1> QED
  BY <1>2, <1>3

LEMMA CatTyped ==
  ASSUME FilesTypeInv, CatInv, FileTyped
  PROVE  CatInv'
<1>1. pc = "idle" /\ got = << >>
  BY DEF FileTyped, Cat, Cp, Rm, MvFiles, MvFolders, MkdirHere, Mkdir,
         RunFiles, Run, CatInv
<1>2. ASSUME NEW src \in CallerNames, Cat(src)
      PROVE  CatInv'
  <2>1. /\ calls' = <<FileRequest("read", src, NoExt,
                                  CatClusters * ClusterSize)>>
        /\ todo' = << >> /\ stage' = "read" /\ pc' = "idle" /\ got' = << >>
    BY <1>1, <1>2 DEF Cat, RunFiles, Run, vars, locals
  <2>2. /\ Len(calls') = 1
        /\ calls'[1].op = "read"
        /\ calls'[1].buffer_size = CatClusters * ClusterSize
    BY <2>1 DEF FileRequest
  <2>3. Len(got') = 0
    BY <2>1, EmptySeq
  <2> QED
    BY <2>1, <2>2, <2>3, CatAssumption DEF CatInv
<1>3. ASSUME NEW src \in CallerNames, Rm(src) \/ MkdirHere(src)
      PROVE  CatInv'
  BY <1>1, <1>3
     DEF Rm, MkdirHere, Mkdir, RunFiles, Run, vars, locals, CatInv
<1>4. ASSUME NEW src \in CallerNames, NEW to \in CallerNames,
             Cp(src, to) \/ MvFiles(src, to) \/ MvFolders(src, to)
      PROVE  CatInv'
  BY <1>1, <1>4
     DEF Cp, MvFiles, MvFolders, RunFiles, Run, vars, locals, CatInv
<1> QED
  BY <1>2, <1>3, <1>4 DEF FileTyped

\* Every call but read leaves got alone.
LEMMA CatServes ==
  ASSUME CatInv, FilesTypeInv, NEW r, ServeFile(r)
  PROVE  /\ got' = << >>
         /\ pc' = "chain" =>
              /\ r.op = "read"
              /\ left' > 0 /\ left' =< r.buffer_size /\ left' \in Int
         /\ r.op = "read" => pc' \in {"chain", "return"}
<1>1. pc = "idle" /\ got = << >>
  BY DEF ServeFile, Serve, ReadDirectory, WriteRefused, WriteFile, WriteFolder,
         WriteAccepted, ReadNotFound, ReadNothing, ReadFile, DeleteRefused,
         Delete, Answer, CatInv
<1>2. CASE ReadFile(r) /\ r.op = "read"
  <2>1. PICK s \in Slots : /\ Parent(r)[s].filesize > 0
                           /\ r.buffer_size >= Parent(r)[s].filesize
                           /\ left' = Parent(r)[s].filesize
    BY <1>2 DEF ReadFile, IsFirstNamed
  <2>2. Parent(r)[s].filesize \in Nat
    BY ParentType DEF FilesTypeInv, FilesTypeOK, FAT32DirectoryTable,
                      FAT32DirectoryEntry
  <2> QED
    BY <1>1, <1>2, <2>1, <2>2 DEF ReadFile
<1>3. CASE \E c : Answer(r, c)
  BY <1>1, <1>3 DEF Answer, locals
<1>4. CASE r.op = "write" /\ WriteFile(r)
  BY <1>1, <1>4 DEF WriteFile
<1>5. CASE r.op = "write" /\ \E index \in Clusters : WriteFolder(r, index)
  BY <1>1, <1>5 DEF WriteFolder, locals
<1>6. CASE r.op = "delete" /\ Delete(r)
  BY <1>1, <1>6 DEF Delete
<1>7. CASE ReadDirectory(r) \/ WriteRefused(r) \/ ReadNotFound(r)
             \/ ReadNothing(r) \/ DeleteRefused(r)
  <2>1. \E c : Answer(r, c)
    BY <1>7 DEF ReadDirectory, WriteRefused, ReadNotFound, ReadNothing,
                DeleteRefused
  <2> QED
    BY <1>3, <2>1
<1> QED
  BY <1>2, <1>4, <1>5, <1>6, <1>7 DEF ServeFile, Serve

LEMMA CatNextCall ==
  ASSUME FilesTypeInv, CatInv, NextFileCall
  PROVE  CatInv'
<1>1. ServeFile(Head(calls)) /\ calls # << >> /\ calls' = Tail(calls)
  BY DEF NextFileCall
<1>2. /\ got' = << >>
      /\ pc' = "chain" =>
           /\ Head(calls).op = "read" /\ left' \in Int
           /\ left' > 0 /\ left' =< Head(calls).buffer_size
      /\ Head(calls).op = "read" => pc' \in {"chain", "return"}
  BY <1>1, CatServes
<1>3. Len(got') = 0
  BY <1>2, EmptySeq
<1>4. SUFFICES ASSUME command'.op = "cat"
               PROVE  CatInv'
  BY <1>2 DEF CatInv
<1>5. command.op = "cat" /\ todo' = << >> /\ stage' = "read"
  BY <1>4 DEF NextFileCall, CatInv
<1>6. calls \in Seq(FAT32DriverRequest)
  BY DEF FilesTypeInv, FilesTypeOK
<1>7. /\ Len(calls) \in Nat /\ Len(calls) > 0 /\ Head(calls) = calls[1]
      /\ Len(calls') = Len(calls) - 1
      /\ \A i \in 1 .. Len(calls') : calls'[i] = calls[i + 1]
  BY <1>1, <1>6, EmptySeq, LenProperties, HeadTailProperties
<1>8. /\ Head(calls).op = "read"
      /\ Head(calls).buffer_size = CatClusters * ClusterSize
  BY <1>5, <1>7 DEF CatInv
<1>9. \A i \in 1 .. Len(calls') :
        /\ calls'[i].op = "read"
        /\ calls'[i].buffer_size = CatClusters * ClusterSize
  BY <1>5, <1>7 DEF CatInv
<1>10. pc' = "chain" =>
         Len(got') * ClusterSize + left' =< CatClusters * ClusterSize
  <2>1. 0 * ClusterSize = 0
    BY LayoutAssumption
  <2> QED
    BY <1>2, <1>3, <1>8, <2>1
<1> QED
  BY <1>2, <1>3, <1>5, <1>8, <1>9, <1>10, CatAssumption DEF CatInv

LEMMA CatFollowChain ==
  ASSUME FilesTypeInv, CatInv, FollowChain, UNCHANGED <<command, calls, todo, stage>>
  PROVE  CatInv'
<1>1. pc = "chain" /\ pc' \in {"chain", "return"}
  BY DEF FollowChain
<1>2. SUFFICES ASSUME command.op = "cat"
               PROVE  CatInv'
  BY <1>1 DEF CatInv
<1>3. /\ Len(got) \in Nat /\ left \in Int
      /\ Len(got') = Len(got) + 1
      /\ left' = left - ClusterSize
  BY LenProperties, AppendProperties, ReadClusterType
     DEF FollowChain, FilesTypeInv, TypeInv, TypeOK
<1>4. left > 0 /\ Len(got) * ClusterSize + left =< CatClusters * ClusterSize
  BY <1>1, <1>2 DEF CatInv
<1>5. Len(got) < CatClusters
  <2>1. /\ Len(got) * ClusterSize \in Nat /\ CatClusters * ClusterSize \in Nat
        /\ ClusterSize \in Nat
    BY <1>3, CatAssumption, LayoutAssumption
  <2>2. Len(got) * ClusterSize < CatClusters * ClusterSize
    BY <1>3, <1>4, <2>1
  <2> QED
    BY <1>3, <2>1, <2>2, CatAssumption, SmallerProduct
<1>6. pc' = "chain" => /\ left' > 0
                       /\ Len(got') * ClusterSize + left'
                            =< CatClusters * ClusterSize
  <2>1. pc' = "chain" => left > ClusterSize
    BY DEF FollowChain
  <2>2. (Len(got) + 1) * ClusterSize = Len(got) * ClusterSize + ClusterSize
    BY <1>3, LayoutAssumption
  <2>3. Len(got) * ClusterSize \in Nat /\ ClusterSize \in Nat
    BY <1>3, LayoutAssumption
  <2> QED
    BY <1>3, <1>4, <2>1, <2>2, <2>3
<1> QED
  BY <1>1, <1>2, <1>3, <1>5, <1>6, CatAssumption DEF CatInv

LEMMA CatStep ==
  ASSUME FilesTypeInv, CatInv, [FilesNext]_fileVars
  PROVE  CatInv'
<1>1. CASE FileTyped
  BY <1>1, CatTyped
<1>2. CASE NextFileCall
  BY <1>2, CatNextCall
<1>3. CASE FileReturns
  <2>1. pc' = "idle" /\ got' = << >>
    BY <1>3 DEF FileReturns, ProbeReturns, ListReturns, ReadReturns,
                ChangeReturns, NothingReturns, GoesOn, RoutineEnds, Goes,
                Return
  <2>2. SUFFICES ASSUME command'.op = "cat"
                 PROVE  CatInv'
    BY <2>1 DEF CatInv
  <2>3. command.op = "cat"
    BY <1>3, <2>2
       DEF FileReturns, ProbeReturns, ListReturns, ReadReturns,
           ChangeReturns, NothingReturns, GoesOn, RoutineEnds, Goes, NoCommand
  <2>4. NothingReturns
    BY <1>3, <2>3 DEF FileReturns, ProbeReturns, ListReturns, ReadReturns,
                      ChangeReturns, CatInv
  <2>5. UNCHANGED <<calls, todo, stage>>
    BY <2>4 DEF NothingReturns, Goes
  <2>6. Len(got') = 0
    BY <2>1, EmptySeq
  <2> QED
    BY <2>1, <2>3, <2>5, <2>6, CatAssumption DEF CatInv
<1>4. CASE FileKernelStep
  <2>1. UNCHANGED <<command, calls, todo, stage>>
    BY <1>4 DEF FileKernelStep, KernelStep
  <2>2. CASE FollowChain
    BY <2>1, <2>2, CatFollowChain
  <2>3. CASE ~FollowChain
    <3>1. /\ got' = got
          /\ pc \in {"off", "alloc", "format", "flush", "walk"}
      BY <1>4, <2>3
         DEF FileKernelStep, KernelStep, CreateFat32, AllocateCluster,
             AllocateLastCluster, PlaceData, FlushWrite, DiskFull, WalkChain,
             EndOfChain, locals
    <3>2. command'.op # "cat"
      BY <2>1, <3>1 DEF CatInv
    <3> QED
      BY <3>1, <3>2 DEF CatInv
  <2> QED
    BY <2>2, <2>3
<1>5. CASE UNCHANGED fileVars
  BY <1>5 DEF fileVars, shellVars, vars, locals, CatInv
<1> QED
  BY <1>1, <1>2, <1>3, <1>4, <1>5 DEF FilesNext

\* The kernel never moves more clusters into cat's buffer than it has
\* (commands.c:230), whatever the file, its chain and the FAT are.
THEOREM CatFits == FilesSpec => []CatWithinBuffer
<1>1. FilesInit => FilesTypeInv /\ CatInv
  BY FilesTypeInit
     DEF FilesInit, ShellInit, Init, NoCommand, CatInv
<1>2. FilesTypeInv /\ CatInv /\ [FilesNext]_fileVars => (FilesTypeInv /\ CatInv)'
  BY FilesTypeStep, CatStep
<1>3. CatInv => CatWithinBuffer
  BY DEF CatInv, CatWithinBuffer
<1> QED
  BY <1>1, <1>2, <1>3, PTL DEF FilesSpec

-----------------------------------------------------------------------------
(* The tree of folders, for CwdNameListed.  mkdir writes the parent's table *)
(* before the one of the new folder, so the invariant is about the disk as  *)
(* the writes outstanding will leave it.                                    *)

Settled ==
  [c \in Clusters |->
     IF Len(queue) > 2 /\ queue[3].cluster = c THEN queue[3].cell
     ELSE IF Len(queue) > 1 /\ queue[2].cluster = c THEN queue[2].cell
     ELSE IF Len(queue) > 0 /\ queue[1].cluster = c THEN queue[1].cell
     ELSE disk[c]]

IsDir(d, c) == c \in Clusters /\ d[c].kind = "dir"

Lists(d, c, name) ==
  \E s \in Slots : IsFolder(d[c].entries[s]) /\ d[c].entries[s].name = name

\* The table in cluster c begins with the name of its directory, and the
\* table it names as the parent's has a folder of this name.
Placed(d, c) ==
  /\ IsDir(d, c)
  /\ IsFolder(d[c].entries[0])
  /\ IsDir(d, d[c].entries[0].cluster)
  /\ Lists(d, d[c].entries[0].cluster, d[c].entries[0].name)

\* Every folder that a table lists leads to one that is placed, under the
\* name it is listed by unless it is the way back to the parent.
Tree(d) ==
  \A c \in Clusters, s \in Slots :
    IsDir(d, c) /\ IsFolder(d[c].entries[s]) =>
      LET child == d[c].entries[s].cluster
      IN /\ Placed(d, child)
         /\ s # 0 => d[child].entries[0].name = d[c].entries[s].name

\* No file and no folder gets the cluster of a table.
Taken(d) ==
  /\ d[FAT_CLUSTER_NUMBER].kind = "fat"
  /\ d[FAT_CLUSTER_NUMBER].map[FAT_CLUSTER_NUMBER] # 0
  /\ \A c \in Clusters : IsDir(d, c) => d[FAT_CLUSTER_NUMBER].map[c] # 0

SameEntry(e, f) ==
  e.name = f.name /\ e.attribute = f.attribute /\ e.cluster = f.cluster

\* The directory that cd lists.
Target == IF command.name = ParentName THEN cwd.prevCluster
                                       ELSE cwd.currentCluster

WriteUnderWay(d) ==
  /\ Placed(d, req.parent_cluster_number)
  /\ \A s \in Slots :
       SameEntry(table[s], d[req.parent_cluster_number].entries[s])
  /\ \A c \in Clusters : d[FAT_CLUSTER_NUMBER].map[c] # 0 => fat[c] # 0

\* Where the shell can go next.
Anchored(d) ==
  /\ Placed(d, ROOT_CLUSTER_NUMBER)
  /\ Placed(d, cwd.currentCluster) /\ Placed(d, cwd.prevCluster)
  /\ Lists(d, cwd.currentCluster, cwd.cwdName)

WritesPlaced(d) ==
  \A i \in 1 .. Len(calls) :
    calls[i].op = "write" => Placed(d, calls[i].parent_cluster_number)

CdLooksAt(d) ==
  command.op = "cd" /\ pc = "return" => table = d[Target].entries

TreeInv ==
  /\ Tree(Settled) /\ Taken(Settled)
  /\ Anchored(Settled)
  /\ WritesPlaced(Settled)
  /\ pc = "alloc" => WriteUnderWay(Settled)
  /\ CdLooksAt(Settled)

\* Before main's files are written there is nothing on the disk.
NotFormatted ==
  /\ disk = [c \in Clusters |-> Blank]
  /\ command.op = "main"
  /\ cwd.currentCluster = ROOT_CLUSTER_NUMBER
  /\ cwd.prevCluster = ROOT_CLUSTER_NUMBER
  /\ cwd.cwdName = RootName
  /\ \A i \in 1 .. Len(calls) :
       calls[i].parent_cluster_number = ROOT_CLUSTER_NUMBER

CdCalls ==
  command.op = "cd" =>
    /\ pc \in {"idle", "return"}
    /\ \A i \in 1 .. Len(calls) :
         /\ calls[i].op = "read_directory"
         /\ calls[i].parent_cluster_number = Target

QueueShort ==
  /\ Len(queue) =< 3
  /\ pc \notin {"format", "flush"} => queue = << >>

\* The inductive invariant.  Nothing is said once a folder was written over
\* the boot sector, and the signature never comes back then.
PlaceInv ==
  /\ QueueShort
  /\ CdCalls
  /\ pc = "off" => NotFormatted
  /\ pc # "off" /\ Settled[BOOT_SECTOR] = Signature => TreeInv

LEMMA SettledIdle ==
  ASSUME TypeOK, queue = << >>
  PROVE  Settled = disk
BY EmptySeq DEF Settled, TypeOK

LEMMA SettledFlushed ==
  ASSUME TypeInv, QueueShort, FlushWrite
  PROVE  Settled' = Settled /\ QueueShort'
<1>1. queue \in Seq(Items) /\ queue # << >>
  BY DEF FlushWrite, TypeInv, TypeOK, QueueOK
<1>2. /\ Len(queue) \in Nat /\ Len(queue) > 0 /\ Head(queue) = queue[1]
      /\ queue' \in Seq(Items) /\ Len(queue') = Len(queue) - 1
      /\ \A i \in 1 .. Len(queue') : queue'[i] = queue[i + 1]
  BY <1>1, EmptySeq, LenProperties, HeadTailProperties DEF FlushWrite
<1>3. \A c \in Clusters : disk'[c] = IF queue[1].cluster = c THEN queue[1].cell
                                                              ELSE disk[c]
  BY <1>2 DEF FlushWrite, WriteCluster
<1>4. /\ Len(queue') > 0 => queue'[1] = queue[2]
      /\ Len(queue') > 1 => queue'[2] = queue[3]
      /\ Len(queue') =< 2
  BY <1>2 DEF QueueShort
<1>5. ASSUME NEW c \in Clusters
      PROVE  Settled'[c] = Settled[c]
  BY <1>2, <1>3, <1>4 DEF Settled, QueueShort
<1>6. Settled' = Settled
  BY <1>5 DEF Settled
<1>7. QueueShort'
  <2>1. pc' \notin {"format", "flush"} => Len(queue) =< 1
    BY DEF FlushWrite
  <2>2. pc' \notin {"format", "flush"} => queue' = << >>
    BY <1>2, <2>1, EmptySeq
  <2> QED
    BY <1>2, <1>4, <2>2 DEF QueueShort
<1> QED
  BY <1>6, <1>7

\* What a write does to the tree: used entries stay.
Grows(d, e) ==
  \A c \in Clusters : IsDir(d, c) =>
    /\ IsDir(e, c)
    /\ \A s \in Slots : d[c].entries[s].name # NoName =>
         SameEntry(e[c].entries[s], d[c].entries[s])

LEMMA ListsGrows ==
  ASSUME NEW d, NEW e, Grows(d, e), NEW c, IsDir(d, c), NEW name,
         Lists(d, c, name)
  PROVE  Lists(e, c, name)
BY DEF Grows, Lists, IsDir, IsFolder, SameEntry

LEMMA PlacedGrows ==
  ASSUME NEW d, NEW e, Grows(d, e), NEW c, Placed(d, c)
  PROVE  /\ Placed(e, c)
         /\ e[c].entries[0].name = d[c].entries[0].name
<1>1. SameEntry(e[c].entries[0], d[c].entries[0]) /\ IsDir(e, c)
  BY ClusterFacts DEF Grows, Placed, IsDir, IsFolder
<1>2. IsDir(e, d[c].entries[0].cluster)
  BY DEF Grows, Placed, IsDir
<1>3. Lists(e, d[c].entries[0].cluster, d[c].entries[0].name)
  BY ListsGrows DEF Placed
<1> QED
  BY <1>1, <1>2, <1>3 DEF Placed, IsFolder, SameEntry

\* Entry s of cluster c is as before, or its folder is in its place.
GrownEntry(d, e, c, s) ==
  LET child == e[c].entries[s].cluster
  IN \/ IsDir(d, c) /\ SameEntry(e[c].entries[s], d[c].entries[s])
     \/ /\ Placed(e, child)
        /\ s # 0 => e[child].entries[0].name = e[c].entries[s].name

\* A folder that a table did not list before has to be placed.
LEMMA TreeGrows ==
  ASSUME NEW d, NEW e, Grows(d, e), Tree(d),
         \A c \in Clusters, s \in Slots :
           IsDir(e, c) /\ IsFolder(e[c].entries[s]) => GrownEntry(d, e, c, s)
  PROVE  Tree(e)
<1> SUFFICES ASSUME NEW c \in Clusters, NEW s \in Slots, IsDir(d, c),
                    IsFolder(e[c].entries[s]),
                    SameEntry(e[c].entries[s], d[c].entries[s])
             PROVE  LET child == e[c].entries[s].cluster
                    IN /\ Placed(e, child)
                       /\ s # 0 =>
                            e[child].entries[0].name = e[c].entries[s].name
  BY DEF Tree, GrownEntry
<1> DEFINE child == d[c].entries[s].cluster
<1>1. IsFolder(d[c].entries[s]) /\ e[c].entries[s].cluster = child
      /\ e[c].entries[s].name = d[c].entries[s].name
  BY DEF IsFolder, SameEntry
<1>2. /\ Placed(d, child)
      /\ s # 0 => d[child].entries[0].name = d[c].entries[s].name
  BY <1>1 DEF Tree
<1> HIDE DEF child
<1>3. Placed(e, child) /\ e[child].entries[0].name = d[child].entries[0].name
  BY <1>2, PlacedGrows
<1> QED
  BY <1>1, <1>2, <1>3

LEMMA StoredEntries ==
  ASSUME NEW t, NEW entry, NEW f,
         \A s \in Slots : SameEntry(t[s], f[s]),
         NEW s \in Slots
  PROVE  /\ f[s].name # NoName => SameEntry(StoreEntry(t, entry)[s], f[s])
         /\ \/ SameEntry(StoreEntry(t, entry)[s], f[s])
            \/ StoreEntry(t, entry)[s] = entry
BY DEF StoreEntry, IsFirstUnused, SameEntry

LEMMA NewTableEntries ==
  ASSUME NEW name, NEW p
  PROVE  LET t == InitDirectoryTable(name, p)
         IN /\ t[0].name = name /\ t[0].attribute = ATTR_SUBDIRECTORY
            /\ t[0].cluster = p
            /\ \A s \in Slots \ {0} : t[s].name = NoName
<1> DEFINE t == InitDirectoryTable(name, p)
<1>1. /\ t[0] = [ZeroEntry EXCEPT !.name = name,
                                  !.attribute = ATTR_SUBDIRECTORY,
                                  !.cluster = p]
      /\ \A s \in Slots \ {0} : t[s] = ZeroEntry
  BY ClusterFacts DEF InitDirectoryTable
<1> HIDE DEF t
<1>2. /\ t[0].name = name /\ t[0].attribute = ATTR_SUBDIRECTORY
      /\ t[0].cluster = p
      /\ \A s \in Slots \ {0} : t[s].name = NoName
  BY <1>1 DEF ZeroEntry
<1> QED
  BY <1>2 DEF t

LEMMA DirCellIsDir ==
  ASSUME NEW e, NEW c \in Clusters, NEW t, e[c] = DirCell(t)
  PROVE  IsDir(e, c) /\ e[c].entries = t
BY CellKinds DEF IsDir, DirCell

\* The entry of a file goes into a table.
LEMMA FileSaved ==
  ASSUME NEW d, NEW e, Tree(d), NEW p, IsDir(d, p), NEW t, NEW entry,
         entry.attribute # ATTR_SUBDIRECTORY,
         \A s \in Slots : SameEntry(t[s], d[p].entries[s]),
         e[p] = DirCell(StoreEntry(t, entry)),
         \A c \in Clusters \ {p} : IsDir(d, c) \/ IsDir(e, c) => e[c] = d[c]
  PROVE  Grows(d, e) /\ Tree(e)
<1>1. p \in Clusters /\ IsDir(e, p) /\ e[p].entries = StoreEntry(t, entry)
  BY DirCellIsDir DEF IsDir
<1>2. \A s \in Slots :
        /\ d[p].entries[s].name # NoName =>
             SameEntry(e[p].entries[s], d[p].entries[s])
        /\ \/ SameEntry(e[p].entries[s], d[p].entries[s])
           \/ e[p].entries[s] = entry
  BY <1>1, StoredEntries
<1>3. Grows(d, e)
  BY <1>1, <1>2 DEF Grows, IsDir, SameEntry
<1>4. \A c \in Clusters, s \in Slots :
        IsDir(e, c) /\ IsFolder(e[c].entries[s]) =>
          IsDir(d, c) /\ SameEntry(e[c].entries[s], d[c].entries[s])
  BY <1>1, <1>2 DEF IsDir, IsFolder, SameEntry
<1>5. \A c \in Clusters, s \in Slots :
        IsDir(e, c) /\ IsFolder(e[c].entries[s]) => GrownEntry(d, e, c, s)
  BY <1>4 DEF GrownEntry
<1> QED
  BY <1>3, <1>5, TreeGrows

\* The entry of a folder goes into a table, and a table into its cluster.
LEMMA FolderSaved ==
  ASSUME NEW d, NEW e, Tree(d), NEW p, Placed(d, p), NEW t, NEW r,
         NEW index \in Clusters, ~IsDir(d, index),
         \A s \in Slots : SameEntry(t[s], d[p].entries[s]),
         e[p] = DirCell(StoreEntry(t, FolderEntry(r, index))),
         e[index] = DirCell(InitDirectoryTable(r.name, p)),
         \A c \in Clusters \ {p, index} :
           IsDir(d, c) \/ IsDir(e, c) => e[c] = d[c]
  PROVE  Grows(d, e) /\ Tree(e)
<1> DEFINE entry == FolderEntry(r, index)
<1>1. /\ IsDir(d, p) /\ p \in Clusters /\ p # index /\ IsDir(e, p)
      /\ e[p].entries = StoreEntry(t, entry)
  BY DirCellIsDir DEF Placed, IsDir
<1>2. /\ entry.name = r.name /\ entry.attribute = ATTR_SUBDIRECTORY
      /\ entry.cluster = index
  BY DEF FolderEntry
<1>3. /\ IsDir(e, index)
      /\ e[index].entries[0].name = r.name
      /\ e[index].entries[0].attribute = ATTR_SUBDIRECTORY
      /\ e[index].entries[0].cluster = p
      /\ \A s \in Slots \ {0} : e[index].entries[s].name = NoName
  <2>1. IsDir(e, index) /\ e[index].entries = InitDirectoryTable(r.name, p)
    BY DirCellIsDir
  <2> QED
    BY <2>1, NewTableEntries
<1> HIDE DEF entry
<1>4. \A s \in Slots :
        /\ d[p].entries[s].name # NoName =>
             SameEntry(e[p].entries[s], d[p].entries[s])
        /\ \/ SameEntry(e[p].entries[s], d[p].entries[s])
           \/ e[p].entries[s] = entry
  BY <1>1, StoredEntries
<1>5. Grows(d, e)
  BY <1>1, <1>4 DEF Grows, IsDir, SameEntry
<1>6. Placed(e, p)
  BY <1>5, PlacedGrows
<1>7. ASSUME NEW s \in Slots, e[p].entries[s] = entry, IsFolder(entry)
      PROVE  Placed(e, index)
  <2>1. IsFolder(e[index].entries[0])
    BY <1>2, <1>3, <1>7 DEF IsFolder
  <2>2. Lists(e, p, r.name)
    BY <1>2, <1>7 DEF Lists
  <2> QED
    BY <1>1, <1>3, <2>1, <2>2 DEF Placed
<1>8. ASSUME NEW c \in Clusters, NEW s \in Slots,
             IsDir(e, c), IsFolder(e[c].entries[s])
      PROVE  GrownEntry(d, e, c, s)
  <2>1. CASE c = p
    BY <1>1, <1>2, <1>3, <1>4, <1>7, <1>8, <2>1 DEF GrownEntry
  <2>2. CASE c = index
    <3>1. s = 0
      BY <1>3, <1>8, <2>2 DEF IsFolder
    <3> QED
      BY <1>3, <1>6, <2>2, <3>1 DEF GrownEntry
  <2>3. CASE c \notin {p, index}
    BY <1>8, <2>3 DEF GrownEntry, IsDir, SameEntry
  <2> QED
    BY <2>1, <2>2, <2>3
<1> QED
  BY <1>5, <1>8, TreeGrows

LEMMA RootTree ==
  ASSUME NEW d, d[ROOT_CLUSTER_NUMBER] = DirCell(RootTable),
         \A c \in Clusters \ {ROOT_CLUSTER_NUMBER} : ~IsDir(d, c)
  PROVE  /\ Tree(d)
         /\ Placed(d, ROOT_CLUSTER_NUMBER)
         /\ Lists(d, ROOT_CLUSTER_NUMBER, RootName)
<1> DEFINE root == ROOT_CLUSTER_NUMBER
<1>1. root \in Clusters
  BY ClusterFacts DEF ROOT_CLUSTER_NUMBER
<1>2. /\ IsDir(d, root)
      /\ d[root].entries = InitDirectoryTable(RootName, root)
  BY <1>1, DirCellIsDir DEF RootTable
<1>3. /\ d[root].entries[0].name = RootName
      /\ d[root].entries[0].attribute = ATTR_SUBDIRECTORY
      /\ d[root].entries[0].cluster = root
      /\ \A s \in Slots \ {0} : d[root].entries[s].name = NoName
  BY <1>2, NewTableEntries
<1>4. IsFolder(d[root].entries[0])
  BY <1>3, LayoutAssumption DEF IsFolder
<1>5. Lists(d, root, RootName)
  BY <1>3, <1>4, ClusterFacts DEF Lists
<1>6. Placed(d, root)
  BY <1>2, <1>3, <1>4, <1>5 DEF Placed
<1>7. \A s \in Slots : IsFolder(d[root].entries[s]) => s = 0
  BY <1>3 DEF IsFolder
<1> QED
  BY <1>3, <1>5, <1>6, <1>7 DEF Tree

LEMMA AnchorsGrow ==
  ASSUME NEW d, NEW e, Grows(d, e), Anchored(d), WritesPlaced(d)
  PROVE  Anchored(e) /\ WritesPlaced(e)
<1>1. Anchored(e)
  BY PlacedGrows, ListsGrows DEF Anchored, Placed
<1>2. WritesPlaced(e)
  BY PlacedGrows DEF WritesPlaced
<1> QED
  BY <1>1, <1>2

LEMMA SettledSaved ==
  ASSUME NEW p, NEW m, NEW t, queue' = SaveOrder(p, m, t)
  PROVE  /\ Len(queue') = 2
         /\ \A c \in Clusters :
              Settled'[c] = IF c = p THEN DirCell(t)
                            ELSE IF c = FAT_CLUSTER_NUMBER THEN FatCell(m)
                            ELSE disk'[c]
<1>1. /\ Len(queue') = 2
      /\ queue'[1] = Item(FAT_CLUSTER_NUMBER, FatCell(m))
      /\ queue'[2] = Item(p, DirCell(t))
  BY DEF SaveOrder
<1>2. /\ queue'[1].cluster = FAT_CLUSTER_NUMBER
      /\ queue'[1].cell = FatCell(m)
      /\ queue'[2].cluster = p /\ queue'[2].cell = DirCell(t)
  BY <1>1 DEF Item
<1> QED
  BY <1>1, <1>2 DEF Settled

LEMMA SignatureKind ==
  /\ Signature.kind = "signature" /\ Blank.kind = "blank"
  /\ \A t : DirCell(t).kind = "dir"
  /\ \A m : FatCell(m).kind = "fat" /\ FatCell(m).map = m
  /\ \A n, x, k : DataCell(n, x, k).kind = "data"
BY DEF Signature, Blank, DirCell, FatCell, DataCell

LEMMA PlaceInit ==
  ASSUME ShellInit
  PROVE  PlaceInv
<1>1. Len(queue) = 0 /\ queue = << >> /\ pc = "off"
  BY EmptySeq DEF ShellInit, Init
<1>2. /\ Len(StartFiles) \in Nat
      /\ DOMAIN StartFiles = 1 .. Len(StartFiles)
  BY ShellAssumption, LenProperties
<1>3. calls = [i \in 1 .. Len(StartFiles) |-> StartFile(StartFiles[i])]
  BY <1>2 DEF ShellInit
<1>4. Len(calls) = Len(StartFiles)
  BY <1>2, <1>3
<1>5. \A i \in 1 .. Len(calls) :
        calls[i].parent_cluster_number = ROOT_CLUSTER_NUMBER
  BY <1>3, <1>4 DEF StartFile
<1>6. /\ command.op = "main"
      /\ cwd.currentCluster = ROOT_CLUSTER_NUMBER
      /\ cwd.prevCluster = ROOT_CLUSTER_NUMBER
      /\ cwd.cwdName = RootName
  BY DEF ShellInit, NoCommand
<1>7. disk = [c \in Clusters |-> Blank]
  BY DEF ShellInit, Init
<1> QED
  BY <1>1, <1>5, <1>6, <1>7 DEF PlaceInv, NotFormatted, CdCalls, QueueShort

LEMMA PlaceCreate ==
  ASSUME TypeOK, PlaceInv, CreateFat32, UNCHANGED <<cwd, command, calls>>
  PROVE  PlaceInv'
<1>1. NotFormatted /\ pc' = "format" /\ UNCHANGED <<disk, req, table, fat>>
  BY DEF CreateFat32, PlaceInv
<1>2. /\ Len(queue') = 3
      /\ queue'[1] = Item(BOOT_SECTOR, Signature)
      /\ queue'[2] = Item(ROOT_CLUSTER_NUMBER, DirCell(RootTable))
      /\ queue'[3] = Item(FAT_CLUSTER_NUMBER, FatCell(FormattedMap))
  BY DEF CreateFat32
<1>3. /\ queue'[1].cluster = 0 /\ queue'[1].cell = Signature
      /\ queue'[2].cluster = 2 /\ queue'[2].cell = DirCell(RootTable)
      /\ queue'[3].cluster = 1 /\ queue'[3].cell = FatCell(FormattedMap)
  BY <1>2 DEF Item, BOOT_SECTOR, ROOT_CLUSTER_NUMBER, FAT_CLUSTER_NUMBER
<1> DEFINE e == Settled'
<1>4. \A c \in Clusters : e[c] = CASE c = 0 -> Signature
                                   [] c = 1 -> FatCell(FormattedMap)
                                   [] c = 2 -> DirCell(RootTable)
                                   [] OTHER -> Blank
  BY <1>1, <1>2, <1>3 DEF Settled, NotFormatted
<1>5. /\ e[FAT_CLUSTER_NUMBER] = FatCell(FormattedMap)
      /\ e[ROOT_CLUSTER_NUMBER] = DirCell(RootTable)
      /\ \A c \in Clusters \ {ROOT_CLUSTER_NUMBER} : ~IsDir(e, c)
  BY <1>4, ClusterFacts, SignatureKind
     DEF IsDir, FAT_CLUSTER_NUMBER, ROOT_CLUSTER_NUMBER
<1> HIDE DEF e
<1>6. /\ Tree(e) /\ Placed(e, ROOT_CLUSTER_NUMBER)
      /\ Lists(e, ROOT_CLUSTER_NUMBER, RootName)
  BY <1>5, RootTree
<1>7. Taken(e)
  <2>1. /\ FormattedMap[FAT_CLUSTER_NUMBER] # 0
        /\ FormattedMap[ROOT_CLUSTER_NUMBER] # 0
    BY ClusterFacts
       DEF FormattedMap, FAT_CLUSTER_NUMBER, ROOT_CLUSTER_NUMBER,
           CLUSTER_1_VALUE, FAT32_FAT_END_OF_FILE
  <2> QED
    BY <1>5, <2>1, SignatureKind DEF Taken, IsDir
<1>8. TreeInv'
  <2>1. Anchored(Settled)' /\ WritesPlaced(Settled)' /\ CdLooksAt(Settled)'
    BY <1>1, <1>6
       DEF Anchored, WritesPlaced, CdLooksAt, NotFormatted, e
  <2> QED
    BY <1>1, <1>6, <1>7, <2>1 DEF TreeInv, e
<1> QED
  BY <1>1, <1>2, <1>8 DEF PlaceInv, CdCalls, QueueShort, NotFormatted

\* The data of a file goes where no table is.
LEMMA PlaceDataTree ==
  ASSUME TypeInv, PlaceInv, NEW i \in Clusters, PlaceData(i), i # BOOT_SECTOR,
         disk'[BOOT_SECTOR] = Signature
  PROVE  /\ TreeInv /\ Settled = disk /\ WriteUnderWay(disk)
         /\ i # FAT_CLUSTER_NUMBER /\ ~IsDir(disk, i)
         /\ \A c \in Clusters : /\ c # i => disk'[c] = disk[c]
                                /\ IsDir(disk, c) => disk'[c] = disk[c]
                                /\ IsDir(disk', c) => disk'[c] = disk[c]
         /\ command.op # "cd"
<1>1. pc = "alloc" /\ queue = << >> /\ Settled = disk /\ command.op # "cd"
  BY SettledIdle DEF PlaceData, PlaceInv, CdCalls, QueueShort, TypeInv
<1>2. \A c \in Clusters :
        disk'[c] = IF c = i THEN DataCell(req.name, req.ext, counter)
                            ELSE disk[c]
  BY DEF PlaceData, WriteCluster
<1>3. TreeInv
  BY <1>1, <1>2, ClusterFacts DEF PlaceInv, BOOT_SECTOR
<1>4. WriteUnderWay(disk) /\ Taken(disk)
  BY <1>1, <1>3 DEF TreeInv
<1>5. fat[i] = 0
  BY DEF PlaceData, IsFirstFree
<1>6. i # FAT_CLUSTER_NUMBER /\ ~IsDir(disk, i)
  BY <1>4, <1>5 DEF WriteUnderWay, Taken
<1>7. DataCell(req.name, req.ext, counter).kind = "data"
  BY SignatureKind
<1> QED
  BY <1>1, <1>2, <1>3, <1>4, <1>6, <1>7 DEF IsDir

LEMMA SameTablesGrow ==
  ASSUME NEW d, NEW e, Tree(d),
         \A c \in Clusters : IsDir(d, c) \/ IsDir(e, c) => e[c] = d[c]
  PROVE  Grows(d, e) /\ Tree(e)
<1>1. \A c \in Clusters : IsDir(d, c) <=> IsDir(e, c)
  BY DEF IsDir
<1>2. Grows(d, e)
  BY <1>1 DEF Grows, SameEntry
<1> QED
  BY <1>1, <1>2, TreeGrows DEF GrownEntry, SameEntry

LEMMA PlaceAllocate ==
  ASSUME TypeInv, TypeInv', PlaceInv, NEW i \in Clusters, AllocateCluster(i),
         UNCHANGED <<cwd, command, calls>>
  PROVE  PlaceInv'
<1>1. PlaceData(i) /\ pc = "alloc" /\ pc' = "alloc" /\ queue' = queue
  BY DEF AllocateCluster, PlaceData
<1>2. queue = << >> /\ Settled' = disk' /\ QueueShort'
  <2>1. queue = << >> /\ Len(queue) = 0
    BY <1>1, EmptySeq DEF PlaceInv, QueueShort
  <2>2. (Settled = disk)'
    BY <1>1, <2>1, EmptySeq DEF Settled, TypeInv, TypeOK
  <2> QED
    BY <1>1, <2>1, <2>2 DEF QueueShort
<1>3. command'.op # "cd"
  BY <1>1 DEF PlaceInv, CdCalls
<1>4. SUFFICES ASSUME disk'[BOOT_SECTOR] = Signature
               PROVE  TreeInv'
  BY <1>1, <1>2, <1>3 DEF PlaceInv, CdCalls
<1>5. i # BOOT_SECTOR
  BY <1>1, <1>4, SignatureKind DEF PlaceData, WriteCluster
<1>6. /\ TreeInv /\ Settled = disk /\ WriteUnderWay(disk)
      /\ i # FAT_CLUSTER_NUMBER /\ ~IsDir(disk, i)
      /\ \A c \in Clusters : /\ c # i => disk'[c] = disk[c]
                             /\ IsDir(disk, c) => disk'[c] = disk[c]
                             /\ IsDir(disk', c) => disk'[c] = disk[c]
  BY <1>1, <1>4, <1>5, PlaceDataTree
<1>7. Tree(disk) /\ Taken(disk) /\ Anchored(disk) /\ WritesPlaced(disk)
  BY <1>6 DEF TreeInv
<1> DEFINE e == disk'
<1>8. Grows(disk, e) /\ Tree(e)
  BY <1>6, <1>7, SameTablesGrow
<1>9. disk'[FAT_CLUSTER_NUMBER] = disk[FAT_CLUSTER_NUMBER]
  BY <1>6, ClusterFacts DEF FAT_CLUSTER_NUMBER
<1>10. Taken(e)
  BY <1>6, <1>7, <1>9 DEF Taken, IsDir
<1>11. Anchored(e) /\ WritesPlaced(e)
  BY <1>7, <1>8, AnchorsGrow
<1>12. WriteUnderWay(Settled)'
  <2>1. UNCHANGED <<req, table>> /\ fat' = Chained(i)
    BY DEF AllocateCluster
  <2>2. \A c \in Clusters : fat[c] # 0 => fat'[c] # 0
    BY <1>5, <2>1 DEF Chained, SetLink, BOOT_SECTOR
  <2>3. Placed(e, req.parent_cluster_number)
    BY <1>6, <1>8, PlacedGrows DEF WriteUnderWay
  <2>4. e[req.parent_cluster_number] = disk[req.parent_cluster_number]
    BY <1>6 DEF WriteUnderWay, Placed, IsDir
  <2> QED
    BY <1>2, <1>6, <1>9, <2>1, <2>2, <2>3, <2>4 DEF WriteUnderWay
<1>13. Anchored(Settled)' /\ WritesPlaced(Settled)' /\ CdLooksAt(Settled)'
  BY <1>2, <1>3, <1>11 DEF Anchored, WritesPlaced, CdLooksAt
<1> QED
  BY <1>2, <1>8, <1>10, <1>12, <1>13 DEF TreeInv

LEMMA PlaceAllocateLast ==
  ASSUME TypeInv, PlaceInv, NEW i \in Clusters, AllocateLastCluster(i),
         UNCHANGED <<cwd, command, calls>>
  PROVE  PlaceInv'
<1> DEFINE p     == req.parent_cluster_number
           m     == SetLink(Chained(i), prev, FAT32_FAT_END_OF_FILE)
           entry == FileEntry(req, first', req.buffer_size)
           t     == StoreEntry(table, entry)
           e     == Settled'
<1>1. /\ PlaceData(i) /\ pc = "alloc" /\ pc' = "flush"
      /\ fat' = m /\ queue' = SaveOrder(p, m, t)
  BY DEF AllocateLastCluster, PlaceData, SaveFile
<1>2. command'.op # "cd"
  BY <1>1 DEF PlaceInv, CdCalls
<1> HIDE DEF m, t, entry
<1>3. /\ Len(queue') = 2
      /\ \A c \in Clusters :
           e[c] = IF c = p THEN DirCell(t)
                  ELSE IF c = FAT_CLUSTER_NUMBER THEN FatCell(m)
                  ELSE disk'[c]
  BY <1>1, SettledSaved
<1> HIDE DEF e
<1>4. QueueShort'
  BY <1>1, <1>3 DEF QueueShort
<1>5. SUFFICES ASSUME e[BOOT_SECTOR] = Signature
               PROVE  TreeInv'
  BY <1>1, <1>2, <1>4 DEF PlaceInv, CdCalls, e
<1>6. p # BOOT_SECTOR /\ disk'[BOOT_SECTOR] = Signature
  BY <1>3, <1>5, ClusterFacts, SignatureKind
     DEF BOOT_SECTOR, FAT_CLUSTER_NUMBER
<1>7. i # BOOT_SECTOR
  BY <1>1, <1>6, SignatureKind DEF PlaceData, WriteCluster
<1>8. /\ TreeInv /\ Settled = disk /\ WriteUnderWay(disk)
      /\ i # FAT_CLUSTER_NUMBER /\ ~IsDir(disk, i)
      /\ \A c \in Clusters : /\ c # i => disk'[c] = disk[c]
                             /\ IsDir(disk, c) => disk'[c] = disk[c]
                             /\ IsDir(disk', c) => disk'[c] = disk[c]
  BY <1>1, <1>6, <1>7, PlaceDataTree
<1>9. Tree(disk) /\ Taken(disk) /\ Anchored(disk) /\ WritesPlaced(disk)
  BY <1>8 DEF TreeInv
<1>10. /\ IsDir(disk, p) /\ p \in Clusters /\ p # FAT_CLUSTER_NUMBER
       /\ \A s \in Slots : SameEntry(table[s], disk[p].entries[s])
  BY <1>8, <1>9 DEF WriteUnderWay, Placed, IsDir, Taken
<1>11. /\ e[p] = DirCell(t)
       /\ e[FAT_CLUSTER_NUMBER] = FatCell(m)
       /\ \A c \in Clusters \ {p} : IsDir(disk, c) \/ IsDir(e, c) =>
            e[c] = disk[c]
  BY <1>3, <1>8, <1>9, <1>10, ClusterFacts, SignatureKind
     DEF IsDir, Taken, FAT_CLUSTER_NUMBER
<1>12. entry.attribute # ATTR_SUBDIRECTORY
  BY DEF entry, FileEntry, Unset, ATTR_SUBDIRECTORY
<1>13. Grows(disk, e) /\ Tree(e)
  BY <1>9, <1>10, <1>11, <1>12, FileSaved DEF t
<1>14. Taken(e)
  <2>1. \A c \in Clusters : fat[c] # 0 => m[c] # 0
    BY <1>7 DEF m, Chained, SetLink, BOOT_SECTOR, FAT32_FAT_END_OF_FILE
  <2>2. \A c \in Clusters : IsDir(e, c) => IsDir(disk, c)
    BY <1>10, <1>11 DEF IsDir
  <2>3. FAT_CLUSTER_NUMBER \in Clusters
    BY ClusterFacts DEF FAT_CLUSTER_NUMBER
  <2> QED
    BY <1>8, <1>9, <1>11, <2>1, <2>2, <2>3, SignatureKind
       DEF Taken, WriteUnderWay
<1>15. Anchored(e) /\ WritesPlaced(e)
  BY <1>9, <1>13, AnchorsGrow
<1>16. Anchored(Settled)' /\ WritesPlaced(Settled)' /\ CdLooksAt(Settled)'
  BY <1>2, <1>15 DEF Anchored, WritesPlaced, CdLooksAt, e
<1> QED
  BY <1>1, <1>13, <1>14, <1>16 DEF TreeInv, e

LEMMA PlaceFlush ==
  ASSUME TypeInv, PlaceInv, FlushWrite, UNCHANGED <<cwd, command, calls>>
  PROVE  PlaceInv'
<1>1. Settled' = Settled /\ QueueShort'
  BY SettledFlushed DEF PlaceInv
<1>2. /\ pc \in {"format", "flush"} /\ pc' \notin {"off", "alloc"}
      /\ command'.op # "cd" /\ UNCHANGED <<req, table, fat>>
  BY DEF FlushWrite, PlaceInv, CdCalls
<1>3. Settled[BOOT_SECTOR] = Signature => TreeInv
  BY <1>2 DEF PlaceInv
<1>4. TreeInv => TreeInv'
  BY <1>1, <1>2 DEF TreeInv, Anchored, WritesPlaced, CdLooksAt
<1> QED
  BY <1>1, <1>2, <1>3, <1>4 DEF PlaceInv, CdCalls

\* What holds of the calls a command still has to make holds of the rest.
LEMMA CallsLeft ==
  ASSUME ShellTypeInv, NextCall
  PROVE  /\ Head(calls) = calls[1] /\ 1 \in 1 .. Len(calls)
         /\ calls[1] \in FAT32DriverRequest
         /\ \A i \in 1 .. Len(calls') : /\ i + 1 \in 1 .. Len(calls)
                                        /\ calls'[i] = calls[i + 1]
<1>1. calls \in Seq(FAT32DriverRequest) /\ calls # << >> /\ calls' = Tail(calls)
  BY DEF NextCall, ShellTypeInv, ShellTypeOK
<1> QED
  BY <1>1, EmptySeq, LenProperties, HeadTailProperties

LEMMA CallsLeftPlaced ==
  ASSUME ShellTypeInv, NextCall, NEW d, WritesPlaced(d)
  PROVE  \A i \in 1 .. Len(calls') : calls'[i].op = "write" =>
           Placed(d, calls'[i].parent_cluster_number)
BY CallsLeft DEF WritesPlaced

\* Which calls cd makes, and that it makes one at a time.
LEMMA CdCallsLeft ==
  ASSUME ShellTypeInv, NextCall, CdCalls
  PROVE  /\ command.op = "cd" =>
              /\ Head(calls).op = "read_directory"
              /\ Head(calls).parent_cluster_number = Target
         /\ Target' = Target
         /\ pc' \in {"idle", "return"} \/ command.op # "cd" => CdCalls'
<1>1. UNCHANGED <<cwd, command>>
  BY DEF NextCall
<1>2. Target' = Target
  BY <1>1 DEF Target
<1>3. command.op = "cd" =>
        \A i \in 1 .. Len(calls') :
          /\ calls'[i].op = "read_directory"
          /\ calls'[i].parent_cluster_number = Target
  BY CallsLeft DEF CdCalls
<1> QED
  BY <1>1, <1>2, <1>3, CallsLeft DEF CdCalls

LEMMA ParentTable ==
  ASSUME TypeOK, NEW r, IsDir(disk, r.parent_cluster_number)
  PROVE  Parent(r) = disk[r.parent_cluster_number].entries
BY DEF Parent, IsDir, ReadCluster, AsTable

LEMMA MarkedEntries ==
  ASSUME NEW t \in FAT32DirectoryTable, NEW p, NEW s \in Slots
  PROVE  SameEntry(MarkNotEmpty(t, p)[s], t[s])
<1>1. t[s] \in FAT32DirectoryEntry
  BY DEF FAT32DirectoryTable
<1>2. MarkNotEmpty(t, p)[s]
        \in {t[s], [t[s] EXCEPT !.user_attribute = UATTR_NOT_EMPTY]}
  BY DEF MarkNotEmpty
<1> QED
  BY <1>1, <1>2 DEF SameEntry, FAT32DirectoryEntry

LEMMA PlaceAnswer ==
  ASSUME ShellTypeInv, PlaceInv, NextCall, NEW c, Answer(Head(calls), c)
  PROVE  PlaceInv'
<1> DEFINE r == Head(calls)
<1>1. /\ pc = "idle" /\ pc' = "return" /\ table' = Parent(r)
      /\ UNCHANGED <<disk, queue, cwd, command>>
  BY DEF Answer, NextCall
<1>2. queue = << >> /\ Settled = disk /\ Settled' = Settled
  <2>1. queue = << >> /\ Settled' = Settled
    BY <1>1 DEF PlaceInv, QueueShort, Settled
  <2> QED
    BY <2>1, SettledIdle DEF ShellTypeInv, TypeInv
<1>3. /\ command.op = "cd" => r.parent_cluster_number = Target
      /\ Target' = Target /\ CdCalls'
  BY <1>1, CdCallsLeft DEF PlaceInv
<1>4. SUFFICES ASSUME TreeInv
               PROVE  TreeInv'
  BY <1>1, <1>2, <1>3 DEF PlaceInv, QueueShort
<1>5. Anchored(disk) /\ WritesPlaced(disk)
  BY <1>2, <1>4 DEF TreeInv
<1>6. CdLooksAt(Settled)'
  <2>1. IsDir(disk, Target)
    BY <1>5 DEF Anchored, Placed, Target
  <2>2. command.op = "cd" => table' = disk[Target].entries
    BY <1>1, <1>3, <2>1, ParentTable DEF ShellTypeInv, TypeInv
  <2> QED
    BY <1>1, <1>2, <1>3, <2>2 DEF CdLooksAt
<1>7. WritesPlaced(Settled)'
  BY <1>2, <1>5, CallsLeftPlaced DEF WritesPlaced
<1> QED
  BY <1>1, <1>2, <1>4, <1>6, <1>7 DEF TreeInv, Anchored

LEMMA PlaceWriteFile ==
  ASSUME ShellTypeInv, PlaceInv, NextCall, WriteFile(Head(calls)),
         Head(calls).op = "write"
  PROVE  PlaceInv'
<1> DEFINE r == Head(calls)
           p == r.parent_cluster_number
<1>1. /\ pc = "idle" /\ pc' = "alloc" /\ req' = r
      /\ fat' = AsFat(disk[FAT_CLUSTER_NUMBER])
      /\ table' = MarkNotEmpty(Parent(r), p)
      /\ UNCHANGED <<disk, queue, cwd, command>>
  BY DEF WriteFile, WriteAccepted, NextCall
<1>2. queue = << >> /\ Settled = disk /\ Settled' = Settled
  <2>1. queue = << >> /\ Settled' = Settled
    BY <1>1 DEF PlaceInv, QueueShort, Settled
  <2> QED
    BY <2>1, SettledIdle DEF ShellTypeInv, TypeInv
<1>3. command.op # "cd" /\ CdCalls'
  BY CdCallsLeft DEF PlaceInv
<1>4. SUFFICES ASSUME TreeInv
               PROVE  TreeInv'
  BY <1>1, <1>2, <1>3 DEF PlaceInv, QueueShort
<1>5. Anchored(disk) /\ WritesPlaced(disk) /\ Taken(disk)
  BY <1>2, <1>4 DEF TreeInv
<1>6. Placed(disk, p) /\ Parent(r) = disk[p].entries
  <2>1. Placed(disk, p)
    BY <1>5, CallsLeft DEF WritesPlaced
  <2> QED
    BY <2>1, ParentTable DEF Placed, ShellTypeInv, TypeInv
<1>7. WriteUnderWay(Settled)'
  <2>1. \A s \in Slots : SameEntry(table'[s], disk[p].entries[s])
    BY <1>1, <1>6, MarkedEntries, ParentType DEF ShellTypeInv, TypeInv
  <2>2. fat' = disk[FAT_CLUSTER_NUMBER].map
    BY <1>1, <1>5 DEF Taken, AsFat
  <2> QED
    BY <1>1, <1>2, <1>6, <2>1, <2>2 DEF WriteUnderWay
<1>8. WritesPlaced(Settled)'
  BY <1>2, <1>5, CallsLeftPlaced DEF WritesPlaced
<1> QED
  BY <1>1, <1>2, <1>3, <1>4, <1>7, <1>8 DEF TreeInv, Anchored, CdLooksAt

LEMMA SettledFolder ==
  ASSUME NEW p, NEW m, NEW t, NEW index, NEW sub,
         queue' = Append(SaveOrder(p, m, t), Item(index, DirCell(sub)))
  PROVE  /\ Len(queue') = 3
         /\ \A c \in Clusters :
              Settled'[c] = IF c = index THEN DirCell(sub)
                            ELSE IF c = p THEN DirCell(t)
                            ELSE IF c = FAT_CLUSTER_NUMBER THEN FatCell(m)
                            ELSE disk'[c]
<1> DEFINE f == Item(FAT_CLUSTER_NUMBER, FatCell(m))
           g == Item(p, DirCell(t))
           h == Item(index, DirCell(sub))
<1>1. queue' = Append(<<f, g>>, h)
  BY DEF SaveOrder
<1>2. /\ f.cluster = FAT_CLUSTER_NUMBER /\ f.cell = FatCell(m)
      /\ g.cluster = p /\ g.cell = DirCell(t)
      /\ h.cluster = index /\ h.cell = DirCell(sub)
  BY DEF Item
<1> HIDE DEF f, g, h
<1>3. Len(queue') = 3 /\ queue'[1] = f /\ queue'[2] = g /\ queue'[3] = h
  BY <1>1
<1> QED
  BY <1>2, <1>3 DEF Settled

LEMMA PlaceWriteFolder ==
  ASSUME ShellTypeInv, PlaceInv, NextCall, Head(calls).op = "write",
         NEW index \in Clusters, WriteFolder(Head(calls), index)
  PROVE  PlaceInv'
<1> DEFINE r   == Head(calls)
           p   == r.parent_cluster_number
           m   == AsFat(disk[FAT_CLUSTER_NUMBER])
           new == SetLink(m, index, FAT32_FAT_END_OF_FILE)
           old == MarkNotEmpty(Parent(r), p)
           t   == StoreEntry(old, FolderEntry(r, index))
           sub == InitDirectoryTable(r.name, p)
           e   == Settled'
<1>1. /\ pc = "idle" /\ pc' = "flush"
      /\ queue' = Append(SaveOrder(p, new, t), Item(index, DirCell(sub)))
      /\ m[index] = 0 \/ index = 0
      /\ UNCHANGED <<disk, cwd, command>>
  BY DEF WriteFolder, WriteAccepted, NextCall, IsFirstFree
<1>2. queue = << >> /\ Settled = disk
  BY <1>1, SettledIdle DEF PlaceInv, QueueShort, ShellTypeInv, TypeInv
<1>3. command.op # "cd" /\ CdCalls'
  BY CdCallsLeft DEF PlaceInv
<1> HIDE DEF m, new, old, t, sub
<1>4. /\ Len(queue') = 3
      /\ \A c \in Clusters :
           e[c] = IF c = index THEN DirCell(sub)
                  ELSE IF c = p THEN DirCell(t)
                  ELSE IF c = FAT_CLUSTER_NUMBER THEN FatCell(new)
                  ELSE disk[c]
  BY <1>1, SettledFolder
<1> HIDE DEF e
<1>5. SUFFICES ASSUME e[BOOT_SECTOR] = Signature
               PROVE  TreeInv'
  BY <1>1, <1>3, <1>4 DEF PlaceInv, QueueShort, e
<1>6. /\ p # BOOT_SECTOR /\ index # BOOT_SECTOR
      /\ disk[BOOT_SECTOR] = Signature
  BY <1>4, <1>5, ClusterFacts, SignatureKind
     DEF BOOT_SECTOR, FAT_CLUSTER_NUMBER
<1>7. /\ Tree(disk) /\ Taken(disk) /\ Anchored(disk) /\ WritesPlaced(disk)
  BY <1>1, <1>2, <1>6 DEF PlaceInv, TreeInv
<1>8. /\ Placed(disk, p) /\ IsDir(disk, p) /\ p \in Clusters
      /\ Parent(r) = disk[p].entries
  <2>1. Placed(disk, p)
    BY <1>7, CallsLeft DEF WritesPlaced
  <2> QED
    BY <2>1, ParentTable DEF Placed, IsDir, ShellTypeInv, TypeInv
<1>9. m = disk[FAT_CLUSTER_NUMBER].map
  BY <1>7 DEF m, Taken, AsFat
<1>10. /\ index # FAT_CLUSTER_NUMBER /\ ~IsDir(disk, index)
       /\ p # FAT_CLUSTER_NUMBER /\ p # index
  BY <1>1, <1>6, <1>7, <1>8, <1>9 DEF Taken, IsDir, BOOT_SECTOR
<1>11. /\ e[p] = DirCell(t) /\ e[index] = DirCell(sub)
       /\ e[FAT_CLUSTER_NUMBER] = FatCell(new)
       /\ \A c \in Clusters \ {p, index} : IsDir(disk, c) \/ IsDir(e, c) =>
            e[c] = disk[c]
  BY <1>4, <1>7, <1>8, <1>10, ClusterFacts, SignatureKind
     DEF IsDir, Taken, FAT_CLUSTER_NUMBER
<1>12. Grows(disk, e) /\ Tree(e)
  <2>1. \A s \in Slots : SameEntry(old[s], disk[p].entries[s])
    BY <1>8, MarkedEntries, ParentType DEF old, ShellTypeInv, TypeInv
  <2> QED
    BY <1>7, <1>8, <1>10, <1>11, <2>1, FolderSaved DEF t, sub
<1>13. Taken(e)
  <2>1. /\ \A c \in Clusters : m[c] # 0 => new[c] # 0
        /\ new[index] # 0
    BY DEF new, SetLink, FAT32_FAT_END_OF_FILE
  <2>2. \A c \in Clusters : IsDir(e, c) => IsDir(disk, c) \/ c = index
    BY <1>8, <1>11 DEF IsDir
  <2>3. FAT_CLUSTER_NUMBER \in Clusters
    BY ClusterFacts DEF FAT_CLUSTER_NUMBER
  <2> QED
    BY <1>7, <1>9, <1>11, <2>1, <2>2, <2>3, SignatureKind DEF Taken
<1>14. Anchored(e) /\ WritesPlaced(e)
  BY <1>7, <1>12, AnchorsGrow
<1>15. Anchored(Settled)' /\ CdLooksAt(Settled)'
  BY <1>1, <1>3, <1>14 DEF Anchored, CdLooksAt, e
<1>16. WritesPlaced(Settled)'
  BY <1>14, CallsLeftPlaced DEF WritesPlaced, e
<1> QED
  BY <1>1, <1>12, <1>13, <1>15, <1>16 DEF TreeInv, e

LEMMA PlaceNextCall ==
  ASSUME ShellTypeInv, PlaceInv, NextCall
  PROVE  PlaceInv'
<1> DEFINE r == Head(calls)
<1>1. CASE ReadDirectory(r) \/ WriteRefused(r)
  <2>1. \E c : Answer(r, c)
    BY <1>1 DEF ReadDirectory, WriteRefused
  <2> QED
    BY <2>1, PlaceAnswer
<1>2. CASE r.op = "write" /\ WriteFile(r)
  BY <1>2, PlaceWriteFile
<1>3. CASE r.op = "write" /\ \E index \in Clusters : WriteFolder(r, index)
  BY <1>3, PlaceWriteFolder
<1> QED
  BY <1>1, <1>2, <1>3 DEF NextCall, Serve

\* The return of a call disturbs neither the disk nor its tree.
LEMMA PlaceGoes ==
  ASSUME ShellTypeInv, PlaceInv, NEW q \in Seq(FAT32DriverRequest), Goes(q)
  PROVE  /\ pc = "return" /\ pc' = "idle" /\ QueueShort'
         /\ Settled' = Settled /\ calls' = q
         /\ Settled[BOOT_SECTOR] = Signature => TreeInv
         /\ q = << >> => command' = NoCommand /\ Len(calls') = 0
         /\ q # << >> => command' = command
BY EmptySeq DEF Goes, Return, PlaceInv, QueueShort, Settled

\* Where cd leads is placed, and lists the name that cd remembers.
LEMMA CdPlaced ==
  ASSUME NEW d, Tree(d), NEW c \in Clusters, Placed(d, c),
         NEW s \in Slots, IsFolder(d[c].entries[s])
  PROVE  /\ Placed(d, d[c].entries[s].cluster)
         /\ Lists(d, d[c].entries[s].cluster, d[c].entries[s].name)
<1> DEFINE child == d[c].entries[s].cluster
<1>1. /\ Placed(d, child)
      /\ s # 0 => d[child].entries[0].name = d[c].entries[s].name
  BY DEF Tree, Placed
<1>2. CASE s = 0
  BY <1>1, <1>2 DEF Placed
<1>3. CASE s # 0
  <2>1. IsFolder(d[child].entries[0]) /\ 0 \in Slots
    BY <1>1, ClusterFacts DEF Placed
  <2> QED
    BY <1>1, <1>3, <2>1 DEF Lists
<1> QED
  BY <1>2, <1>3

LEMMA PlaceCdReturns ==
  ASSUME ShellTypeInv, PlaceInv, CdReturns \/ CdParentReturns
  PROVE  PlaceInv'
<1>1. Goes(<< >>) /\ command.op = "cd"
  BY DEF CdReturns, CdParentReturns
<1>2. /\ pc = "return" /\ pc' = "idle" /\ QueueShort'
      /\ Settled' = Settled /\ Len(calls') = 0
      /\ Settled[BOOT_SECTOR] = Signature => TreeInv
      /\ command' = NoCommand
  <2>1. << >> \in Seq(FAT32DriverRequest)
    OBVIOUS
  <2> QED
    BY <1>1, <2>1, PlaceGoes
<1>3. CdCalls'
  BY <1>2 DEF CdCalls, NoCommand
<1>4. SUFFICES ASSUME TreeInv
               PROVE  TreeInv'
  BY <1>2, <1>3 DEF PlaceInv
<1>5. /\ Tree(Settled) /\ Taken(Settled) /\ Anchored(Settled)
      /\ table = Settled[Target].entries
  BY <1>1, <1>2, <1>4 DEF TreeInv, CdLooksAt
<1>6. Placed(Settled, Target) /\ Target \in Clusters
  BY <1>5 DEF Anchored, Target, Placed, IsDir
<1>7. CASE UNCHANGED cwd
  BY <1>2, <1>5, <1>7
     DEF TreeInv, Anchored, WritesPlaced, CdLooksAt, NoCommand
<1>8. CASE \E s \in Slots : /\ IsFolder(table[s])
                            /\ cwd'.currentCluster = table[s].cluster
                            /\ cwd'.cwdName = table[s].name
                            /\ cwd'.prevCluster \in {cwd.currentCluster,
                                                     ROOT_CLUSTER_NUMBER}
  <2>1. PICK s \in Slots : /\ IsFolder(table[s])
                           /\ cwd'.currentCluster = table[s].cluster
                           /\ cwd'.cwdName = table[s].name
                           /\ cwd'.prevCluster \in {cwd.currentCluster,
                                                    ROOT_CLUSTER_NUMBER}
    BY <1>8
  <2>2. /\ Placed(Settled, cwd'.currentCluster)
        /\ Lists(Settled, cwd'.currentCluster, cwd'.cwdName)
    BY <1>5, <1>6, <2>1, CdPlaced
  <2>3. Anchored(Settled)'
    BY <1>2, <1>5, <2>1, <2>2 DEF Anchored
  <2> QED
    BY <1>2, <1>5, <2>3 DEF TreeInv, WritesPlaced, CdLooksAt, NoCommand
<1>9. CdReturns => UNCHANGED cwd \/
        \E s \in Slots : /\ IsFolder(table[s])
                         /\ cwd'.currentCluster = table[s].cluster
                         /\ cwd'.cwdName = table[s].name
                         /\ cwd'.prevCluster = cwd.currentCluster
  BY DEF CdReturns, IsFirstFolder
<1>10. CdParentReturns => UNCHANGED cwd \/
         /\ cwd'.currentCluster = table[0].cluster
         /\ cwd'.cwdName = table[0].name
         /\ cwd'.prevCluster = ROOT_CLUSTER_NUMBER
  BY DEF CdParentReturns
<1>11. 0 \in Slots /\ IsFolder(table[0])
  BY <1>5, <1>6, ClusterFacts DEF Placed
<1> QED
  BY <1>7, <1>8, <1>9, <1>10, <1>11

LEMMA PlaceOtherReturns ==
  ASSUME ShellTypeInv, PlaceInv, NEW q \in Seq(FAT32DriverRequest), Goes(q),
         UNCHANGED cwd, command.op # "cd",
         \A i \in 1 .. Len(q) : q[i].op = "write" =>
           \E j \in 1 .. Len(calls) : q[i] = calls[j]
  PROVE  PlaceInv'
<1>1. /\ pc = "return" /\ pc' = "idle" /\ QueueShort'
      /\ Settled' = Settled /\ calls' = q
      /\ Settled[BOOT_SECTOR] = Signature => TreeInv
      /\ command' = NoCommand \/ command' = command
  BY PlaceGoes
<1>2. command'.op # "cd"
  BY <1>1 DEF NoCommand
<1>3. TreeInv => TreeInv'
  BY <1>1, <1>2 DEF TreeInv, Anchored, WritesPlaced, CdLooksAt
<1> QED
  BY <1>1, <1>2, <1>3 DEF PlaceInv, CdCalls

LEMMA PlaceSearchReturns ==
  ASSUME ShellTypeInv, PlaceInv, SearchReturns
  PROVE  PlaceInv'
<1> DEFINE n == Cardinality(FolderSlots(1))
<1>1. PICK slots \in [1 .. n -> FolderSlots(1)] :
        LET deeper == [i \in DOMAIN slots |->
                         Listing(table[slots[i]].cluster, command.name)]
        IN Goes(IF code = 0 THEN deeper \o calls ELSE calls)
  BY DEF SearchReturns, SearchFrom
<1> DEFINE deeper == [i \in DOMAIN slots |->
                        Listing(table[slots[i]].cluster, command.name)]
<1>2. n \in Nat
  BY FolderSlotsType
<1> HIDE DEF n
<1>3. /\ deeper \in Seq(FAT32DriverRequest) /\ Len(deeper) = n
      /\ \A i \in 1 .. n : deeper[i].op = "read_directory"
  <2>1. ASSUME NEW i \in 1 .. n
        PROVE  /\ deeper[i] \in FAT32DriverRequest
               /\ deeper[i].op = "read_directory"
    <3>1. slots[i] \in Slots
      BY FolderSlotsType
    <3>2. table[slots[i]].cluster \in Clusters
      BY <3>1 DEF ShellTypeInv, ShellTypeOK, TypeOK, FAT32DirectoryTable,
                  FAT32DirectoryEntry
    <3>3. command.name \in AnyName
      BY DEF SearchReturns, SearchFrom, ShellTypeInv
    <3>4. deeper[i] = Listing(table[slots[i]].cluster, command.name)
      OBVIOUS
    <3> QED
      BY <3>2, <3>3, <3>4, ListingType DEF Listing
  <2>2. DOMAIN deeper = 1 .. n /\ deeper = [i \in 1 .. n |-> deeper[i]]
    OBVIOUS
  <2> HIDE DEF deeper
  <2>3. deeper \in [1 .. n -> FAT32DriverRequest]
    BY <2>1, <2>2
  <2>4. deeper \in Seq(FAT32DriverRequest)
    BY <1>2, <2>3, FunctionIsSeq
  <2> QED
    BY <1>2, <2>1, <2>2, <2>4, LenProperties
<1>4. Goes(IF code = 0 THEN deeper \o calls ELSE calls)
  BY <1>1
<1> HIDE DEF deeper
<1>5. calls \in Seq(FAT32DriverRequest) /\ Len(calls) \in Nat
  BY LenProperties DEF ShellTypeInv, ShellTypeOK
<1>6. /\ deeper \o calls \in Seq(FAT32DriverRequest)
      /\ Len(deeper \o calls) = n + Len(calls)
      /\ \A i \in 1 .. n + Len(calls) :
           (deeper \o calls)[i] = IF i =< n THEN deeper[i] ELSE calls[i - n]
  BY <1>3, <1>5, ConcatProperties
<1>7. \A i \in 1 .. Len(deeper \o calls) :
        (deeper \o calls)[i].op = "write" =>
          \E j \in 1 .. Len(calls) : (deeper \o calls)[i] = calls[j]
  <2> SUFFICES ASSUME NEW i \in 1 .. n + Len(calls),
                      (deeper \o calls)[i].op = "write"
               PROVE  \E j \in 1 .. Len(calls) :
                        (deeper \o calls)[i] = calls[j]
    BY <1>6
  <2>1. ~(i =< n)
    BY <1>2, <1>3, <1>6
  <2>2. i - n \in 1 .. Len(calls) /\ (deeper \o calls)[i] = calls[i - n]
    BY <1>2, <1>5, <1>6, <2>1
  <2> QED
    BY <2>2
<1>8. UNCHANGED cwd /\ command.op # "cd"
  BY DEF SearchReturns, SearchFrom
<1> QED
  BY <1>4, <1>5, <1>6, <1>7, <1>8, PlaceOtherReturns

LEMMA PlaceReturns ==
  ASSUME ShellTypeInv, PlaceInv, Returns
  PROVE  PlaceInv'
<1>1. CASE OtherReturns
  BY <1>1, PlaceOtherReturns DEF OtherReturns, ShellTypeInv, ShellTypeOK
<1> QED
  BY <1>1, PlaceCdReturns, PlaceSearchReturns DEF Returns

LEMMA PlaceTyped ==
  ASSUME ShellTypeInv, PlaceInv, Typed
  PROVE  PlaceInv'
<1>1. ParentName \notin CallerNames \cup {RootName}
  BY ShellAssumption, RequestAssumption DEF AnyName
<1>2. PICK op, name, r :
        /\ Run(op, name, <<r>>)
        /\ op = "cd" => /\ r.op = "read_directory"
                        /\ r.parent_cluster_number
                             = IF name = ParentName THEN cwd.prevCluster
                                                    ELSE cwd.currentCluster
        /\ r.op = "write" => r.parent_cluster_number = cwd.currentCluster
  <2> DEFINE Reads(r, c) == r.op = "read_directory"
                              /\ r.parent_cluster_number = c
             Asks(op, name, r) ==
               /\ Run(op, name, <<r>>)
               /\ op = "cd" => Reads(r, IF name = ParentName
                                          THEN cwd.prevCluster
                                          ELSE cwd.currentCluster)
               /\ r.op = "write" =>
                    r.parent_cluster_number = cwd.currentCluster
  <2>1. /\ \A c, name : Reads(Listing(c, name), c)
        /\ \A c, name : /\ NewFolder(c, name).op = "write"
                         /\ NewFolder(c, name).parent_cluster_number = c
    BY DEF Listing, NewFolder
  <2>2. CASE \E name \in CallerNames \cup {RootName} : Cd(name)
    <3>1. PICK name \in CallerNames \cup {RootName} : Cd(name)
      BY <2>2
    <3>2. Asks("cd", name, Listing(cwd.currentCluster, name))
      BY <1>1, <2>1, <3>1 DEF Cd
    <3> QED
      BY <3>2
  <2>3. CASE CdParent
    <3>1. Asks("cd", ParentName, Listing(cwd.prevCluster, cwd.cwdName))
      BY <2>1, <2>3 DEF CdParent
    <3> QED
      BY <3>1
  <2>4. CASE Ls
    <3>1. Asks("ls", NoName, Listing(cwd.currentCluster, cwd.cwdName))
      BY <2>1, <2>4 DEF Ls
    <3> QED
      BY <3>1
  <2>5. CASE \E name \in CallerNames : Mkdir(name)
    <3>1. PICK name \in CallerNames : Mkdir(name)
      BY <2>5
    <3>2. Asks("mkdir", name, NewFolder(cwd.currentCluster, name))
      BY <2>1, <3>1 DEF Mkdir
    <3> QED
      BY <3>2
  <2>6. CASE \E name \in CallerNames : Whereis(name)
    <3>1. PICK name \in CallerNames : Whereis(name)
      BY <2>6
    <3>2. Asks("whereis", name, Listing(cwd.currentCluster, name))
      BY <2>1, <3>1 DEF Whereis
    <3> QED
      BY <3>2
  <2> QED
    BY <2>2, <2>3, <2>4, <2>5, <2>6 DEF Typed
<1>3. /\ pc = "idle" /\ pc' = "idle" /\ UNCHANGED <<disk, queue, cwd>>
      /\ command' = [op |-> op, name |-> name] /\ calls' = <<r>>
  BY <1>2 DEF Run, vars
<1>4. /\ Len(calls') = 1 /\ calls'[1] = r
      /\ command'.op = op /\ command'.name = name
  BY <1>3
<1>5. Settled' = Settled /\ QueueShort'
  BY <1>3 DEF PlaceInv, QueueShort, Settled
<1>6. CdCalls'
  BY <1>2, <1>3, <1>4 DEF CdCalls, Target
<1>7. TreeInv => TreeInv'
  <2> SUFFICES ASSUME TreeInv
               PROVE  TreeInv'
    OBVIOUS
  <2>1. Anchored(Settled)' /\ CdLooksAt(Settled)'
    BY <1>3, <1>5 DEF TreeInv, Anchored, CdLooksAt
  <2>2. WritesPlaced(Settled)'
    BY <1>2, <1>3, <1>4, <1>5 DEF TreeInv, Anchored, WritesPlaced
  <2> QED
    BY <1>3, <1>5, <2>1, <2>2 DEF TreeInv
<1> QED
  BY <1>3, <1>5, <1>6, <1>7 DEF PlaceInv

LEMMA PlaceStep ==
  ASSUME ShellTypeInv, PlaceInv, [ShellNext]_shellVars
  PROVE  PlaceInv'
<1>1. CASE Typed
  BY <1>1, PlaceTyped
<1>2. CASE NextCall
  BY <1>2, PlaceNextCall
<1>3. CASE Returns
  BY <1>3, PlaceReturns
<1>4. CASE KernelStep
  <2>1. TypeInv /\ TypeOK /\ TypeInv' /\ UNCHANGED <<cwd, command, calls>>
    BY <1>4, KernelStepType DEF KernelStep, ShellTypeInv, TypeInv
  <2> QED
    BY <1>4, <2>1, PlaceCreate, PlaceAllocate, PlaceAllocateLast, PlaceFlush
       DEF KernelStep
<1>5. CASE UNCHANGED shellVars
  <2>1. /\ UNCHANGED <<disk, fat, table, pc, req, queue>>
        /\ UNCHANGED <<cwd, command, calls>>
    BY <1>5 DEF shellVars, vars
  <2>2. Settled' = Settled /\ Target' = Target
    BY <2>1 DEF Settled, Target
  <2>3. TreeInv => TreeInv'
    BY <2>1, <2>2 DEF TreeInv, Anchored, WritesPlaced, WriteUnderWay, CdLooksAt
  <2> QED
    BY <2>1, <2>2, <2>3 DEF PlaceInv, QueueShort, CdCalls, NotFormatted
<1> QED
  BY <1>1, <1>2, <1>3, <1>4, <1>5 DEF ShellNext

\* Whatever is typed, the table of the current directory has a folder of the
\* name that ls, cp and rm ask for it under (commands.c:145, 290, 377), "cd .."
\* included, after which cwd_data names the grandparent: as long as no folder
\* was written over the boot sector.
THEOREM CwdNameFound == ShellSpec => []CwdNameListed
<1>1. ShellInit => ShellTypeInv /\ PlaceInv
  BY ShellTypeInit, PlaceInit
<1>2. ShellTypeInv /\ PlaceInv /\ [ShellNext]_shellVars
        => (ShellTypeInv /\ PlaceInv)'
  BY ShellTypeStep, PlaceStep
<1>3. ShellTypeInv /\ PlaceInv => CwdNameListed
  <2> SUFFICES ASSUME ShellTypeInv, PlaceInv, pc = "idle",
                      disk[BOOT_SECTOR] = Signature
               PROVE  \E s \in Slots :
                        LET e == AsTable(disk[cwd.currentCluster])[s]
                        IN IsFolder(e) /\ e.name = cwd.cwdName
    BY DEF CwdNameListed
  <2>1. Settled = disk
    BY SettledIdle DEF PlaceInv, QueueShort, ShellTypeInv, TypeInv
  <2>2. Anchored(disk)
    BY <2>1 DEF PlaceInv, TreeInv
  <2>3. /\ Lists(disk, cwd.currentCluster, cwd.cwdName)
        /\ AsTable(disk[cwd.currentCluster])
             = disk[cwd.currentCluster].entries
    BY <2>2 DEF Anchored, Placed, IsDir, AsTable
  <2> QED
    BY <2>3 DEF Lists
<1> QED
  BY <1>1, <1>2, <1>3, PTL DEF ShellSpec

-----------------------------------------------------------------------------
(* What cat, cp, rm and mv leave of the directory, for CommandEffect.  The  *)
(* shell of FileCommands stays in the root directory, whose table is        *)
(* written by the second of the writes that end a call: the invariant is    *)
(* again about the disk as the writes outstanding will leave it.            *)

Root == Settled[ROOT_CLUSTER_NUMBER].entries

\* delete stops at an entry only if this byte of it is set.
Undeleted(t) ==
  \A s \in Slots \ {0} : t[s].name # NoName => t[s].undelete = 1

\* Between two calls, a loop's counter and the return code are what Return
\* leaves of them.
QuietInv ==
  /\ pc \in {"off", "format", "idle"} => counter = 1
  /\ pc # "return" => code = 0

HereInv ==
  /\ QueueShort
  /\ cwd.currentCluster = ROOT_CLUSTER_NUMBER /\ cwd.cwdName = RootName
  /\ ROOT_CLUSTER_NUMBER \in known
  /\ \A i \in 1 .. Len(calls) :
       calls[i].parent_cluster_number = ROOT_CLUSTER_NUMBER
  /\ pc \in {"alloc", "walk"} =>
       /\ req.parent_cluster_number = ROOT_CLUSTER_NUMBER
       /\ Undeleted(table)
  /\ pc \in {"off", "format"} => command.op = "main"
  /\ pc # "off" => Undeleted(Root)
  /\ QuietInv

Copying  == todo \in {<<"cp">>, <<"cp", "rm">>}
Removing == todo = <<"rm">>

\* The write or the delete of the routine in progress has been decided.
Changed == stage = "change" /\ pc \in {"flush", "return"}

\* The copy is where it belongs, or there is none to be made.
CopyDone(S) ==
  \A q \in Slots :
    \/ \E s \in Slots : CopiesTo(s, q) /\ S[q] = Copy(s)
    \/ (\A s \in Slots : ~CopiesTo(s, q)) /\ S[q] = before.entries[q]

EffectSoFar(S) ==
  /\ todo = << >> \/ (Copying /\ ~Changed) => S = before.entries
  /\ (Copying /\ Changed) \/ (Removing /\ ~Changed) => CopyDone(S)
  /\ Removing /\ Changed => Effect(S)

\* cp and rm look for the first file of the name.
FileAt(S, s) ==
  /\ s \in Slots
  /\ S[s].name = command.name /\ S[s].attribute # ATTR_SUBDIRECTORY
  /\ \A q \in Slots : q =< s => S[q].name # NoName
  /\ \A q \in Slots : q < s => ~(/\ S[q].name = command.name
                                 /\ S[q].attribute # ATTR_SUBDIRECTORY)

FileFound ==
  \E s \in Slots : /\ FileAt(before.entries, s)
                   /\ found.ext = before.entries[s].ext
                   /\ found.filesize = before.entries[s].filesize

SourceFound ==
  \E s \in Slots : /\ IsSource(s)
                   /\ found.ext = before.entries[s].ext
                   /\ found.filesize = before.entries[s].filesize

\* What read finds, and what it answers.
Readable(S, name, ext, size) ==
  \E s \in Slots :
    /\ S[s].name = name /\ S[s].ext = ext
    /\ S[s].attribute # ATTR_SUBDIRECTORY /\ S[s].filesize =< size
    /\ \A q \in Slots : q < s => S[q].name # name \/ S[q].ext # ext

Reads(P) ==
  \/ pc = "chain" /\ P
  \/ pc = "return" /\ (code = 0 <=> P)

ProbeOf(name) == FileRequest("read", name, NoExt, ClusterSize)

CallsAre(ops) == \A i \in 1 .. Len(calls) : calls[i].op \in ops

\* What the stages know.
Looking ==
  todo = << >> => /\ pc \in {"idle", "chain", "return"}
                  /\ CallsAre({"read", "read_directory"})

ProbeStage ==
  todo # << >> /\ stage \in {"probe", "missing"} =>
    /\ command.op = "mv"
    /\ \/ pc = "idle" /\ stage = "probe"
            /\ calls = <<ProbeOf(command.name), ProbeOf(dest)>>
       \/ stage = "probe" /\ calls = <<ProbeOf(dest)>>
            /\ Reads(ProbeFinds(command.name))
       \/ pc = "idle" /\ calls = <<ProbeOf(dest)>>
            /\ (stage = "probe" <=> ProbeFinds(command.name))
       \/ /\ calls = << >> /\ Reads(ProbeFinds(dest))
          /\ stage = "probe" <=> ProbeFinds(command.name)

ListStage ==
  todo # << >> /\ stage = "list" =>
    /\ Starts
    /\ pc \in {"idle", "return"}
    /\ \A i \in 1 .. Len(calls) : calls[i] = ListCwd
    /\ pc = "return" => code = 0 /\ table = Root

ReadStage ==
  todo # << >> /\ stage = "read" =>
    /\ Starts
    /\ \A i \in 1 .. Len(calls) :
         calls[i] = FileRequest("read", command.name, found.ext, found.filesize)
    /\ FileFound
    /\ pc = "idle" \/ Reads(SourceFound)

ChangeStage ==
  todo # << >> /\ stage = "change" =>
    /\ Starts /\ SourceFound
    /\ \A i \in 1 .. Len(calls) : calls[i] = Change
    /\ pc \in {"idle", "flush", "return"} \/ pc = (IF Copying THEN "alloc"
                                                              ELSE "walk")
    /\ pc = "alloc" => /\ Listed(table) = Listed(Root) /\ req = Change
                       /\ ~Duplicate(table, req) /\ found.filesize > 0
    /\ pc = "walk" => Effect(Listed(table))

FileCommand == command.op \in {"cat", "cp", "rm", "mv", "mv_folders"}

TodoOf ==
  /\ command.op \in {"cat", "mv_folders"} => todo = << >>
  /\ command.op = "cp" => todo = <<"cp">>
  /\ command.op = "rm" => todo = <<"rm">>
  /\ command.op = "mv" => todo \in {<<"cp", "rm">>, <<"rm">>}
  /\ stage \in {"probe", "missing"} => todo = <<"cp", "rm">>

EffectInv ==
  FileCommand =>
    /\ TodoOf
    /\ EffectSoFar(Listed(Root))
    /\ Looking /\ ProbeStage /\ ListStage /\ ReadStage /\ ChangeStage

\* The clusters that were free when the command was typed are free until the
\* copy is made; write counts them as it places the data.
DiskFat == AsFat(disk[FAT_CLUSTER_NUMBER])

PassedClusters == {c \in FreeClusters(DiskFat) : c < cur}

CountInv ==
  FileCommand =>
    /\ Copying /\ ~Changed => before.free = Cardinality(FreeClusters(DiskFat))
    /\ pc = "alloc" =>
         /\ cur \in Nat /\ cur >= 3
         /\ counter = Cardinality(PassedClusters) + 1
         /\ counter >= 2 => prev < cur
         /\ left > 0
         /\ left = req.buffer_size - (counter - 1) * ClusterSize
         /\ \A c \in Clusters : c >= cur => fat[c] = DiskFat[c]

-----------------------------------------------------------------------------
(* What the driver's operators do to a listing.                            *)

LEMMA ListedAt ==
  ASSUME NEW t, NEW s \in Slots
  PROVE  /\ Listed(t)[s] = Line(t[s])
         /\ Listed(t)[s].name = t[s].name /\ Listed(t)[s].ext = t[s].ext
         /\ Listed(t)[s].attribute = t[s].attribute
         /\ Listed(t)[s].filesize = t[s].filesize
BY DEF Listed, Line

LEMMA ListedMarked ==
  ASSUME NEW t \in FAT32DirectoryTable, NEW p
  PROVE  /\ Listed(MarkNotEmpty(t, p)) = Listed(t)
         /\ Undeleted(t) => Undeleted(MarkNotEmpty(t, p))
<1>1. ASSUME NEW s \in Slots
      PROVE  LET e == MarkNotEmpty(t, p)[s] IN
               /\ Line(e) = Line(t[s]) /\ e.name = t[s].name
               /\ e.undelete = t[s].undelete
  <2>1. t[s] \in FAT32DirectoryEntry
    BY DEF FAT32DirectoryTable
  <2>2. MarkNotEmpty(t, p)[s]
          \in {t[s], [t[s] EXCEPT !.user_attribute = UATTR_NOT_EMPTY]}
    BY DEF MarkNotEmpty
  <2> QED
    BY <2>1, <2>2 DEF Line, FAT32DirectoryEntry
<1>2. Listed(MarkNotEmpty(t, p)) = Listed(t)
  BY <1>1 DEF Listed
<1> QED
  BY <1>1, <1>2 DEF Undeleted

LEMMA DuplicateListed ==
  ASSUME NEW t, NEW r
  PROVE  Duplicate(Listed(t), r) <=> Duplicate(t, r)
BY ListedAt DEF Duplicate

\* A listing with a line in its first unused entry, and with an entry cleared.
WithLine(S, x) == [s \in Slots |-> IF IsFirstUnused(S, s) THEN x ELSE S[s]]

Without(S, s) == [q \in Slots |-> IF q = s THEN Line(ZeroEntry) ELSE S[q]]

LEMMA ListedStored ==
  ASSUME NEW t, NEW e, e.undelete = 1, t[0].name # NoName
  PROVE  /\ Listed(StoreEntry(t, e)) = WithLine(Listed(t), Line(e))
         /\ Undeleted(t) => Undeleted(StoreEntry(t, e))
<1>1. \A s : IsFirstUnused(Listed(t), s) <=> IsFirstUnused(t, s)
  BY ListedAt DEF IsFirstUnused
<1>2. Listed(StoreEntry(t, e)) = WithLine(Listed(t), Line(e))
  BY <1>1 DEF StoreEntry, Listed, WithLine
<1> QED
  BY <1>2 DEF StoreEntry, Undeleted

LEMMA ListedRemoved ==
  ASSUME NEW t, NEW s \in Slots
  PROVE  LET u == [q \in Slots |-> IF q = s THEN ZeroEntry ELSE t[q]]
         IN /\ Listed(u) = Without(Listed(t), s)
            /\ Undeleted(t) => Undeleted(u)
BY DEF Listed, Undeleted, ZeroEntry, Without


-----------------------------------------------------------------------------
(* The root directory, and that the calls stay in it.                      *)

FilesInv == FilesTypeInv /\ SafeInv /\ HereInv

LEMMA RootFacts ==
  ASSUME FilesInv, pc \notin {"off", "format"}
  PROVE  /\ Settled[ROOT_CLUSTER_NUMBER].kind = "dir"
         /\ Root \in FAT32DirectoryTable /\ IsRootTable(Root)
<1> DEFINE root == ROOT_CLUSTER_NUMBER
<1>1. root \in Clusters
  BY ReservedFacts DEF Reserved
<1>2. /\ disk[root] \in Cells /\ SafeCell(root, disk[root])
      /\ queue \in Seq(Items) /\ Len(queue) \in Nat
  BY <1>1, UpSafe, LenProperties DEF FilesInv, SafeInv, TypeInv, TypeOK
<1>3. \A i \in 1 .. Len(queue) :
        queue[i].cell \in Cells /\ SafeCell(queue[i].cluster, queue[i].cell)
  <2>1. QueueSafe
    BY DEF FilesInv, SafeInv
  <2>2. \A i \in 1 .. Len(queue) : queue[i] \in Items
    BY <1>2
  <2> QED
    BY <2>1, <2>2 DEF QueueSafe, Items
<1>4. Settled[root] \in Cells /\ SafeCell(root, Settled[root])
  BY <1>1, <1>2, <1>3 DEF Settled
<1>5. Settled[root].kind = "dir" /\ IsRootTable(Root)
  BY <1>4 DEF SafeCell, IsRoot, Root
<1> QED
  BY <1>4, <1>5 DEF Cells, Root

LEMMA RootParent ==
  ASSUME FilesInv, pc = "idle", NEW r,
         r.parent_cluster_number = ROOT_CLUSTER_NUMBER
  PROVE  /\ queue = << >> /\ Settled = disk
         /\ Parent(r) = Root /\ Listed(AsTable(disk[ROOT_CLUSTER_NUMBER]))
                                  = Listed(Root)
<1>1. queue = << >> /\ Settled = disk
  BY SettledIdle DEF FilesInv, HereInv, QueueShort, FilesTypeInv, TypeInv
<1>2. disk[ROOT_CLUSTER_NUMBER].kind = "dir"
  BY <1>1, RootFacts
<1>3. ROOT_CLUSTER_NUMBER \in Clusters
  BY ReservedFacts DEF Reserved
<1> QED
  BY <1>1, <1>2, <1>3 DEF Parent, ReadCluster, AsTable, Root

LEMMA RootKept ==
  ASSUME UNCHANGED <<disk, queue>>
  PROVE  Root' = Root /\ Len(queue') = Len(queue)
BY DEF Root, Settled

LEMMA RootElsewhere ==
  ASSUME TypeOK, TypeOK', queue = << >>, UNCHANGED queue,
         NEW i, i # ROOT_CLUSTER_NUMBER,
         NEW cell, disk' = WriteCluster(disk, i, cell)
  PROVE  Root' = Root
<1>1. Settled = disk /\ Settled' = disk'
  BY EmptySeq DEF Settled, TypeOK
<1>2. ROOT_CLUSTER_NUMBER \in Clusters
  BY ReservedFacts DEF Reserved
<1>3. disk'[ROOT_CLUSTER_NUMBER] = disk[ROOT_CLUSTER_NUMBER]
  BY <1>2 DEF WriteCluster
<1> QED
  BY <1>1, <1>3 DEF Root

LEMMA RootSaved ==
  ASSUME NEW m, NEW t, queue' = SaveOrder(ROOT_CLUSTER_NUMBER, m, t)
  PROVE  Root' = t /\ Len(queue') = 2
<1>1. ROOT_CLUSTER_NUMBER \in Clusters
  BY ReservedFacts DEF Reserved
<1>2. Len(queue') = 2 /\ Settled'[ROOT_CLUSTER_NUMBER] = DirCell(t)
  BY <1>1, SettledSaved
<1> QED
  BY <1>2, CellKinds DEF Root

LEMMA RootSavedFolder ==
  ASSUME NEW m, NEW t, NEW index, NEW sub, index # ROOT_CLUSTER_NUMBER,
         queue' = Append(SaveOrder(ROOT_CLUSTER_NUMBER, m, t),
                         Item(index, DirCell(sub)))
  PROVE  Root' = t /\ Len(queue') = 3
<1>1. ROOT_CLUSTER_NUMBER \in Clusters
  BY ReservedFacts DEF Reserved
<1>2. Len(queue') = 3 /\ Settled'[ROOT_CLUSTER_NUMBER] = DirCell(t)
  BY <1>1, SettledFolder
<1> QED
  BY <1>2, CellKinds DEF Root

LEMMA FileCallsLeft ==
  ASSUME FilesInv, NextFileCall
  PROVE  /\ Head(calls) = calls[1] /\ 1 \in 1 .. Len(calls)
         /\ Head(calls) \in FAT32DriverRequest
         /\ Head(calls).parent_cluster_number = ROOT_CLUSTER_NUMBER
         /\ \A i \in 1 .. Len(calls') : /\ i + 1 \in 1 .. Len(calls)
                                        /\ calls'[i] = calls[i + 1]
<1>1. calls \in Seq(FAT32DriverRequest) /\ calls # << >> /\ calls' = Tail(calls)
  BY DEF NextFileCall, FilesInv, FilesTypeInv, FilesTypeOK
<1>2. Head(calls) = calls[1] /\ 1 \in 1 .. Len(calls)
  BY <1>1, EmptySeq, LenProperties
<1> QED
  BY <1>1, <1>2, EmptySeq, LenProperties, HeadTailProperties
     DEF FilesInv, HereInv

\* The step that a call makes in the kernel.
LEMMA FilesSafe ==
  ASSUME FilesInv, [FilesNext]_fileVars
  PROVE  FilesTypeInv' /\ SafeInv'
<1>1. FilesTypeInv' /\ TypeInv'
  BY FilesTypeStep DEF FilesInv, FilesTypeInv
<1>2. CASE NextFileCall
  <2>1. /\ Head(calls) \in FAT32DriverRequest
        /\ Head(calls).parent_cluster_number \in known
        /\ ServeFile(Head(calls))
    BY <1>2, FileCallsLeft DEF FilesInv, HereInv, NextFileCall
  <2> QED
    BY <1>1, <2>1, SafeReadDirectory, SafeRead, SafeWriteRefused,
       SafeWriteFile, SafeWriteFolder, SafeDelete
       DEF FilesInv, ServeFile, Serve
<1>3. CASE FileReturns
  <2>1. Return
    BY <1>3 DEF FileReturns, ProbeReturns, ListReturns, ReadReturns,
                ChangeReturns, NothingReturns, GoesOn, RoutineEnds, Goes
  <2> QED
    BY <1>1, <2>1, SafeReturn DEF FilesInv
<1>4. CASE FileKernelStep
  BY <1>1, <1>4, SafeBoot, SafeFollowChain, SafeAllocate, SafeDiskFull,
     SafeWalk, SafeFlushWrite DEF FilesInv, FileKernelStep, KernelStep
<1>5. CASE FileTyped \/ UNCHANGED fileVars
  <2>1. UNCHANGED vars
    BY <1>5 DEF FileTyped, Cat, Rm, MkdirHere, Mkdir, Cp, MvFiles, MvFolders,
                RunFiles, Run, fileVars, shellVars
  <2> QED
    BY <1>1, <2>1 DEF vars, locals, FilesInv, SafeInv, DiskSafe, FormatSafe,
                      QueueSafe, CallSafe
<1> QED
  BY <1>1, <1>2, <1>3, <1>4, <1>5 DEF FilesNext

\* What the steps of a call do to the root directory.

LEMMA RootQuiet ==
  ASSUME FilesInv,
         \/ \E r, c : Answer(r, c)
         \/ \E r : ReadFile(r)
         \/ FollowChain
         \/ Return
  PROVE  /\ Root' = Root /\ QueueShort' /\ pc' \in {"idle", "chain", "return"}
         /\ pc \in {"idle", "chain", "return"}
         /\ known \subseteq known'
<1>1. /\ UNCHANGED <<disk, queue>> /\ known \subseteq known'
      /\ pc' \in {"idle", "chain", "return"}
      /\ pc \in {"idle", "chain", "return"}
  BY DEF Answer, ReadFile, FollowChain, Return
<1>2. QueueShort'
  BY <1>1 DEF FilesInv, HereInv, QueueShort
<1> QED
  BY <1>1, <1>2, RootKept

LEMMA RootWriteFile ==
  ASSUME FilesInv, NEW r \in FAT32DriverRequest, WriteFile(r),
         r.parent_cluster_number = ROOT_CLUSTER_NUMBER
  PROVE  /\ Root' = Root /\ QueueShort' /\ pc' = "alloc" /\ req' = r
         /\ UNCHANGED known
         /\ Listed(table') = Listed(Root) /\ Undeleted(table')
         /\ ~Duplicate(Root, r)
<1>1. /\ pc = "idle" /\ pc' = "alloc" /\ req' = r
      /\ UNCHANGED <<disk, queue, known>> /\ ~Duplicate(Parent(r), r)
      /\ table' = MarkNotEmpty(Parent(r), r.parent_cluster_number)
  BY DEF WriteFile, WriteAccepted
<1>2. Parent(r) = Root /\ queue = << >> /\ Root \in FAT32DirectoryTable
  BY <1>1, RootParent, RootFacts
<1>3. Undeleted(Root)
  BY <1>1 DEF FilesInv, HereInv
<1>4. Listed(table') = Listed(Root) /\ Undeleted(table')
  BY <1>1, <1>2, <1>3, ListedMarked
<1>5. QueueShort'
  BY <1>1, <1>2 DEF FilesInv, HereInv, QueueShort
<1> QED
  BY <1>1, <1>2, <1>4, <1>5, RootKept

LEMMA RootWriteFolder ==
  ASSUME FilesInv, NEW r \in FAT32DriverRequest, NEW index \in Clusters,
         WriteFolder(r, index), r.parent_cluster_number = ROOT_CLUSTER_NUMBER
  PROVE  /\ Listed(Root') = WithLine(Listed(Root),
                                     Line(FolderEntry(r, index)))
         /\ QueueShort' /\ pc' = "flush" /\ Undeleted(Root')
         /\ UNCHANGED known
         /\ ~Duplicate(Root, r)
<1> DEFINE p   == r.parent_cluster_number
           m   == AsFat(disk[FAT_CLUSTER_NUMBER])
           old == MarkNotEmpty(Parent(r), p)
           e   == FolderEntry(r, index)
<1>1. /\ pc = "idle" /\ pc' = "flush" /\ UNCHANGED known
      /\ ~Duplicate(Parent(r), r)
      /\ IsFirstFree(m, 0, index) \/ index = 0
      /\ queue' = Append(SaveOrder(p, SetLink(m, index, FAT32_FAT_END_OF_FILE),
                                   StoreEntry(old, e)),
                         Item(index, DirCell(InitDirectoryTable(r.name, p))))
  BY DEF WriteFolder, WriteAccepted
<1>2. /\ Parent(r) = Root /\ Root \in FAT32DirectoryTable /\ IsRootTable(Root)
      /\ Undeleted(Root)
  BY <1>1, RootParent, RootFacts DEF FilesInv, HereInv
<1>3. index # ROOT_CLUSTER_NUMBER
  BY <1>1, LoadedFatSafe, FirstFreeSafe, ReservedFacts DEF FilesInv, Reserved
<1>4. Root' = StoreEntry(old, e) /\ Len(queue') = 3
  BY <1>1, <1>3, RootSavedFolder
<1>5. Listed(old) = Listed(Root) /\ Undeleted(old) /\ old[0].name # NoName
  <2>1. IsRootTable(old)
    BY <1>2, MarkedEntries, ClusterFacts DEF IsRootTable, SameEntry
  <2> QED
    BY <1>2, <2>1, ListedMarked, LayoutAssumption DEF IsRootTable
<1>6. e.undelete = 1
  BY DEF FolderEntry
<1> HIDE DEF old, e
<1>7. /\ Listed(Root') = WithLine(Listed(old), Line(e))
      /\ Undeleted(Root')
  BY <1>4, <1>5, <1>6, ListedStored
<1> QED
  BY <1>1, <1>2, <1>4, <1>5, <1>7 DEF QueueShort, e

LEMMA RootAllocate ==
  ASSUME FilesInv, TypeOK', NEW i \in Clusters, AllocateCluster(i)
  PROVE  /\ Root' = Root /\ QueueShort' /\ pc' = pc /\ pc = "alloc"
         /\ UNCHANGED <<table, req, known, code>>
<1>1. /\ pc = "alloc" /\ UNCHANGED <<table, req, known, queue, pc, code>>
      /\ disk' = WriteCluster(disk, i, DataCell(req.name, req.ext, counter))
      /\ IsFirstFree(fat, cur, i)
  BY DEF AllocateCluster, PlaceData
<1>2. i # ROOT_CLUSTER_NUMBER
  BY <1>1, FirstFreeSafe DEF FilesInv, SafeInv, CallSafe, Reserved
<1>3. queue = << >> /\ TypeOK
  BY <1>1 DEF FilesInv, HereInv, QueueShort, SafeInv, TypeInv
<1>4. QueueShort'
  BY <1>1 DEF FilesInv, HereInv, QueueShort
<1> QED
  BY <1>1, <1>2, <1>3, <1>4, RootElsewhere

LEMMA RootSaveFile ==
  ASSUME FilesInv, NEW m, NEW c, NEW size, pc = "alloc", SaveFile(m, c, size)
  PROVE  /\ pc' = "flush" /\ QueueShort' /\ Undeleted(Root')
         /\ Listed(Root') = WithLine(Listed(table),
                                     Line(FileEntry(req, c, size)))
<1> DEFINE e == FileEntry(req, c, size)
<1>1. /\ queue' = SaveOrder(ROOT_CLUSTER_NUMBER, m, StoreEntry(table, e))
      /\ pc' = "flush"
  BY DEF SaveFile, FilesInv, HereInv
<1>2. Root' = StoreEntry(table, e) /\ Len(queue') = 2
  BY <1>1, RootSaved
<1>3. Undeleted(table) /\ table[0].name # NoName
  <2>1. SafeCell(ROOT_CLUSTER_NUMBER, DirCell(table)) /\ Undeleted(table)
    BY DEF FilesInv, HereInv, SafeInv, CallSafe
  <2> QED
    BY <2>1, CellKinds, LayoutAssumption DEF SafeCell, IsRoot, IsRootTable
<1>4. e.undelete = 1
  BY DEF FileEntry
<1> HIDE DEF e
<1>5. /\ Listed(Root') = WithLine(Listed(table), Line(e))
      /\ Undeleted(Root')
  BY <1>2, <1>3, <1>4, ListedStored
<1>6. QueueShort'
  BY <1>1, <1>2 DEF QueueShort
<1> QED
  BY <1>1, <1>5, <1>6 DEF e

\* The copy has its size, or none.
LEMMA RootSaves ==
  ASSUME FilesInv, DiskFull \/ \E i \in Clusters : AllocateLastCluster(i)
  PROVE  /\ pc = "alloc" /\ pc' = "flush" /\ QueueShort' /\ Undeleted(Root')
         /\ UNCHANGED <<known, code>>
         /\ \E c, size :
              /\ Listed(Root') = WithLine(Listed(table),
                                          Line(FileEntry(req, c, size)))
              /\ \/ size = 0 /\ DiskFull
                 \/ /\ size = req.buffer_size
                    /\ \E i \in Clusters : AllocateLastCluster(i)
<1>1. CASE DiskFull
  <2>1. pc = "alloc" /\ SaveFile(fat, first, 0) /\ UNCHANGED <<known, code>>
    BY <1>1 DEF DiskFull
  <2>2. /\ pc' = "flush" /\ QueueShort' /\ Undeleted(Root')
        /\ Listed(Root') = WithLine(Listed(table),
                                    Line(FileEntry(req, first, 0)))
    BY <2>1, RootSaveFile
  <2> QED
    BY <1>1, <2>1, <2>2
<1>2. ASSUME NEW i \in Clusters, AllocateLastCluster(i)
      PROVE  /\ pc = "alloc" /\ pc' = "flush" /\ QueueShort'
             /\ Undeleted(Root') /\ UNCHANGED <<known, code>>
             /\ Listed(Root') = WithLine(Listed(table),
                                  Line(FileEntry(req, first', req.buffer_size)))
  <2>1. /\ pc = "alloc" /\ UNCHANGED <<known, code>>
        /\ \E m : SaveFile(m, first', req.buffer_size)
    BY <1>2 DEF AllocateLastCluster, PlaceData
  <2> QED
    BY <2>1, RootSaveFile
<1>3. CASE \E i \in Clusters : AllocateLastCluster(i)
  BY <1>2, <1>3
<1> QED
  BY <1>1, <1>3

LEMMA RootDelete ==
  ASSUME FilesInv, NEW r \in FAT32DriverRequest, Delete(r),
         r.parent_cluster_number = ROOT_CLUSTER_NUMBER
  PROVE  /\ Root' = Root /\ QueueShort' /\ pc' = "walk" /\ req' = r
         /\ pc = "idle" /\ UNCHANGED known /\ Undeleted(table')
         /\ \E s \in Slots :
              /\ IsFirstDeletable(Root, r, s)
              /\ Listed(table') = Without(Listed(Root), s)
<1>1. /\ pc = "idle" /\ pc' = "walk" /\ req' = r
      /\ UNCHANGED <<disk, queue, known>>
  BY DEF Delete
<1>2. Parent(r) = Root /\ queue = << >> /\ Undeleted(Root)
  BY <1>1, RootParent DEF FilesInv, HereInv
<1>3. PICK s \in Slots :
        /\ IsFirstDeletable(Root, r, s)
        /\ table' = [q \in Slots |-> IF q = s THEN ZeroEntry ELSE Root[q]]
  BY <1>2 DEF Delete
<1>4. /\ Listed(table') = Without(Listed(Root), s)
      /\ Undeleted(table')
  BY <1>2, <1>3, ListedRemoved
<1>5. QueueShort'
  BY <1>1, <1>2 DEF FilesInv, HereInv, QueueShort
<1> QED
  BY <1>1, <1>3, <1>4, <1>5, RootKept

LEMMA RootWalk ==
  ASSUME FilesInv, TypeOK', WalkChain
  PROVE  /\ Root' = Root /\ QueueShort' /\ pc' = pc /\ pc = "walk"
         /\ UNCHANGED <<table, req, known>>
<1>1. /\ pc = "walk" /\ UNCHANGED <<table, req, known, queue, pc>>
      /\ disk' = WriteCluster(disk, cur, Blank)
  BY DEF WalkChain
<1>2. cur # ROOT_CLUSTER_NUMBER
  BY <1>1 DEF FilesInv, SafeInv, CallSafe, Reserved
<1>3. queue = << >> /\ TypeOK /\ QueueShort'
  BY <1>1 DEF FilesInv, HereInv, QueueShort, SafeInv, TypeInv
<1> QED
  BY <1>1, <1>2, <1>3, RootElsewhere

LEMMA RootEndOfChain ==
  ASSUME FilesInv, EndOfChain
  PROVE  /\ Root' = table /\ QueueShort' /\ pc = "walk" /\ pc' = "flush"
         /\ UNCHANGED known /\ Undeleted(table)
<1>1. /\ pc = "walk" /\ pc' = "flush" /\ UNCHANGED known
      /\ queue' = SaveOrder(req.parent_cluster_number, fat', table)
  BY DEF EndOfChain
<1>2. req.parent_cluster_number = ROOT_CLUSTER_NUMBER /\ Undeleted(table)
  BY <1>1 DEF FilesInv, HereInv
<1>3. \E m : queue' = SaveOrder(ROOT_CLUSTER_NUMBER, m, table)
  BY <1>1, <1>2
<1>4. Root' = table /\ Len(queue') = 2
  BY <1>3, RootSaved
<1>5. QueueShort'
  BY <1>1, <1>4 DEF QueueShort
<1> QED
  BY <1>1, <1>2, <1>4, <1>5

LEMMA RootFlush ==
  ASSUME FilesInv, FlushWrite
  PROVE  /\ Root' = Root /\ QueueShort' /\ pc \in {"format", "flush"}
         /\ pc' \in {pc, "idle", "return"} /\ UNCHANGED known
         /\ pc = "flush" => pc' # "idle"
<1>1. Settled' = Settled /\ QueueShort'
  BY SettledFlushed DEF FilesInv, FilesTypeInv, HereInv
<1>2. Root' = Root
  BY <1>1 DEF Root
<1> QED
  BY <1>1, <1>2 DEF FlushWrite

LEMMA RootCreate ==
  ASSUME FilesInv, CreateFat32
  PROVE  /\ QueueShort' /\ pc = "off" /\ pc' = "format" /\ UNCHANGED known
         /\ Undeleted(Root')
<1>1. /\ pc = "off" /\ pc' = "format" /\ UNCHANGED known
      /\ queue' = << Item(BOOT_SECTOR, Signature),
                     Item(ROOT_CLUSTER_NUMBER, DirCell(RootTable)),
                     Item(FAT_CLUSTER_NUMBER, FatCell(FormattedMap)) >>
  BY DEF CreateFat32
<1>2. /\ Len(queue') = 3
      /\ queue'[3].cluster = FAT_CLUSTER_NUMBER
      /\ queue'[2].cluster = ROOT_CLUSTER_NUMBER
      /\ queue'[2].cell = DirCell(RootTable)
  BY <1>1 DEF Item
<1>3. ROOT_CLUSTER_NUMBER \in Clusters
      /\ ROOT_CLUSTER_NUMBER # FAT_CLUSTER_NUMBER
  BY ReservedFacts DEF Reserved
<1>4. Root' = RootTable
  BY <1>2, <1>3, CellKinds DEF Root, Settled
<1>5. \A s \in Slots \ {0} : RootTable[s].name = NoName
  BY NewTableEntries DEF RootTable
<1> QED
  BY <1>1, <1>2, <1>4, <1>5 DEF Undeleted, QueueShort

\* The calls stay in the root directory.

LEMMA QuietStep ==
  ASSUME FilesInv, [FilesNext]_fileVars
  PROVE  QuietInv'
<1>1. QuietInv
  BY DEF FilesInv, HereInv
<1>2. CASE NextFileCall
  <2> DEFINE r == Head(calls)
  <2>1. ServeFile(r)
    BY <1>2 DEF NextFileCall
  <2> HIDE DEF r
  <2>2. \/ (\E c : Answer(r, c)) \/ ReadFile(r) \/ WriteFile(r)
        \/ \E index \in Clusters : WriteFolder(r, index)
        \/ Delete(r)
    BY <2>1 DEF ServeFile, Serve, ReadDirectory, WriteRefused, ReadNotFound,
                ReadNothing, DeleteRefused
  <2> QED
    BY <1>1, <2>2 DEF QuietInv, Answer, ReadFile, WriteFile, WriteFolder,
                      WriteAccepted, SaveFile, Delete, locals
<1>3. CASE FileReturns
  <2>1. Return
    BY <1>3 DEF FileReturns, ProbeReturns, ListReturns, ReadReturns,
                ChangeReturns, NothingReturns, GoesOn, RoutineEnds, Goes
  <2> QED
    BY <2>1 DEF Return, QuietInv
<1>4. CASE FileKernelStep
  BY <1>1, <1>4 DEF FileKernelStep, KernelStep, QuietInv, CreateFat32,
     FollowChain, AllocateCluster, AllocateLastCluster, PlaceData, SaveFile,
     DiskFull, WalkChain, EndOfChain, FlushWrite, locals
<1>5. CASE FileTyped \/ UNCHANGED fileVars
  <2>1. UNCHANGED vars
    BY <1>5 DEF FileTyped, Cat, Rm, MkdirHere, Mkdir, Cp, MvFiles, MvFolders,
                RunFiles, Run, fileVars, shellVars
  <2> QED
    BY <1>1, <2>1 DEF vars, locals, QuietInv
<1> QED
  BY <1>2, <1>3, <1>4, <1>5 DEF FilesNext

LEMMA HereInit ==
  ASSUME FilesInit
  PROVE  HereInv
<1>1. Len(queue) = 0 /\ queue = << >> /\ pc = "off" /\ command.op = "main"
      /\ known = {ROOT_CLUSTER_NUMBER}
      /\ cwd.currentCluster = ROOT_CLUSTER_NUMBER /\ cwd.cwdName = RootName
      /\ QuietInv
  BY EmptySeq DEF FilesInit, ShellInit, Init, NoCommand, QuietInv
<1>2. /\ Len(StartFiles) \in Nat
      /\ DOMAIN StartFiles = 1 .. Len(StartFiles)
  BY ShellAssumption, LenProperties
<1>3. calls = [i \in 1 .. Len(StartFiles) |-> StartFile(StartFiles[i])]
  BY <1>2 DEF FilesInit, ShellInit
<1>4. Len(calls) = Len(StartFiles)
  BY <1>2, <1>3
<1>5. \A i \in 1 .. Len(calls) :
        calls[i].parent_cluster_number = ROOT_CLUSTER_NUMBER
  BY <1>3, <1>4 DEF StartFile
<1> QED
  BY <1>1, <1>5 DEF HereInv, QueueShort

LEMMA HereTyped ==
  ASSUME FilesInv, FileTyped,
         QuietInv'
  PROVE  HereInv'
<1> DEFINE InRoot(q) == \A i \in 1 .. Len(q) :
                          q[i].parent_cluster_number = ROOT_CLUSTER_NUMBER
<1>1. PICK op, name, q : Run(op, name, q) /\ InRoot(q)
  <2>1. cwd.currentCluster = ROOT_CLUSTER_NUMBER
    BY DEF FilesInv, HereInv
  <2>2. /\ \A c, n : Listing(c, n).parent_cluster_number = c
        /\ \A c, n : NewFolder(c, n).parent_cluster_number = c
        /\ \A op, n, x, k : FileRequest(op, n, x, k).parent_cluster_number
                              = cwd.currentCluster
    BY DEF Listing, NewFolder, FileRequest
  <2>3. \A r : r.parent_cluster_number = ROOT_CLUSTER_NUMBER => InRoot(<<r>>)
    OBVIOUS
  <2>4. \A r, s : /\ r.parent_cluster_number = ROOT_CLUSTER_NUMBER
                  /\ s.parent_cluster_number = ROOT_CLUSTER_NUMBER
                  => InRoot(<<r, s>>)
    OBVIOUS
  <2> HIDE DEF InRoot
  <2>5. CASE \E src \in CallerNames : Cat(src) \/ Rm(src) \/ MkdirHere(src)
    BY <2>1, <2>2, <2>3, <2>5
       DEF Cat, Rm, MkdirHere, Mkdir, RunFiles, ListCwd
  <2>6. CASE \E src, to \in CallerNames : Cp(src, to)
    BY <2>1, <2>2, <2>3, <2>6 DEF Cp, RunFiles, ListCwd
  <2>7. CASE \E src, to \in CallerNames : MvFiles(src, to)
    BY <2>1, <2>2, <2>4, <2>7 DEF MvFiles, RunFiles
  <2>8. CASE \E src, to \in CallerNames : MvFolders(src, to)
    BY <2>1, <2>2, <2>4, <2>8 DEF MvFolders, RunFiles
  <2> QED
    BY <2>5, <2>6, <2>7, <2>8 DEF FileTyped
<1>2. /\ pc = "idle" /\ pc' = "idle" /\ UNCHANGED <<disk, queue, cwd, known>>
      /\ calls' = q
  BY <1>1 DEF Run, vars
<1>3. Root' = Root
  BY <1>2, RootKept
<1> QED
  BY <1>1, <1>2, <1>3 DEF FilesInv, HereInv, QueueShort

LEMMA HereNextCall ==
  ASSUME FilesInv, NextFileCall,
         QuietInv'
  PROVE  HereInv'
<1> DEFINE r == Head(calls)
<1>1. /\ UNCHANGED <<cwd, command>> /\ ServeFile(r)
      /\ r \in FAT32DriverRequest
      /\ r.parent_cluster_number = ROOT_CLUSTER_NUMBER
      /\ \A i \in 1 .. Len(calls') :
           calls'[i].parent_cluster_number = ROOT_CLUSTER_NUMBER
  BY FileCallsLeft DEF NextFileCall, FilesInv, HereInv
<1> HIDE DEF r
<1>2. SUFFICES /\ QueueShort' /\ known \subseteq known'
               /\ pc' \notin {"off", "format"} /\ Undeleted(Root')
               /\ pc' \in {"alloc", "walk"} => /\ req' = r
                                               /\ Undeleted(table')
  BY <1>1 DEF FilesInv, HereInv
<1>3. CASE (\E c : Answer(r, c)) \/ ReadFile(r)
  <2>1. /\ Root' = Root /\ QueueShort' /\ pc' \in {"idle", "chain", "return"}
        /\ known \subseteq known' /\ pc \in {"idle", "chain", "return"}
    BY <1>3, RootQuiet
  <2> QED
    BY <2>1 DEF FilesInv, HereInv
<1>4. CASE WriteFile(r)
  <2>1. pc = "idle"
    BY <1>4 DEF WriteFile, WriteAccepted
  <2> QED
    BY <1>1, <1>4, <2>1, RootWriteFile DEF FilesInv, HereInv
<1>5. CASE \E index \in Clusters : WriteFolder(r, index)
  BY <1>1, <1>5, RootWriteFolder
<1>6. CASE Delete(r)
  <2>1. /\ Root' = Root /\ QueueShort' /\ pc' = "walk" /\ req' = r
        /\ pc = "idle" /\ UNCHANGED known /\ Undeleted(table')
    BY <1>1, <1>6, RootDelete
  <2> QED
    BY <2>1 DEF FilesInv, HereInv
<1>7. \/ (\E c : Answer(r, c)) \/ ReadFile(r)
      \/ WriteFile(r)
      \/ \E index \in Clusters : WriteFolder(r, index)
      \/ Delete(r)
  BY <1>1 DEF ServeFile, Serve, ReadDirectory, WriteRefused, ReadNotFound,
              ReadNothing, DeleteRefused
<1> QED
  BY <1>3, <1>4, <1>5, <1>6, <1>7

LEMMA HereReturns ==
  ASSUME FilesInv, FileReturns,
         QuietInv'
  PROVE  HereInv'
<1> DEFINE InRoot(q) == \A i \in 1 .. Len(q) :
                          q[i].parent_cluster_number = ROOT_CLUSTER_NUMBER
<1>1. PICK q : Goes(q) /\ InRoot(q)
  <2>1. cwd.currentCluster = ROOT_CLUSTER_NUMBER /\ InRoot(calls)
    BY DEF FilesInv, HereInv
  <2>2. /\ ListCwd.parent_cluster_number = cwd.currentCluster
        /\ \A op, n, x, k : FileRequest(op, n, x, k).parent_cluster_number
                              = cwd.currentCluster
    BY DEF ListCwd, Listing, FileRequest
  <2>3. /\ \A r : r.parent_cluster_number = ROOT_CLUSTER_NUMBER
                    => InRoot(<<r>>)
        /\ InRoot(<< >>)
    OBVIOUS
  <2>4. Change.parent_cluster_number = cwd.currentCluster
    BY <2>2 DEF Change
  <2> HIDE DEF InRoot
  <2>5. CASE ProbeReturns
    BY <2>1, <2>2, <2>3, <2>5 DEF ProbeReturns, GoesOn
  <2>6. CASE ListReturns
    BY <2>1, <2>2, <2>3, <2>6 DEF ListReturns, GoesOn, RoutineEnds
  <2>7. CASE ReadReturns
    BY <2>1, <2>2, <2>3, <2>4, <2>7 DEF ReadReturns, GoesOn, RoutineEnds
  <2>8. CASE ChangeReturns
    BY <2>1, <2>2, <2>3, <2>8 DEF ChangeReturns, RoutineEnds
  <2>9. CASE NothingReturns
    BY <2>1, <2>9 DEF NothingReturns
  <2> QED
    BY <2>5, <2>6, <2>7, <2>8, <2>9 DEF FileReturns
<1>2. /\ Return /\ calls' = q /\ UNCHANGED cwd
  BY <1>1 DEF Goes, FileReturns
<1>3. /\ Root' = Root /\ QueueShort' /\ known \subseteq known'
      /\ pc' = "idle" /\ pc = "return"
  BY <1>2, RootQuiet DEF Return
<1> QED
  BY <1>1, <1>2, <1>3 DEF FilesInv, HereInv

LEMMA HereKernelStep ==
  ASSUME FilesInv, TypeOK', FileKernelStep,
         QuietInv'
  PROVE  HereInv'
<1>1. UNCHANGED <<cwd, command, calls>>
  BY DEF FileKernelStep, KernelStep
<1>2. SUFFICES /\ QueueShort' /\ known \subseteq known' /\ Undeleted(Root')
               /\ pc' # "off"
               /\ pc' = "format" => command.op = "main"
               /\ pc' \in {"alloc", "walk"} =>
                    /\ req' = req /\ pc \in {"alloc", "walk"}
                    /\ Undeleted(table')
  BY <1>1 DEF FilesInv, HereInv
<1>3. CASE CreateFat32
  BY <1>3, RootCreate DEF FilesInv, HereInv
<1>4. CASE FlushWrite
  BY <1>4, RootFlush DEF FilesInv, HereInv
<1>5. CASE FollowChain
  <2>1. /\ Root' = Root /\ QueueShort' /\ pc' \in {"idle", "chain", "return"}
        /\ known \subseteq known' /\ pc \in {"idle", "chain", "return"}
    BY <1>5, RootQuiet
  <2> QED
    BY <2>1 DEF FilesInv, HereInv
<1>6. CASE \E i \in Clusters : AllocateCluster(i)
  <2>1. /\ Root' = Root /\ QueueShort' /\ pc' = pc /\ pc = "alloc"
        /\ UNCHANGED <<table, req, known>>
    BY <1>6, RootAllocate
  <2> QED
    BY <2>1 DEF FilesInv, HereInv
<1>7. CASE DiskFull \/ \E i \in Clusters : AllocateLastCluster(i)
  BY <1>7, RootSaves
<1>8. CASE WalkChain
  <2>1. /\ Root' = Root /\ QueueShort' /\ pc' = pc /\ pc = "walk"
        /\ UNCHANGED <<table, req, known>>
    BY <1>8, RootWalk
  <2> QED
    BY <2>1 DEF FilesInv, HereInv
<1>9. CASE EndOfChain
  BY <1>9, RootEndOfChain
<1> QED
  BY <1>3, <1>4, <1>5, <1>6, <1>7, <1>8, <1>9 DEF FileKernelStep, KernelStep

LEMMA HereStep ==
  ASSUME FilesInv, [FilesNext]_fileVars
  PROVE  FilesInv'
<1>1. FilesTypeInv' /\ SafeInv' /\ TypeOK'
  BY FilesSafe DEF FilesTypeInv, TypeInv
<1>2. QuietInv'
  BY QuietStep
<1>3. CASE UNCHANGED fileVars
  <2>1. UNCHANGED <<disk, table, pc, req, queue, known, cwd, command, calls>>
    BY <1>3 DEF fileVars, shellVars, vars
  <2>2. Root' = Root
    BY <2>1, RootKept
  <2> QED
    BY <1>1, <1>2, <2>1, <2>2 DEF FilesInv, HereInv, QueueShort
<1> QED
  BY <1>1, <1>2, <1>3, HereTyped, HereNextCall, HereReturns, HereKernelStep
     DEF FilesInv, FilesNext

-----------------------------------------------------------------------------
(* The copy and the source in a listing.                                   *)

LEMMA TodoFacts ==
  /\ << >> # <<"cp">> /\ << >> # <<"rm">> /\ << >> # <<"cp", "rm">>
  /\ <<"cp">> # <<"rm">> /\ <<"rm">> # <<"cp", "rm">>
  /\ <<"cp">> # <<"cp", "rm">>
  /\ Tail(<<"cp">>) = << >> /\ Tail(<<"rm">>) = << >>
  /\ Tail(<<"cp", "rm">>) = <<"rm">>
  /\ Head(<<"cp">>) = "cp" /\ Head(<<"rm">>) = "rm"
  /\ Head(<<"cp", "rm">>) = "cp"
<1>1. /\ Len(<< >>) = 0 /\ Len(<<"cp">>) = 1 /\ Len(<<"rm">>) = 1
      /\ Len(<<"cp", "rm">>) = 2
      /\ <<"cp">>[1] = "cp" /\ <<"rm">>[1] = "rm"
  OBVIOUS
<1> QED
  BY <1>1

LEMMA SlotOrder ==
  /\ Slots \subseteq Int
  /\ \A s, q \in Slots : s < q \/ q < s \/ s = q
BY LayoutAssumption DEF Slots

LEMMA OneFile ==
  ASSUME NEW S, NEW s, NEW q, FileAt(S, s), FileAt(S, q)
  PROVE  s = q
BY SlotOrder DEF FileAt

LEMMA SourceIsFile ==
  ASSUME NEW s
  PROVE  IsSource(s) <=>
           /\ FileAt(before.entries, s)
           /\ \A q \in Slots : q < s =>
                \/ before.entries[q].name # command.name
                \/ before.entries[q].ext # before.entries[s].ext
BY DEF IsSource, FileAt

LEMMA OneSource ==
  ASSUME NEW s, NEW q, IsSource(s), IsSource(q)
  PROVE  s = q
BY SourceIsFile, OneFile

\* What had a name has not become the copy.
Begun(S) == S = before.entries \/ CopyDone(S)

LEMMA NamedKept ==
  ASSUME NEW S, Begun(S), NEW s \in Slots, before.entries[s].name # NoName
  PROVE  S[s] = before.entries[s]
BY DEF Begun, CopyDone, CopiesTo

LEMMA FileKept ==
  ASSUME NEW S, Begun(S), NEW s \in Slots
  PROVE  /\ FileAt(S, s) <=> FileAt(before.entries, s)
         /\ FileAt(S, s) => \A q \in Slots : q =< s => S[q] = before.entries[q]
<1> DEFINE b == before.entries
<1>1. ASSUME \A q \in Slots : q =< s => b[q].name # NoName
      PROVE  \A q \in Slots : q =< s => S[q] = b[q]
  BY <1>1, NamedKept
<1>2. FileAt(b, s) => FileAt(S, s)
  BY <1>1, SlotOrder DEF FileAt
<1>3. ASSUME FileAt(S, s)
      PROVE  \A q \in Slots : q =< s => b[q].name # NoName
  <2> SUFFICES ASSUME NEW q \in Slots, q =< s, b[q].name = NoName
               PROVE  FALSE
    OBVIOUS
  <2>1. S[q].name # NoName
    BY <1>3 DEF FileAt
  <2>2. PICK p \in Slots : CopiesTo(p, q)
    BY <2>1 DEF Begun, CopyDone
  <2>3. FileAt(b, p)
    BY <2>2, SourceIsFile DEF CopiesTo
  <2>4. p < q
    BY <2>3, SlotOrder DEF FileAt
  <2>5. S[p] = b[p]
    BY <2>3, SlotOrder, NamedKept DEF FileAt
  <2> QED
    BY <1>3, <2>3, <2>4, <2>5, SlotOrder DEF FileAt
<1>4. FileAt(S, s) => FileAt(b, s)
  BY <1>1, <1>3, SlotOrder DEF FileAt
<1> QED
  BY <1>1, <1>2, <1>3, <1>4

LEMMA ReadsSource ==
  ASSUME NEW S, Begun(S), NEW s \in Slots, FileAt(before.entries, s),
         before.entries[s].filesize \in Nat,
         NEW x, NEW size, x = before.entries[s].ext,
         size = before.entries[s].filesize
  PROVE  Readable(S, command.name, x, size) <=> IsSource(s)
<1> DEFINE b == before.entries
<1>1. /\ FileAt(S, s)
      /\ \A q \in Slots : q =< s => S[q] = b[q]
  BY FileKept
<1>2. ASSUME Readable(S, command.name, x, size)
      PROVE  IsSource(s)
  <2>1. PICK p \in Slots :
          /\ S[p].name = command.name /\ S[p].ext = x
          /\ S[p].attribute # ATTR_SUBDIRECTORY
          /\ \A q \in Slots : q < p => S[q].name # command.name \/ S[q].ext # x
    BY <1>2 DEF Readable
  <2>2. S[s].name = command.name /\ S[s].ext = x
    BY <1>1, SlotOrder DEF FileAt
  <2>3. p = s
    BY <1>1, <2>1, <2>2, SlotOrder DEF FileAt
  <2> QED
    BY <1>1, <2>1, <2>3, SourceIsFile, SlotOrder
<1>3. ASSUME IsSource(s)
      PROVE  Readable(S, command.name, x, size)
  <2>1. /\ S[s].name = command.name /\ S[s].ext = x
        /\ S[s].attribute # ATTR_SUBDIRECTORY /\ S[s].filesize =< size
    BY <1>1, SlotOrder DEF FileAt
  <2>2. \A q \in Slots : q < s => S[q].name # command.name \/ S[q].ext # x
    BY <1>1, <1>3, SourceIsFile, SlotOrder
  <2> QED
    BY <2>1, <2>2 DEF Readable
<1> QED
  BY <1>2, <1>3

LEMMA NoCopy ==
  ASSUME NEW S, S = before.entries,
         \/ command.op \notin {"cp", "mv"}
         \/ ~Starts
         \/ \A s \in Slots : ~IsSource(s)
  PROVE  CopyDone(S)
BY DEF CopyDone, CopiesTo

LEMMA CopyRefused ==
  ASSUME NEW S, S = before.entries, NEW s \in Slots, IsSource(s),
         NEW r, Duplicate(S, r), r.name = dest, r.ext = S[s].ext
  PROVE  CopyDone(S)
<1>1. \A p, q : ~CopiesTo(p, q)
  BY OneSource DEF CopiesTo, Duplicate
<1> QED
  BY <1>1 DEF CopyDone

LEMMA CopyStored ==
  ASSUME NEW S, S = before.entries, NEW s \in Slots, IsSource(s),
         command.op \in {"cp", "mv"}, Starts,
         NEW r, ~Duplicate(S, r), r.name = dest, r.ext = S[s].ext
  PROVE  CopyDone(WithLine(S, Copy(s)))
<1> DEFINE x == Copy(s)
<1>1. ASSUME NEW q \in Slots, IsFirstUnused(S, q)
      PROVE  CopiesTo(s, q) /\ WithLine(S, x)[q] = x
  <2>1. CopiesTo(s, q)
    BY <1>1 DEF CopiesTo, Duplicate, IsFirstUnused
  <2> HIDE DEF x
  <2> QED
    BY <1>1, <2>1 DEF WithLine
<1>2. ASSUME NEW q \in Slots, ~IsFirstUnused(S, q)
      PROVE  /\ \A p \in Slots : ~CopiesTo(p, q)
             /\ WithLine(S, x)[q] = before.entries[q]
  <2>1. \A p \in Slots : ~CopiesTo(p, q)
    BY <1>2 DEF CopiesTo, IsFirstUnused
  <2> HIDE DEF x
  <2> QED
    BY <1>2, <2>1 DEF WithLine
<1> HIDE DEF x
<1>3. CopyDone(WithLine(S, x))
  BY <1>1, <1>2 DEF CopyDone, x
<1> QED
  BY <1>3 DEF x

\* Where nothing is removed, the copy is all.
LEMMA NothingGone ==
  ASSUME NEW S, CopyDone(S),
         \/ command.op \notin {"rm", "mv"}
         \/ ~Starts
         \/ \A s \in Slots : ~IsSource(s)
  PROVE  Effect(S)
<1>1. \A s \in Slots : ~Removes(s)
  BY DEF Removes
<1> QED
  BY <1>1 DEF CopyDone, Effect

LEMMA SourceTaken ==
  ASSUME NEW S, CopyDone(S), NEW s \in Slots, IsSource(s),
         command.op \in {"rm", "mv"}, Starts
  PROVE  Effect(Without(S, s))
<1> SUFFICES ASSUME NEW q \in Slots
             PROVE  \/ Removes(q) /\ Without(S, s)[q] = Line(ZeroEntry)
                    \/ \E p \in Slots : /\ CopiesTo(p, q)
                                        /\ Without(S, s)[q] = Copy(p)
                    \/ /\ ~Removes(q) /\ \A p \in Slots : ~CopiesTo(p, q)
                       /\ Without(S, s)[q] = before.entries[q]
  BY DEF Effect
<1>1. CASE q = s
  BY <1>1 DEF Removes, Without
<1>2. CASE q # s
  <2>1. ~Removes(q)
    BY <1>2, OneSource DEF Removes
  <2>2. Without(S, s)[q] = S[q]
    BY <1>2 DEF Without
  <2> QED
    BY <2>1, <2>2 DEF CopyDone
<1> QED
  BY <1>1, <1>2


-----------------------------------------------------------------------------
(* The steps of the commands keep EffectInv.                               *)

\* What the driver does while a command waits for it.
CommandKept == UNCHANGED <<cwd, command, todo, stage, found, dest, before>>

\* What the copy and the source are depends on the command as it was typed.
LEMMA EffectTypedOnce ==
  ASSUME UNCHANGED <<command, dest, before>>
  PROVE  /\ Starts' = Starts
         /\ \A s : IsSource(s)' = IsSource(s)
         /\ \A n : ProbeFinds(n)' = ProbeFinds(n)
         /\ \A S : CopyDone(S)' = CopyDone(S) /\ Effect(S)' = Effect(S)
<1>1. /\ \A s : IsSource(s)' = IsSource(s)
      /\ \A n : ProbeFinds(n)' = ProbeFinds(n)
      /\ \A s : Copy(s)' = Copy(s)
  BY DEF IsSource, ProbeFinds, Copy
<1>2. Starts' = Starts
  BY <1>1 DEF Starts
<1>3. /\ \A s, q : CopiesTo(s, q)' = CopiesTo(s, q)
      /\ \A s : Removes(s)' = Removes(s)
  BY <1>1, <1>2 DEF CopiesTo, Removes
<1> QED
  BY <1>1, <1>2, <1>3 DEF CopyDone, Effect

LEMMA EffectKept ==
  ASSUME CommandKept
  PROVE  /\ FileCommand' = FileCommand /\ TodoOf' = TodoOf
         /\ Copying' = Copying /\ Removing' = Removing
         /\ Starts' = Starts /\ FileFound' = FileFound
         /\ SourceFound' = SourceFound /\ Change' = Change
         /\ ListCwd' = ListCwd
         /\ FileRequest("read", command.name, found.ext, found.filesize)' =
              FileRequest("read", command.name, found.ext, found.filesize)
         /\ \A n : ProbeOf(n)' = ProbeOf(n) /\ ProbeFinds(n)' = ProbeFinds(n)
         /\ \A S : CopyDone(S)' = CopyDone(S) /\ Effect(S)' = Effect(S)
<1>1. /\ Starts' = Starts
      /\ \A s : IsSource(s)' = IsSource(s)
      /\ \A n : ProbeFinds(n)' = ProbeFinds(n)
      /\ \A S : CopyDone(S)' = CopyDone(S) /\ Effect(S)' = Effect(S)
  BY EffectTypedOnce DEF CommandKept
<1>2. /\ Change' = Change /\ ListCwd' = ListCwd
      /\ FileRequest("read", command.name, found.ext, found.filesize)' =
           FileRequest("read", command.name, found.ext, found.filesize)
      /\ \A n : ProbeOf(n)' = ProbeOf(n)
  BY DEF CommandKept, FileRequest, Change, ListCwd, Listing, ProbeOf
<1>3. /\ FileCommand' = FileCommand /\ TodoOf' = TodoOf
      /\ Copying' = Copying /\ Removing' = Removing
  BY DEF CommandKept, FileCommand, TodoOf, Copying, Removing
<1>4. FileFound' = FileFound
  BY DEF CommandKept, FileFound, FileAt
<1>5. SourceFound' = SourceFound
  BY <1>1 DEF CommandKept, SourceFound
<1> QED
  BY <1>1, <1>2, <1>3, <1>4, <1>5

LEMMA EffectAfter ==
  ASSUME CommandKept, NEW t, t = Root', NEW S, S = Listed(t),
         todo = << >> \/ (Copying /\ ~Changed') => S = before.entries,
         (Copying /\ Changed') \/ (Removing /\ ~Changed') => CopyDone(S),
         Removing /\ Changed' => Effect(S)
  PROVE  EffectSoFar(Listed(Root))'
<1>1. before' = before /\ todo' = todo
  BY DEF CommandKept
<1>2. Listed(Root)' = S
  BY DEF Listed, Line
<1>3. /\ CopyDone(S)' = CopyDone(S) /\ Effect(S)' = Effect(S)
      /\ Copying' = Copying /\ Removing' = Removing
  BY EffectKept
<1>4. CopyDone(Listed(Root))' = CopyDone(S)
  BY <1>2, <1>3 DEF CopyDone
<1>5. Effect(Listed(Root))' = Effect(S)
  BY <1>2, <1>3 DEF Effect
<1> QED
  BY <1>1, <1>2, <1>3, <1>4, <1>5 DEF EffectSoFar

\* While no call changes anything, the effect so far stays.
LEMMA EffectSame ==
  ASSUME CommandKept, Root' = Root, Changed' = Changed,
         EffectSoFar(Listed(Root))
  PROVE  EffectSoFar(Listed(Root))'
BY EffectAfter DEF EffectSoFar

LEMMA EffectBegun ==
  ASSUME FileCommand, TodoOf, EffectSoFar(Listed(Root)), ~Changed
  PROVE  Begun(Listed(Root))
BY DEF FileCommand, TodoOf, EffectSoFar, Begun, Copying, Removing

LEMMA ServedCall ==
  ASSUME FilesInv, NextFileCall
  PROVE  /\ CommandKept /\ pc = "idle" /\ ServeFile(Head(calls))
         /\ Parent(Head(calls)) = Root /\ queue = << >>
         /\ Head(calls) \in FAT32DriverRequest
         /\ Head(calls).parent_cluster_number = ROOT_CLUSTER_NUMBER
         /\ Head(calls) = calls[1] /\ 1 \in 1 .. Len(calls)
         /\ calls' = Tail(calls)
         /\ \A i \in 1 .. Len(calls') : /\ i + 1 \in 1 .. Len(calls)
                                        /\ calls'[i] = calls[i + 1]
<1>1. pc = "idle"
  BY DEF NextFileCall, ServeFile, Serve, ReadDirectory, WriteRefused,
         WriteFile, WriteFolder, WriteAccepted, ReadNotFound, ReadNothing,
         ReadFile, DeleteRefused, Delete, Answer
<1>2. CommandKept /\ ServeFile(Head(calls)) /\ calls' = Tail(calls)
  BY DEF NextFileCall, CommandKept
<1> QED
  BY <1>1, <1>2, FileCallsLeft, RootParent

\* A call that only reads.
LEMMA ReadServed ==
  ASSUME NEW r, r.op \in {"read", "read_directory"}, ServeFile(r), FilesInv
  PROVE  /\ (\E c : Answer(r, c)) \/ ReadFile(r)
         /\ Root' = Root /\ pc' \in {"chain", "return"}
<1>1. (\E c : Answer(r, c)) \/ ReadFile(r)
  BY DEF ServeFile, Serve, ReadDirectory, ReadNotFound, ReadNothing
<1>2. Root' = Root
  BY <1>1, RootQuiet
<1> QED
  BY <1>1, <1>2 DEF Answer, ReadFile

\* What read answers.
LEMMA ReadAnswers ==
  ASSUME FilesInv, NEW r \in FAT32DriverRequest, r.op = "read", ServeFile(r),
         pc = "idle", r.parent_cluster_number = ROOT_CLUSTER_NUMBER
  PROVE  LET P == Readable(Listed(Root), r.name, r.ext, r.buffer_size)
         IN \/ pc' = "chain" /\ P
            \/ pc' = "return" /\ (code' = 0 <=> P)
<1> DEFINE S == Listed(Root)
           P == Readable(S, r.name, r.ext, r.buffer_size)
<1>1. Parent(r) = Root /\ Root \in FAT32DirectoryTable
  BY RootParent, RootFacts
<1>2. \A s \in Slots : /\ S[s].name = Root[s].name /\ S[s].ext = Root[s].ext
                       /\ S[s].attribute = Root[s].attribute
                       /\ S[s].filesize = Root[s].filesize
                       /\ Root[s].filesize \in Nat
  BY <1>1, ListedAt DEF FAT32DirectoryTable, FAT32DirectoryEntry
<1>3. r.buffer_size \in Nat
  BY DEF FAT32DriverRequest
<1>4. ASSUME NEW s \in Slots, IsFirstNamed(Root, r, s)
      PROVE  P <=> /\ Root[s].attribute # ATTR_SUBDIRECTORY
                   /\ Root[s].filesize =< r.buffer_size
  <2>1. ASSUME P
        PROVE  /\ Root[s].attribute # ATTR_SUBDIRECTORY
               /\ Root[s].filesize =< r.buffer_size
    <3>1. PICK q \in Slots :
            /\ S[q].name = r.name /\ S[q].ext = r.ext
            /\ S[q].attribute # ATTR_SUBDIRECTORY
            /\ S[q].filesize =< r.buffer_size
            /\ \A p \in Slots : p < q => S[p].name # r.name \/ S[p].ext # r.ext
      BY <2>1 DEF Readable
    <3>2. q = s
      BY <1>2, <1>4, <3>1, SlotOrder DEF IsFirstNamed
    <3> QED
      BY <1>2, <3>1, <3>2
  <2>2. ASSUME Root[s].attribute # ATTR_SUBDIRECTORY,
               Root[s].filesize =< r.buffer_size
        PROVE  P
    BY <1>2, <1>4, <2>2 DEF IsFirstNamed, Readable
  <2> QED
    BY <2>1, <2>2
<1>5. ReadNotFound(r) \/ ReadNothing(r) \/ ReadFile(r)
  BY DEF ServeFile, Serve
<1>6. CASE ReadNotFound(r)
  <2>1. ~P
    BY <1>1, <1>2, <1>6 DEF ReadNotFound, Duplicate, Readable
  <2> QED
    BY <1>6, <2>1 DEF ReadNotFound, Answer
<1> HIDE DEF P
<1>7. CASE ReadNothing(r)
  <2>1. PICK s \in Slots :
          /\ IsFirstNamed(Root, r, s)
          /\ \/ Root[s].attribute = ATTR_SUBDIRECTORY /\ Answer(r, 1)
             \/ /\ Root[s].attribute # ATTR_SUBDIRECTORY
                /\ r.buffer_size < Root[s].filesize
                /\ Answer(r, 2)
             \/ /\ Root[s].attribute # ATTR_SUBDIRECTORY
                /\ Root[s].filesize = 0
                /\ Answer(r, 0)
    BY <1>1, <1>7 DEF ReadNothing
  <2>2. \A c : Answer(r, c) => pc' = "return" /\ code' = c
    BY DEF Answer
  <2>3. CASE Root[s].attribute = ATTR_SUBDIRECTORY /\ Answer(r, 1)
    BY <1>4, <2>1, <2>2, <2>3 DEF P
  <2>4. CASE r.buffer_size < Root[s].filesize /\ Answer(r, 2)
    BY <1>2, <1>3, <1>4, <2>1, <2>2, <2>4 DEF P
  <2>5. CASE /\ Root[s].attribute # ATTR_SUBDIRECTORY
             /\ Root[s].filesize = 0 /\ Answer(r, 0)
    BY <1>3, <1>4, <2>1, <2>2, <2>5 DEF P
  <2> QED
    BY <2>1, <2>3, <2>4, <2>5
<1>8. CASE ReadFile(r)
  <2>1. PICK s \in Slots :
          /\ IsFirstNamed(Root, r, s)
          /\ Root[s].attribute # ATTR_SUBDIRECTORY
          /\ r.buffer_size >= Root[s].filesize
    BY <1>1, <1>8 DEF ReadFile
  <2>2. P
    BY <1>2, <1>3, <1>4, <2>1 DEF P
  <2> QED
    BY <1>8, <2>2 DEF ReadFile, P
<1> QED
  BY <1>5, <1>6, <1>7, <1>8 DEF P


LEMMA EffectTyped ==
  ASSUME FilesInv, FileTyped
  PROVE  EffectInv'
<1>1. /\ pc' = "idle" /\ Root' = Root
      /\ Cwd(disk) = Listed(Root)
  <2>1. /\ pc = "idle" /\ pc' = "idle" /\ UNCHANGED <<disk, queue>>
    BY DEF FileTyped, Cat, Rm, MkdirHere, Mkdir, Cp, MvFiles, MvFolders,
           RunFiles, Run, vars
  <2>2. Listed(AsTable(disk[ROOT_CLUSTER_NUMBER])) = Listed(Root)
    <3>1. FileRequest("read", NoName, NoExt, 0).parent_cluster_number
            = ROOT_CLUSTER_NUMBER
      BY DEF FileRequest, FilesInv, HereInv
    <3> QED
      BY <2>1, <3>1, RootParent
  <2> QED
    BY <2>1, <2>2, RootKept DEF Cwd, FilesInv, HereInv
<1>2. ASSUME NEW op, NEW src, NEW to, NEW todo1, NEW at, NEW q,
             RunFiles(op, src, to, todo1, at, q)
      PROVE  /\ command' = [op |-> op, name |-> src] /\ calls' = q
             /\ todo' = todo1 /\ stage' = at /\ dest' = to
             /\ UNCHANGED cwd
             /\ todo1 # <<"rm">> => EffectSoFar(Listed(Root))'
             /\ at # "change" /\ op \notin {"cp", "mv"}
                  => EffectSoFar(Listed(Root))'
  <2>1. /\ command' = [op |-> op, name |-> src] /\ calls' = q
        /\ todo' = todo1 /\ stage' = at /\ dest' = to /\ UNCHANGED cwd
        /\ before'.entries = Listed(Root)
    BY <1>1, <1>2 DEF RunFiles, Run, Now
  <2>2. before'.entries = Listed(Root)' /\ ~Changed'
    BY <1>1, <2>1 DEF Changed, Listed, Line
  <2>3. todo1 # <<"rm">> => EffectSoFar(Listed(Root))'
    BY <2>1, <2>2 DEF EffectSoFar, Removing, Copying
  <2>4. at # "change" /\ op \notin {"cp", "mv"} => EffectSoFar(Listed(Root))'
    <3> SUFFICES ASSUME op \notin {"cp", "mv"}
                 PROVE  EffectSoFar(Listed(Root))'
      OBVIOUS
    <3>1. CopyDone(Listed(Root))'
      <4>1. \A p, h : ~CopiesTo(p, h)'
        BY <2>1 DEF CopiesTo
      <4> QED
        BY <2>2, <4>1 DEF CopyDone
    <3> QED
      BY <2>1, <2>2, <3>1 DEF EffectSoFar
  <2> QED
    BY <2>1, <2>2, <2>3, <2>4
<1>3. /\ \A c, n : Listing(c, n).op = "read_directory"
      /\ ListCwd.op = "read_directory"
      /\ \A op, n, x, k : FileRequest(op, n, x, k).op = op
  BY DEF Listing, ListCwd, FileRequest
\* cat and mv of folders only look.
<1>4. ASSUME NEW op \in {"cat", "mv_folders"}, NEW src, NEW to,
             NEW at \in {"read", "list"}, NEW q,
             RunFiles(op, src, to, << >>, at, q),
             \A i \in 1 .. Len(q) : q[i].op \in {"read", "read_directory"}
      PROVE  EffectInv'
  <2>1. /\ command'.op = op /\ calls' = q /\ todo' = << >> /\ stage' = at
        /\ EffectSoFar(Listed(Root))'
    BY <1>2, <1>4, TodoFacts
  <2>2. TodoOf'
    BY <1>4, <2>1 DEF TodoOf
  <2>3. Looking'
    BY <1>1, <1>4, <2>1 DEF Looking, CallsAre
  <2> QED
    BY <2>1, <2>2, <2>3
       DEF EffectInv, ProbeStage, ListStage, ReadStage, ChangeStage
\* cp and rm list the directory first.
<1>5. ASSUME NEW op \in {"cp", "rm"}, NEW src, NEW to,
             RunFiles(op, src, to, <<op>>, "list", <<ListCwd>>)
      PROVE  EffectInv'
  <2>1. /\ command'.op = op /\ calls' = <<ListCwd>> /\ todo' = <<op>>
        /\ stage' = "list" /\ UNCHANGED cwd
        /\ EffectSoFar(Listed(Root))'
    BY <1>2, <1>5, TodoFacts
  <2>2. TodoOf'
    BY <1>5, <2>1 DEF TodoOf
  <2>3. ListStage'
    <3>1. Starts'
      BY <1>5, <2>1 DEF Starts
    <3>2. ListCwd' = ListCwd
      BY <2>1 DEF ListCwd, Listing
    <3>3. \A i \in 1 .. Len(calls') : calls'[i] = ListCwd
      BY <2>1
    <3> QED
      BY <1>1, <3>1, <3>2, <3>3 DEF ListStage
  <2>4. todo' # << >>
    BY <2>1, TodoFacts
  <2> QED
    BY <2>1, <2>2, <2>3, <2>4
       DEF EffectInv, Looking, ProbeStage, ReadStage, ChangeStage
\* mv probes.
<1>6. ASSUME NEW src, NEW to, MvFiles(src, to)
      PROVE  EffectInv'
  <2>1. /\ command' = [op |-> "mv", name |-> src]
        /\ calls' = <<ProbeOf(src), ProbeOf(to)>>
        /\ todo' = <<"cp", "rm">> /\ stage' = "probe" /\ dest' = to
        /\ UNCHANGED cwd /\ EffectSoFar(Listed(Root))'
    BY <1>2, <1>6, TodoFacts DEF MvFiles, ProbeOf
  <2>2. TodoOf'
    BY <2>1 DEF TodoOf
  <2>3. ProbeStage'
    <3>1. \A n : ProbeOf(n)' = ProbeOf(n)
      BY <2>1 DEF ProbeOf, FileRequest
    <3>2. /\ command'.name = src
          /\ calls' = <<ProbeOf(command.name)', ProbeOf(dest)'>>
      <4>1. command'.name = src
        BY <2>1
      <4>2. ProbeOf(command.name)' = ProbeOf(src) /\ ProbeOf(dest)' = ProbeOf(to)
        BY <2>1, <3>1, <4>1 DEF ProbeOf, FileRequest
      <4> QED
        BY <2>1, <4>1, <4>2
    <3> QED
      BY <1>1, <2>1, <3>2 DEF ProbeStage
  <2>4. todo' # << >>
    BY <2>1, TodoFacts
  <2> QED
    BY <2>1, <2>2, <2>3, <2>4
       DEF EffectInv, Looking, ListStage, ReadStage, ChangeStage
<1>7. CASE \E src \in CallerNames : Cat(src)
  <2>1. PICK src \in CallerNames : Cat(src)
    BY <1>7
  <2> DEFINE x == FileRequest("read", src, NoExt, CatClusters * ClusterSize)
  <2>2. RunFiles("cat", src, NoName, << >>, "read", <<x>>) /\ x.op = "read"
    BY <1>3, <2>1 DEF Cat
  <2> HIDE DEF x
  <2>3. \A i \in 1 .. Len(<<x>>) : <<x>>[i] = x
    OBVIOUS
  <2> QED
    BY <1>4, <2>2, <2>3
<1>8. CASE \E src \in CallerNames : Rm(src)
  BY <1>5, <1>8 DEF Rm
<1>9. CASE \E src \in CallerNames : MkdirHere(src)
  <2>1. command'.op = "mkdir"
    BY <1>9 DEF MkdirHere, Mkdir, Run
  <2> QED
    BY <2>1 DEF EffectInv, FileCommand
<1>10. CASE \E src, to \in CallerNames : Cp(src, to)
  BY <1>5, <1>10 DEF Cp
<1>11. CASE \E src, to \in CallerNames : MvFiles(src, to)
  BY <1>6, <1>11
<1>12. CASE \E src, to \in CallerNames : MvFolders(src, to)
  <2>1. \A x, y : \A i \in 1 .. Len(<<x, y>>) : <<x, y>>[i] \in {x, y}
    OBVIOUS
  <2> QED
    BY <1>3, <1>4, <1>12, <2>1 DEF MvFolders
<1> QED
  BY <1>7, <1>8, <1>9, <1>10, <1>11, <1>12 DEF FileTyped

LEMMA EffectLooks ==
  ASSUME FilesInv, EffectInv, FileCommand, NextFileCall, todo = << >>
  PROVE  EffectInv'
<1> DEFINE r == Head(calls)
<1>1. /\ CommandKept /\ ServeFile(r) /\ pc = "idle"
      /\ r = calls[1] /\ 1 \in 1 .. Len(calls)
      /\ \A i \in 1 .. Len(calls') : /\ i + 1 \in 1 .. Len(calls)
                                     /\ calls'[i] = calls[i + 1]
  BY ServedCall
<1>2. /\ TodoOf /\ EffectSoFar(Listed(Root))
      /\ CallsAre({"read", "read_directory"})
  BY DEF EffectInv, Looking
<1>3. r.op \in {"read", "read_directory"}
  BY <1>1, <1>2 DEF CallsAre
<1> HIDE DEF r
<1>4. Root' = Root /\ pc' \in {"chain", "return"}
  BY <1>1, <1>3, ReadServed
<1>5. TodoOf' /\ todo' = << >>
  BY <1>1, <1>2, EffectKept DEF CommandKept
<1>6. EffectSoFar(Listed(Root))'
  BY <1>1, <1>2, <1>4, TodoFacts, EffectAfter
     DEF EffectSoFar, Copying, Removing
<1>7. Looking'
  BY <1>1, <1>2, <1>4 DEF Looking, CallsAre
<1> QED
  BY <1>5, <1>6, <1>7
     DEF EffectInv, ProbeStage, ListStage, ReadStage, ChangeStage

LEMMA SameListing ==
  ASSUME Root' = Root
  PROVE  Listed(Root)' = Listed(Root)
BY DEF Listed, Line

LEMMA EffectProbed ==
  ASSUME FilesInv, EffectInv, FileCommand, NextFileCall,
         todo # << >>, stage \in {"probe", "missing"}
  PROVE  EffectInv'
<1> DEFINE r == Head(calls)
<1>1. /\ CommandKept /\ ServeFile(r) /\ pc = "idle"
      /\ r \in FAT32DriverRequest
      /\ r.parent_cluster_number = ROOT_CLUSTER_NUMBER
      /\ r = calls[1] /\ 1 \in 1 .. Len(calls)
      /\ calls' = Tail(calls)
  BY ServedCall
<1>2. TodoOf /\ EffectSoFar(Listed(Root)) /\ ProbeStage
  BY DEF EffectInv
<1>3. ~Reads(ProbeFinds(command.name)) /\ ~Reads(ProbeFinds(dest))
  BY <1>1 DEF Reads
<1>4. \/ /\ stage = "probe" /\ r = ProbeOf(command.name)
         /\ calls' = <<ProbeOf(dest)>>
      \/ /\ stage = "probe" <=> ProbeFinds(command.name)
         /\ r = ProbeOf(dest) /\ calls' = << >>
  <2>1. \A x, y : Head(<<x, y>>) = x /\ Tail(<<x, y>>) = <<y>>
    OBVIOUS
  <2>2. \A x : Head(<<x>>) = x /\ Tail(<<x>>) = << >>
    OBVIOUS
  <2>3. calls # << >>
    BY DEF NextFileCall
  <2>4. CASE /\ stage = "probe"
             /\ calls = <<ProbeOf(command.name), ProbeOf(dest)>>
    BY <1>1, <2>1, <2>4
  <2>5. CASE /\ stage = "probe" <=> ProbeFinds(command.name)
             /\ calls = <<ProbeOf(dest)>>
    BY <1>1, <2>2, <2>5
  <2> QED
    BY <1>2, <1>3, <2>3, <2>4, <2>5 DEF ProbeStage
<1>5. \A n : r = ProbeOf(n) =>
        /\ r.op = "read" /\ r.name = n /\ r.ext = NoExt
        /\ r.buffer_size = ClusterSize
  BY DEF ProbeOf, FileRequest
<1> HIDE DEF r
<1>6. Root' = Root
  BY <1>1, <1>4, <1>5, ReadServed
<1>7. /\ TodoOf' /\ todo' = todo /\ stage' = stage
      /\ command' = command
      /\ \A n : ProbeOf(n)' = ProbeOf(n) /\ ProbeFinds(n)' = ProbeFinds(n)
  BY <1>1, <1>2, EffectKept DEF CommandKept
<1>8. EffectSoFar(Listed(Root))'
  BY <1>1, <1>2, <1>6, <1>7, EffectSame DEF Changed
<1>9. Listed(Root) = before.entries
  BY <1>2 DEF EffectSoFar, TodoOf, Copying, Changed
<1>10. ASSUME NEW n, r = ProbeOf(n)
       PROVE  \/ pc' = "chain" /\ ProbeFinds(n)
              \/ pc' = "return" /\ (code' = 0 <=> ProbeFinds(n))
  <2>1. Readable(Listed(Root), n, NoExt, ClusterSize) <=> ProbeFinds(n)
    BY <1>9 DEF Readable, ProbeFinds
  <2> QED
    BY <1>1, <1>5, <1>10, <2>1, ReadAnswers
<1>11. ProbeStage'
  <2>1. command'.op = "mv"
    BY <1>2, <1>7 DEF ProbeStage
  <2>2. dest' = dest
    BY <1>1 DEF CommandKept
  <2>3. /\ ProbeFinds(command.name)' = ProbeFinds(command.name)
        /\ ProbeFinds(dest)' = ProbeFinds(dest)
        /\ ProbeOf(dest)' = ProbeOf(dest)
    BY <1>7, <2>2 DEF ProbeFinds, ProbeOf, FileRequest
  <2>4. CASE /\ stage = "probe" /\ r = ProbeOf(command.name)
             /\ calls' = <<ProbeOf(dest)>>
    <3>1. Reads(ProbeFinds(command.name))'
      BY <1>10, <2>3, <2>4 DEF Reads
    <3> QED
      BY <1>7, <2>1, <2>3, <2>4, <3>1 DEF ProbeStage
  <2>5. CASE /\ stage = "probe" <=> ProbeFinds(command.name)
             /\ r = ProbeOf(dest) /\ calls' = << >>
    <3>1. Reads(ProbeFinds(dest))'
      BY <1>10, <2>3, <2>5 DEF Reads
    <3> QED
      BY <1>7, <2>1, <2>3, <2>5, <3>1 DEF ProbeStage
  <2> QED
    BY <1>4, <2>4, <2>5
<1> QED
  BY <1>7, <1>8, <1>11
     DEF EffectInv, Looking, ListStage, ReadStage, ChangeStage

LEMMA EffectLists ==
  ASSUME FilesInv, EffectInv, FileCommand, NextFileCall,
         todo # << >>, stage = "list"
  PROVE  EffectInv'
<1> DEFINE r == Head(calls)
<1>1. /\ CommandKept /\ ServeFile(r) /\ pc = "idle" /\ Parent(r) = Root
      /\ r = calls[1] /\ 1 \in 1 .. Len(calls)
      /\ \A i \in 1 .. Len(calls') : /\ i + 1 \in 1 .. Len(calls)
                                     /\ calls'[i] = calls[i + 1]
  BY ServedCall
<1>2. /\ TodoOf /\ EffectSoFar(Listed(Root)) /\ Starts
      /\ \A i \in 1 .. Len(calls) : calls[i] = ListCwd
  BY DEF EffectInv, ListStage
<1>3. /\ r.op = "read_directory" /\ r.name = RootName
      /\ r.buffer_size = ClusterSize
  BY <1>1, <1>2 DEF ListCwd, Listing, FilesInv, HereInv
<1> HIDE DEF r
<1>4. Root' = Root /\ pc' = "return" /\ table' = Root /\ code' = 0
  <2>1. Root' = Root
    BY <1>1, <1>3, ReadServed
  <2>2. ReadDirectory(r)
    BY <1>1, <1>3 DEF ServeFile, Serve
  <2>3. \E s \in Slots : /\ Root[s].name = r.name
                         /\ Root[s].attribute = ATTR_SUBDIRECTORY
    BY <1>1, <1>3, RootFacts, LayoutAssumption DEF IsRootTable, Slots
  <2> QED
    BY <1>1, <1>3, <2>1, <2>2, <2>3 DEF ReadDirectory, Answer
<1>5. /\ TodoOf' /\ todo' = todo /\ stage' = stage /\ Starts'
      /\ ListCwd' = ListCwd
  BY <1>1, <1>2, EffectKept DEF CommandKept
<1>6. EffectSoFar(Listed(Root))'
  BY <1>1, <1>2, <1>4, <1>5, EffectSame DEF Changed
<1>7. ListStage'
  <2>1. \A i \in 1 .. Len(calls') : calls'[i] = ListCwd'
    BY <1>1, <1>2, <1>5
  <2> QED
    BY <1>4, <1>5, <2>1 DEF ListStage
<1> QED
  BY <1>5, <1>6, <1>7
     DEF EffectInv, Looking, ProbeStage, ReadStage, ChangeStage

\* What the file that was found was in the directory.
LEMMA FileEntries ==
  ASSUME FilesInv, pc \notin {"off", "format"}, Begun(Listed(Root)),
         NEW s \in Slots, FileAt(before.entries, s)
  PROVE  /\ before.entries[s] = Line(Root[s]) /\ Root[s].name = command.name
         /\ Root[s].name # NoName
         /\ Root[s].ext = before.entries[s].ext
         /\ Root[s].filesize = before.entries[s].filesize
         /\ before.entries[s].filesize \in Nat
         /\ Root[s].attribute = Unset /\ before.entries[s].attribute = Unset
         /\ s # 0
<1>1. Listed(Root)[s] = before.entries[s]
  BY SlotOrder, NamedKept DEF FileAt
<1>2. Root[s] \in FAT32DirectoryEntry /\ IsRootTable(Root)
  BY RootFacts DEF FAT32DirectoryTable
<1>3. /\ before.entries[s].attribute # ATTR_SUBDIRECTORY
      /\ before.entries[s].name = command.name
      /\ before.entries[s].name # NoName
  BY SlotOrder DEF FileAt
<1> QED
  BY <1>1, <1>2, <1>3, ListedAt DEF FAT32DirectoryEntry, IsRootTable

LEMMA EffectReads ==
  ASSUME FilesInv, EffectInv, FileCommand, NextFileCall,
         todo # << >>, stage = "read"
  PROVE  EffectInv'
<1> DEFINE r == Head(calls)
           q == FileRequest("read", command.name, found.ext, found.filesize)
<1>1. /\ CommandKept /\ ServeFile(r) /\ pc = "idle"
      /\ r \in FAT32DriverRequest
      /\ r.parent_cluster_number = ROOT_CLUSTER_NUMBER
      /\ r = calls[1] /\ 1 \in 1 .. Len(calls)
      /\ \A i \in 1 .. Len(calls') : /\ i + 1 \in 1 .. Len(calls)
                                     /\ calls'[i] = calls[i + 1]
  BY ServedCall
<1>2. /\ TodoOf /\ EffectSoFar(Listed(Root)) /\ FileFound /\ Starts
      /\ \A i \in 1 .. Len(calls) : calls[i] = q
  BY DEF EffectInv, ReadStage
<1>3. /\ r.op = "read" /\ r.name = command.name /\ r.ext = found.ext
      /\ r.buffer_size = found.filesize
  BY <1>1, <1>2 DEF FileRequest
<1> HIDE DEF r, q
<1>4. Root' = Root
  BY <1>1, <1>3, ReadServed
<1>5. /\ TodoOf' /\ todo' = todo /\ stage' = stage /\ Starts' /\ FileFound'
      /\ SourceFound' = SourceFound /\ q' = q
  BY <1>1, <1>2, EffectKept DEF CommandKept, q
<1>6. EffectSoFar(Listed(Root))'
  BY <1>1, <1>2, <1>4, <1>5, EffectSame DEF Changed
<1>7. \/ pc' = "chain" /\ SourceFound
      \/ pc' = "return" /\ (code' = 0 <=> SourceFound)
  <2>1. Begun(Listed(Root))
    BY <1>2, EffectBegun DEF Changed
  <2>2. PICK s \in Slots : /\ FileAt(before.entries, s)
                           /\ found.ext = before.entries[s].ext
                           /\ found.filesize = before.entries[s].filesize
    BY <1>2 DEF FileFound
  <2>3. before.entries[s].filesize \in Nat
    BY <1>1, <2>1, <2>2, FileEntries
  <2>4. Readable(Listed(Root), r.name, r.ext, r.buffer_size) <=> IsSource(s)
    BY <1>3, <2>1, <2>2, <2>3, ReadsSource
  <2>5. IsSource(s) <=> SourceFound
    BY <2>2, SourceIsFile, OneFile DEF SourceFound
  <2> QED
    BY <1>1, <1>3, <2>4, <2>5, ReadAnswers
<1>8. ReadStage'
  <2>1. \A i \in 1 .. Len(calls') : calls'[i] = q'
    BY <1>1, <1>2, <1>5
  <2>2. Reads(SourceFound)'
    BY <1>5, <1>7 DEF Reads
  <2> QED
    BY <1>5, <2>1, <2>2 DEF ReadStage, q
<1> QED
  BY <1>5, <1>6, <1>8
     DEF EffectInv, Looking, ProbeStage, ListStage, ChangeStage


LEMMA EffectCopies ==
  ASSUME FilesInv, EffectInv, FileCommand, NextFileCall,
         Copying, stage = "change"
  PROVE  EffectInv'
<1> DEFINE r == Head(calls)
<1>1. /\ CommandKept /\ ServeFile(r) /\ pc = "idle" /\ Parent(r) = Root
      /\ r = calls[1] /\ 1 \in 1 .. Len(calls)
      /\ \A i \in 1 .. Len(calls') : /\ i + 1 \in 1 .. Len(calls)
                                     /\ calls'[i] = calls[i + 1]
      /\ r \in FAT32DriverRequest
      /\ r.parent_cluster_number = ROOT_CLUSTER_NUMBER
  BY ServedCall
<1>2. todo # << >> /\ ~Removing /\ Head(todo) = "cp"
  BY TodoFacts DEF Copying, Removing
<1>3. /\ TodoOf /\ SourceFound /\ Starts /\ EffectSoFar(Listed(Root))
      /\ \A i \in 1 .. Len(calls) : calls[i] = Change
  BY <1>2 DEF EffectInv, ChangeStage
<1>4. /\ Listed(Root) = before.entries
      /\ command.op \in {"cp", "mv"}
  BY <1>1, <1>3, TodoFacts
     DEF EffectSoFar, Changed, TodoOf, FileCommand, Copying
<1>5. /\ r = Change /\ r.op = "write" /\ r.name = dest /\ r.ext = found.ext
      /\ r.buffer_size = found.filesize
  BY <1>1, <1>2, <1>3 DEF Change, FileRequest
<1> HIDE DEF r
<1>6. /\ TodoOf' /\ todo' = todo /\ stage' = stage /\ SourceFound' /\ Starts'
      /\ Copying' /\ ~Removing' /\ Change' = Change /\ dest' = dest
      /\ found' = found
  BY <1>1, <1>2, <1>3, EffectKept DEF CommandKept
<1>7. \A i \in 1 .. Len(calls') : calls'[i] = Change'
  BY <1>1, <1>3, <1>6
<1>8. Looking' /\ ProbeStage' /\ ListStage' /\ ReadStage'
  BY <1>2, <1>6 DEF Looking, ProbeStage, ListStage, ReadStage
<1>9. PICK s \in Slots : /\ IsSource(s)
                         /\ found.ext = before.entries[s].ext
                         /\ found.filesize = before.entries[s].filesize
  BY <1>3 DEF SourceFound
<1>10. found.ext = Listed(Root)[s].ext
  BY <1>4, <1>9
<1>11. CASE WriteRefused(r)
  <2>1. \E c : Answer(r, c)
    BY <1>11 DEF WriteRefused
  <2>2. Root' = Root /\ pc' = "return"
    BY <2>1, RootQuiet DEF Answer
  <2>3. Duplicate(Listed(Root), r)
    BY <1>1, <1>11, RootFacts, DuplicateListed DEF WriteRefused, IsRootTable
  <2>4. CopyDone(Listed(Root))
    BY <1>4, <1>5, <1>9, <1>10, <2>3, CopyRefused
  <2>5. EffectSoFar(Listed(Root))'
    BY <1>1, <1>2, <1>6, <2>2, <2>4, EffectAfter DEF Changed
  <2>6. ChangeStage'
    BY <1>6, <1>7, <2>2 DEF ChangeStage
  <2> QED
    BY <1>6, <1>8, <2>5, <2>6 DEF EffectInv
<1>12. CASE r.buffer_size > 0 /\ WriteFile(r)
  <2>1. /\ Root' = Root /\ pc' = "alloc" /\ req' = r /\ ~Duplicate(Root, r)
        /\ Listed(table') = Listed(Root)
    BY <1>1, <1>12, RootWriteFile
  <2>2. EffectSoFar(Listed(Root))'
    BY <1>1, <1>2, <1>4, <2>1, EffectAfter DEF Changed
  <2>3. /\ Listed(table)' = Listed(Root)'
        /\ ~Duplicate(table', req')
    <3>1. Listed(table)' = Listed(table')
      BY DEF Listed, Line
    <3> QED
      BY <2>1, <3>1, SameListing, DuplicateListed
  <2>4. ~Duplicate(table, req)'
    BY <2>3 DEF Duplicate
  <2>5. ChangeStage'
    BY <1>5, <1>6, <1>7, <1>12, <2>1, <2>3, <2>4 DEF ChangeStage
  <2> QED
    BY <1>6, <1>8, <2>2, <2>5 DEF EffectInv
<1>13. CASE r.buffer_size = 0 /\ \E index \in Clusters : WriteFolder(r, index)
  <2>1. PICK index \in Clusters : WriteFolder(r, index)
    BY <1>13
  <2>2. /\ pc' = "flush" /\ ~Duplicate(Root, r)
        /\ Listed(Root') = WithLine(Listed(Root), Line(FolderEntry(r, index)))
    BY <1>1, <2>1, RootWriteFolder
  <2>3. Line(FolderEntry(r, index)) = Copy(s)
    BY <1>5, <1>9, <1>13 DEF Line, FolderEntry, Copy
  <2>4. CopyDone(Listed(Root'))
    BY <1>3, <1>4, <1>5, <1>9, <1>10, <2>2, <2>3, CopyStored, DuplicateListed
  <2>5. EffectSoFar(Listed(Root))'
    <3>1. Changed'
      BY <1>6, <2>2 DEF Changed
    <3> QED
      BY <1>1, <1>2, <2>4, <3>1, EffectAfter
  <2>6. ChangeStage'
    BY <1>6, <1>7, <2>2 DEF ChangeStage
  <2> QED
    BY <1>6, <1>8, <2>5, <2>6 DEF EffectInv
<1> QED
  BY <1>1, <1>5, <1>11, <1>12, <1>13 DEF ServeFile, Serve

\* delete stops at the entry that read found.
LEMMA DeletesSource ==
  ASSUME FilesInv, pc = "idle", CopyDone(Listed(Root)),
         NEW s \in Slots, IsSource(s),
         NEW r, r.name = command.name, r.ext = before.entries[s].ext
  PROVE  /\ Deletable(Root, r, s)
         /\ \A q \in Slots : IsFirstDeletable(Root, r, q) => q = s
         /\ ~IsNotEmptyFolder(Root[s])
<1>1. /\ FileAt(before.entries, s)
      /\ \A q \in Slots : q < s => \/ before.entries[q].name # command.name
                                   \/ before.entries[q].ext # r.ext
  BY SourceIsFile
<1>2. /\ Root[s].name = command.name /\ Root[s].name # NoName
      /\ Root[s].ext = r.ext /\ Root[s].attribute = Unset /\ s # 0
  BY <1>1, FileEntries DEF Begun
<1>3. Root[s].undelete = 1
  BY <1>2 DEF FilesInv, HereInv, Undeleted
<1>4. Deletable(Root, r, s)
  BY <1>2, <1>3 DEF Deletable
<1>5. ASSUME NEW q \in Slots, q < s
      PROVE  ~Deletable(Root, r, q)
  <2>1. Listed(Root)[q] = before.entries[q]
    BY <1>1, <1>5, SlotOrder, NamedKept DEF FileAt, Begun
  <2> QED
    BY <1>1, <1>5, <2>1, ListedAt DEF Deletable
<1>6. ASSUME NEW q \in Slots, IsFirstDeletable(Root, r, q)
      PROVE  q = s
  BY <1>4, <1>5, <1>6, SlotOrder DEF IsFirstDeletable
<1>7. ~IsNotEmptyFolder(Root[s])
  BY <1>2 DEF IsNotEmptyFolder, Unset, ATTR_SUBDIRECTORY
<1> QED
  BY <1>4, <1>6, <1>7

LEMMA EffectRemoves ==
  ASSUME FilesInv, EffectInv, FileCommand, NextFileCall,
         Removing, stage = "change"
  PROVE  EffectInv'
<1> DEFINE r == Head(calls)
<1>1. /\ CommandKept /\ ServeFile(r) /\ pc = "idle" /\ Parent(r) = Root
      /\ r = calls[1] /\ 1 \in 1 .. Len(calls)
      /\ \A i \in 1 .. Len(calls') : /\ i + 1 \in 1 .. Len(calls)
                                     /\ calls'[i] = calls[i + 1]
      /\ r \in FAT32DriverRequest
      /\ r.parent_cluster_number = ROOT_CLUSTER_NUMBER
  BY ServedCall
<1>2. todo # << >> /\ ~Copying /\ Head(todo) # "cp"
  BY TodoFacts DEF Copying, Removing
<1>3. /\ TodoOf /\ SourceFound /\ Starts /\ EffectSoFar(Listed(Root))
      /\ \A i \in 1 .. Len(calls) : calls[i] = Change
  BY <1>1, <1>2 DEF EffectInv, ChangeStage
<1>4. /\ CopyDone(Listed(Root))
      /\ command.op \in {"rm", "mv"}
  BY <1>1, <1>3, TodoFacts
     DEF EffectSoFar, Changed, TodoOf, FileCommand, Removing
<1>5. /\ r.op = "delete" /\ r.name = command.name /\ r.ext = found.ext
  BY <1>1, <1>2, <1>3 DEF Change, FileRequest
<1> HIDE DEF r
<1>6. /\ TodoOf' /\ todo' = todo /\ stage' = stage /\ SourceFound' /\ Starts'
      /\ Removing' /\ ~Copying' /\ Change' = Change
  BY <1>1, <1>2, <1>3, EffectKept DEF CommandKept
<1>7. \A i \in 1 .. Len(calls') : calls'[i] = Change'
  BY <1>1, <1>3, <1>6
<1>8. Looking' /\ ProbeStage' /\ ListStage' /\ ReadStage'
  BY <1>2, <1>6 DEF Looking, ProbeStage, ListStage, ReadStage
<1>9. PICK s \in Slots : IsSource(s) /\ found.ext = before.entries[s].ext
  BY <1>3 DEF SourceFound
<1>10. /\ Deletable(Root, r, s) /\ ~IsNotEmptyFolder(Root[s])
       /\ \A q \in Slots : IsFirstDeletable(Root, r, q) => q = s
  BY <1>1, <1>4, <1>5, <1>9, DeletesSource
<1>11. Root[0].attribute = ATTR_SUBDIRECTORY
  BY <1>1, RootFacts DEF IsRootTable
<1>12. ~DeleteRefused(r)
  BY <1>1, <1>10, <1>11 DEF DeleteRefused
<1>13. Delete(r)
  BY <1>1, <1>5, <1>12 DEF ServeFile, Serve
<1>14. /\ Root' = Root /\ pc' = "walk"
       /\ Listed(table') = Without(Listed(Root), s)
  BY <1>1, <1>10, <1>13, RootDelete
<1>15. Effect(Listed(table'))
  BY <1>3, <1>4, <1>9, <1>14, SourceTaken
<1>16. Effect(Listed(table))'
  <2>1. \A S : Effect(S)' = Effect(S)
    BY <1>1, EffectKept
  <2>2. Listed(table)' = Listed(table')
    BY DEF Listed, Line
  <2> QED
    BY <1>15, <2>1, <2>2 DEF Effect
<1>17. EffectSoFar(Listed(Root))'
  BY <1>1, <1>2, <1>4, <1>14, EffectAfter DEF Changed
<1>18. ChangeStage'
  BY <1>6, <1>7, <1>14, <1>16 DEF ChangeStage
<1> QED
  BY <1>6, <1>8, <1>17, <1>18 DEF EffectInv

LEMMA EffectNextCall ==
  ASSUME FilesInv, EffectInv, FileCommand, NextFileCall
  PROVE  EffectInv'
<1>1. TodoOf /\ stage \in {"probe", "missing", "list", "read", "change"}
  BY DEF EffectInv, FilesInv, FilesTypeInv, FilesTypeOK
<1>2. todo = << >> \/ Copying \/ Removing
  BY <1>1 DEF FileCommand, TodoOf, Copying, Removing
<1> QED
  BY <1>1, <1>2, EffectLooks, EffectProbed, EffectLists, EffectReads,
     EffectCopies, EffectRemoves


\* A call has returned, and the command goes on or is over.

LEMMA CommandOver ==
  ASSUME Goes(<< >>)
  PROVE  EffectInv'
BY DEF Goes, NoCommand, EffectInv, FileCommand

\* No step between two calls changes the directory.
LEMMA EffectBetween ==
  ASSUME FilesInv, NEW q, Goes(q), q # << >>, stage # "change",
         stage' # "change", EffectSoFar(Listed(Root)),
         UNCHANGED <<cwd, dest, before, todo>>
  PROVE  /\ EffectSoFar(Listed(Root))' /\ Root' = Root /\ command' = command
         /\ pc = "return" /\ pc' = "idle" /\ calls' = q /\ Starts' = Starts
         /\ ListCwd' = ListCwd
         /\ \A n : ProbeOf(n)' = ProbeOf(n) /\ ProbeFinds(n)' = ProbeFinds(n)
<1>1. /\ Return /\ command' = command /\ calls' = q
      /\ pc = "return" /\ pc' = "idle"
  BY DEF Goes, Return
<1>2. Root' = Root
  BY <1>1, RootQuiet
<1>3. ~Changed /\ ~Changed' /\ Copying' = Copying /\ Removing' = Removing
  BY <1>1 DEF Changed, Copying, Removing
<1>4. Listed(Root)' = Listed(Root)
  BY <1>2, SameListing
<1>5. CopyDone(Listed(Root))' = CopyDone(Listed(Root))
  <2>1. PICK S : S = Listed(Root)
    OBVIOUS
  <2>2. CopyDone(S)' = CopyDone(S)
    BY <1>1, EffectTypedOnce
  <2> QED
    BY <1>4, <2>1, <2>2 DEF CopyDone
<1>6. EffectSoFar(Listed(Root))'
  BY <1>3, <1>4, <1>5 DEF EffectSoFar
<1>7. /\ Starts' = Starts
      /\ \A n : ProbeFinds(n)' = ProbeFinds(n)
  BY <1>1, EffectTypedOnce
<1>8. ListCwd' = ListCwd /\ \A n : ProbeOf(n)' = ProbeOf(n)
  BY DEF ListCwd, Listing, ProbeOf, FileRequest
<1> QED
  BY <1>1, <1>2, <1>6, <1>7, <1>8

\* A routine that is over has done what it can.
RoutineDone ==
  /\ Copying => CopyDone(Listed(Root))
  /\ Removing => Effect(Listed(Root))

LEMMA NoSourceDone ==
  ASSUME EffectSoFar(Listed(Root)), ~Changed,
         \A s \in Slots : ~IsSource(s)
  PROVE  RoutineDone
BY NoCopy, NothingGone DEF EffectSoFar, RoutineDone

\* The command finds the file that it looks for.
LEMMA ListingFinds ==
  ASSUME FilesInv, EffectInv, FileCommand, ListReturns
  PROVE  /\ todo # << >> /\ stage = "list" /\ pc = "return" /\ code = 0
         /\ table = Root /\ Begun(Listed(Root)) /\ Starts /\ ~Changed
         /\ \A s \in Slots : IsFoundAt(s) <=> FileAt(before.entries, s)
<1>1. todo # << >> /\ stage = "list" /\ pc = "return"
  BY DEF ListReturns, GoesOn, RoutineEnds, Goes, Return
<1>2. code = 0 /\ table = Root /\ Starts /\ ~Changed
  BY <1>1 DEF EffectInv, ListStage, Changed
<1>3. Begun(Listed(Root))
  BY <1>2, EffectBegun DEF EffectInv
<1>4. ASSUME NEW s \in Slots
      PROVE  IsFoundAt(s) <=> FileAt(Listed(Root), s)
  BY <1>2, ListedAt DEF IsFoundAt, FileAt
<1> QED
  BY <1>1, <1>2, <1>3, <1>4, FileKept

LEMMA ListDone ==
  ASSUME FilesInv, EffectInv, FileCommand, ListReturns, RoutineEnds
  PROVE  RoutineDone
<1>1. stage' = "list"
  BY DEF RoutineEnds
<1>2. \A s \in Slots : ~IsFoundAt(s)
  <2>1. code = 0
    BY ListingFinds
  <2>2. ~GoesOn("read", FileRequest("read", command.name, found'.ext,
                                    found'.filesize))
    BY <1>1 DEF GoesOn
  <2> QED
    BY <2>1, <2>2 DEF ListReturns
<1>3. \A s \in Slots : ~IsSource(s)
  BY <1>2, ListingFinds, SourceIsFile
<1> QED
  BY <1>3, ListingFinds, NoSourceDone DEF EffectInv

LEMMA ReadDone ==
  ASSUME FilesInv, EffectInv, FileCommand, ReadReturns, RoutineEnds
  PROVE  RoutineDone
<1>1. todo # << >> /\ stage = "read" /\ pc = "return" /\ code # 0
  BY DEF ReadReturns, GoesOn, RoutineEnds, Goes, Return
<1>2. /\ EffectSoFar(Listed(Root)) /\ FileFound /\ ~SourceFound /\ ~Changed
  BY <1>1 DEF EffectInv, ReadStage, Reads, Changed
<1>3. PICK s \in Slots : /\ FileAt(before.entries, s)
                         /\ found.ext = before.entries[s].ext
                         /\ found.filesize = before.entries[s].filesize
  BY <1>2 DEF FileFound
<1>4. \A q \in Slots : ~IsSource(q)
  BY <1>2, <1>3, SourceIsFile, OneFile DEF SourceFound
<1> QED
  BY <1>2, <1>4, NoSourceDone

LEMMA ChangeDone ==
  ASSUME FilesInv, EffectInv, FileCommand, ChangeReturns
  PROVE  RoutineDone
<1>1. stage = "change" /\ pc = "return"
  BY DEF ChangeReturns, RoutineEnds, Goes, Return
<1> QED
  BY <1>1 DEF EffectInv, EffectSoFar, RoutineDone, Changed

LEMMA EffectRoutineEnds ==
  ASSUME FilesInv, EffectInv, FileCommand, RoutineEnds, todo # << >>,
         RoutineDone, stage \in {"list", "read", "change"},
         UNCHANGED <<cwd, dest, before>>
  PROVE  EffectInv'
<1>1. CASE todo' = << >>
  BY <1>1, CommandOver DEF RoutineEnds
<1>2. CASE todo' # << >>
  <2>1. TodoOf /\ EffectSoFar(Listed(Root)) /\ Starts
    BY DEF EffectInv, ListStage, ReadStage, ChangeStage
  <2>2. todo = <<"cp", "rm">> /\ todo' = <<"rm">>
    BY <1>2, <2>1, TodoFacts DEF RoutineEnds, FileCommand, TodoOf
  <2>3. /\ Goes(<<ListCwd>>) /\ stage' = "list"
        /\ command.op = "mv"
    BY <1>2, <2>1, <2>2, TodoFacts DEF RoutineEnds, TodoOf, FileCommand
  <2>4. /\ Return /\ command' = command /\ calls' = <<ListCwd>>
        /\ pc' = "idle"
    BY <2>3 DEF Goes, Return
  <2>5. Root' = Root
    BY <2>4, RootQuiet
  <2>6. Copying /\ ~Copying' /\ Removing' /\ ~Changed'
    BY <2>2, <2>3, TodoFacts DEF Copying, Removing, Changed
  <2>7. TodoOf'
    BY <2>2, <2>3, <2>4 DEF TodoOf
  <2>8. EffectSoFar(Listed(Root))'
    <3>1. PICK S : S = Listed(Root) /\ CopyDone(S)
      BY <2>6 DEF RoutineDone
    <3>2. CopyDone(S)' = CopyDone(S)
      BY <2>4, EffectTypedOnce
    <3>3. Listed(Root)' = S
      BY <2>5, <3>1, SameListing
    <3>4. CopyDone(Listed(Root))'
      BY <3>1, <3>2, <3>3 DEF CopyDone
    <3> QED
      BY <2>2, <2>6, <3>4, TodoFacts DEF EffectSoFar
  <2>9. ListStage'
    <3>1. ListCwd' = ListCwd
      BY DEF ListCwd, Listing
    <3>2. \A i \in 1 .. Len(calls') : calls'[i] = ListCwd
      BY <2>4
    <3>3. Starts'
      BY <2>1, <2>4, EffectTypedOnce
    <3> QED
      BY <2>4, <3>1, <3>2, <3>3 DEF ListStage
  <2> QED
    BY <2>2, <2>3, <2>7, <2>8, <2>9, TodoFacts
       DEF EffectInv, Looking, ProbeStage, ReadStage, ChangeStage
<1> QED
  BY <1>1, <1>2

LEMMA EffectProbes ==
  ASSUME FilesInv, EffectInv, FileCommand,
         ProbeReturns, UNCHANGED <<cwd, dest, before>>
  PROVE  EffectInv'
<1>1. /\ TodoOf /\ EffectSoFar(Listed(Root)) /\ ProbeStage
      /\ stage \in {"probe", "missing"} /\ todo = <<"cp", "rm">>
      /\ todo # << >>
  BY TodoFacts DEF EffectInv, TodoOf, ProbeReturns
<1>2. pc = "return"
  BY DEF ProbeReturns, GoesOn, Goes, Return
<1>3. \/ /\ stage = "probe" /\ calls = <<ProbeOf(dest)>>
         /\ code = 0 <=> ProbeFinds(command.name)
      \/ /\ calls = << >> /\ (code = 0 <=> ProbeFinds(dest))
         /\ stage = "probe" <=> ProbeFinds(command.name)
  BY <1>1, <1>2 DEF ProbeStage, Reads
<1>4. CASE calls # << >>
  <2>1. /\ Goes(calls) /\ UNCHANGED todo
        /\ stage' = IF code = 0 THEN "probe" ELSE "missing"
    BY <1>4 DEF ProbeReturns
  <2>2. /\ EffectSoFar(Listed(Root))' /\ command' = command /\ pc' = "idle"
        /\ calls' = calls
        /\ \A n : ProbeOf(n)' = ProbeOf(n) /\ ProbeFinds(n)' = ProbeFinds(n)
    BY <1>1, <1>4, <2>1, EffectBetween
  <2>3. TodoOf'
    BY <1>1, <2>1, <2>2 DEF TodoOf
  <2>4. ProbeStage'
    <3>1. dest' = dest
      OBVIOUS
    <3>2. /\ ProbeFinds(command.name)' = ProbeFinds(command.name)
          /\ ProbeOf(dest)' = ProbeOf(dest)
      BY <2>2, <3>1 DEF ProbeFinds, ProbeOf, FileRequest
    <3>3. /\ calls' = <<ProbeOf(dest)>>
          /\ stage' = "probe" <=> ProbeFinds(command.name)
      BY <1>3, <1>4, <2>1, <2>2
    <3>4. command.op = "mv"
      BY <1>1 DEF ProbeStage
    <3> QED
      BY <2>2, <3>2, <3>3, <3>4 DEF ProbeStage
  <2> QED
    BY <1>1, <2>1, <2>2, <2>3, <2>4
       DEF EffectInv, Looking, ListStage, ReadStage, ChangeStage
<1>5. CASE calls = << >> /\ stage = "probe" /\ code = 0
  <2>1. Goes(<<ListCwd>>) /\ stage' = "list" /\ UNCHANGED todo
    BY <1>5 DEF ProbeReturns, GoesOn
  <2>2. <<ListCwd>> # << >>
    OBVIOUS
  <2>3. /\ EffectSoFar(Listed(Root))' /\ command' = command /\ pc' = "idle"
        /\ calls' = <<ListCwd>> /\ Starts' = Starts /\ ListCwd' = ListCwd
    BY <1>1, <2>1, <2>2, EffectBetween
  <2>4. TodoOf'
    BY <1>1, <2>1, <2>3 DEF TodoOf
  <2>5. Starts
    BY <1>3, <1>5 DEF Starts
  <2>6. ListStage'
    <3>1. \A i \in 1 .. Len(calls') : calls'[i] = ListCwd
      BY <2>3
    <3> QED
      BY <2>3, <2>5, <3>1 DEF ListStage
  <2> QED
    BY <1>1, <2>1, <2>3, <2>4, <2>6
       DEF EffectInv, Looking, ProbeStage, ReadStage, ChangeStage
<1>6. CASE calls = << >> /\ ~(stage = "probe" /\ code = 0)
  BY <1>6, CommandOver DEF ProbeReturns
<1> QED
  BY <1>4, <1>5, <1>6

LEMMA EffectListed ==
  ASSUME FilesInv, EffectInv, FileCommand,
         ListReturns, UNCHANGED <<cwd, dest, before>>
  PROVE  EffectInv'
<1>1. /\ TodoOf /\ EffectSoFar(Listed(Root)) /\ todo # << >> /\ stage = "list"
  BY DEF EffectInv, ListReturns
<1>2. CASE RoutineEnds
  BY <1>1, <1>2, ListDone, EffectRoutineEnds
<1>3. ASSUME code = 0, NEW s \in Slots, IsFoundAt(s),
             found' = [ext |-> table[s].ext, filesize |-> table[s].filesize],
             GoesOn("read", FileRequest("read", command.name, found'.ext,
                                        found'.filesize))
      PROVE  EffectInv'
  <2> DEFINE q == FileRequest("read", command.name, found'.ext,
                              found'.filesize)
  <2>1. Goes(<<q>>) /\ stage' = "read" /\ UNCHANGED todo
    BY <1>3 DEF GoesOn
  <2>2. <<q>> # << >>
    OBVIOUS
  <2>3. /\ EffectSoFar(Listed(Root))' /\ command' = command /\ pc' = "idle"
        /\ calls' = <<q>> /\ pc = "return" /\ Starts' = Starts
    BY <1>1, <2>1, <2>2, EffectBetween
  <2>4. TodoOf'
    BY <1>1, <2>1, <2>3 DEF TodoOf
  <2>5. /\ table = Root /\ Starts /\ FileAt(before.entries, s)
        /\ Begun(Listed(Root))
    BY <1>3, ListingFinds
  <2>6. /\ found'.ext = before.entries[s].ext
        /\ found'.filesize = before.entries[s].filesize
    BY <1>3, <2>3, <2>5, FileEntries
  <2>7. FileFound'
    BY <2>3, <2>5, <2>6 DEF FileFound, FileAt
  <2>8. ReadStage'
    <3>1. q = FileRequest("read", command.name, found.ext, found.filesize)'
      BY <2>3 DEF FileRequest
    <3> HIDE DEF q
    <3>2. \A i \in 1 .. Len(calls') : calls'[i] = q
      BY <2>3
    <3> QED
      BY <2>3, <2>5, <2>7, <3>1, <3>2 DEF ReadStage
  <2> QED
    BY <1>1, <2>1, <2>3, <2>4, <2>8
       DEF EffectInv, Looking, ProbeStage, ListStage, ChangeStage
<1> QED
  BY <1>2, <1>3 DEF ListReturns

LEMMA EffectRead ==
  ASSUME FilesInv, EffectInv, FileCommand,
         ReadReturns, UNCHANGED <<cwd, dest, before>>
  PROVE  EffectInv'
<1>1. /\ TodoOf /\ EffectSoFar(Listed(Root)) /\ ReadStage
      /\ todo # << >> /\ stage = "read"
  BY DEF EffectInv, ReadReturns
<1>2. CASE RoutineEnds
  BY <1>1, <1>2, ReadDone, EffectRoutineEnds
<1>3. CASE code = 0 /\ GoesOn("change", Change)
  <2>1. /\ Goes(<<Change>>) /\ stage' = "change"
        /\ UNCHANGED <<todo, found>>
    BY <1>3 DEF GoesOn, ReadReturns
  <2>2. /\ Return /\ command' = command /\ calls' = <<Change>>
        /\ pc = "return" /\ pc' = "idle"
    BY <2>1 DEF Goes, Return
  <2>3. TodoOf'
    BY <1>1, <2>1, <2>2 DEF TodoOf
  <2>4. Change' = Change
    BY <2>1, <2>2 DEF Change, FileRequest
  <2>5. Starts /\ SourceFound
    BY <1>1, <1>3, <2>2 DEF ReadStage, Reads
  <2>6. Starts' /\ SourceFound'
    BY <2>1, <2>2, <2>5, EffectTypedOnce DEF SourceFound
  <2>7. EffectSoFar(Listed(Root))'
    <3>1. ~Changed /\ ~Changed' /\ Copying' = Copying /\ Removing' = Removing
      BY <1>1, <2>1, <2>2 DEF Changed, Copying, Removing
    <3>2. Listed(Root)' = Listed(Root)
      BY <2>2, RootQuiet, SameListing
    <3>3. CopyDone(Listed(Root))' = CopyDone(Listed(Root))
      <4>1. PICK S : S = Listed(Root)
        OBVIOUS
      <4>2. CopyDone(S)' = CopyDone(S)
        BY <2>2, EffectTypedOnce
      <4> QED
        BY <3>2, <4>1, <4>2 DEF CopyDone
    <3> QED
      BY <1>1, <2>1, <3>1, <3>2, <3>3 DEF EffectSoFar
  <2>8. ChangeStage'
    <3>1. \A i \in 1 .. Len(calls') : calls'[i] = Change'
      BY <2>2, <2>4
    <3> QED
      BY <2>2, <2>6, <3>1 DEF ChangeStage
  <2> QED
    BY <1>1, <2>1, <2>2, <2>3, <2>7, <2>8
       DEF EffectInv, Looking, ProbeStage, ListStage, ReadStage
<1> QED
  BY <1>2, <1>3 DEF ReadReturns

LEMMA EffectReturns ==
  ASSUME FilesInv, EffectInv, FileCommand, FileReturns
  PROVE  EffectInv'
<1>1. UNCHANGED <<cwd, dest, before>>
  BY DEF FileReturns
<1>2. CASE ProbeReturns
  BY <1>1, <1>2, EffectProbes
<1>3. CASE ListReturns
  BY <1>1, <1>3, EffectListed
<1>4. CASE ReadReturns
  BY <1>1, <1>4, EffectRead
<1>5. CASE ChangeReturns
  BY <1>1, <1>5, ChangeDone, EffectRoutineEnds DEF ChangeReturns
<1>6. CASE NothingReturns
  <2>1. /\ TodoOf /\ EffectSoFar(Listed(Root)) /\ Looking /\ todo = << >>
        /\ Goes(calls) /\ UNCHANGED <<todo, stage>>
    BY <1>6 DEF EffectInv, NothingReturns
  <2>2. CASE calls = << >>
    BY <2>1, <2>2, CommandOver
  <2>3. CASE calls # << >>
    <3>1. /\ command' = command /\ calls' = calls /\ Return
          /\ pc' = "idle"
      BY <2>1, <2>3 DEF Goes, Return
    <3>2. Listed(Root)' = Listed(Root)
      BY <3>1, RootQuiet, SameListing
    <3>3. EffectSoFar(Listed(Root))'
      BY <1>1, <2>1, <3>2, TodoFacts DEF EffectSoFar, Copying, Removing
    <3>4. TodoOf'
      BY <2>1, <3>1 DEF TodoOf
    <3>5. Looking'
      BY <2>1, <3>1 DEF Looking, CallsAre
    <3> QED
      BY <2>1, <3>3, <3>4, <3>5
         DEF EffectInv, ProbeStage, ListStage, ReadStage, ChangeStage
  <2> QED
    BY <2>2, <2>3
<1> QED
  BY <1>2, <1>3, <1>4, <1>5, <1>6 DEF FileReturns


\* The clusters in which the copy is placed are those that were free.

LEMMA FreeFinite ==
  ASSUME NEW m, NEW S \in SUBSET FreeClusters(m)
  PROVE  /\ IsFiniteSet(S) /\ Cardinality(S) \in Nat
         /\ Cardinality(S) =< Cardinality(FreeClusters(m))
         /\ Cardinality(FreeClusters(m)) \in Nat
<1>1. IsFiniteSet(Clusters)
  BY FS_Interval, LayoutAssumption DEF Clusters
<1>2. IsFiniteSet(FreeClusters(m))
  BY <1>1, FS_Subset DEF FreeClusters
<1>3. IsFiniteSet(S) /\ Cardinality(S) =< Cardinality(FreeClusters(m))
  BY <1>2, FS_Subset
<1> QED
  BY <1>2, <1>3, FS_CardinalityType

LEMMA LargerProduct ==
  ASSUME NEW a \in Nat, NEW b \in Nat, NEW c \in Nat, a =< b
  PROVE  a * c =< b * c
<1>1. PICK d \in Nat : b = a + d
  <2>1. b - a \in Nat /\ b = a + (b - a)
    OBVIOUS
  <2> QED
    BY <2>1
<1>2. b * c = a * c + d * c
  BY <1>1
<1>3. d * c \in Nat /\ a * c \in Nat
  OBVIOUS
<1> QED
  BY <1>2, <1>3

LEMMA OneMore ==
  ASSUME NEW n \in Nat, NEW c \in Nat
  PROVE  (n + 1) * c = n * c + c /\ n * c \in Nat
OBVIOUS

LEMMA SizeFits ==
  ASSUME FilesInv, CountInv, FileCommand, Copying, ~Changed, pc = "alloc",
         NEW size, NEW want, req.buffer_size = want,
         \/ size = 0 /\ DiskFull
         \/ /\ size = req.buffer_size
            /\ \E i \in Clusters : AllocateLastCluster(i)
  PROVE  size = IF want =< before.free * ClusterSize THEN want ELSE 0
<1> DEFINE n    == Cardinality(PassedClusters)
           free == Cardinality(FreeClusters(DiskFat))
<1>1. /\ before.free = free /\ counter = n + 1 /\ left > 0
      /\ left = want - (counter - 1) * ClusterSize
      /\ \A c \in Clusters : c >= cur => fat[c] = DiskFat[c]
      /\ cur \in Nat /\ cur >= 3
  BY DEF CountInv
<1>2. /\ want \in Nat /\ left \in Int /\ ClusterSize \in Nat
      /\ req.buffer_size = want
  BY LayoutAssumption
     DEF FilesInv, SafeInv, TypeInv, TypeOK, FAT32DriverRequest
<1>3. PassedClusters \in SUBSET FreeClusters(DiskFat)
  BY DEF PassedClusters
<1>4. n \in Nat /\ free \in Nat /\ IsFiniteSet(PassedClusters)
  BY <1>3, FreeFinite
<1> HIDE DEF n, free
<1>5. /\ n * ClusterSize \in Nat
      /\ want = left + n * ClusterSize
  <2>1. counter - 1 = n
    BY <1>1, <1>4
  <2>2. n * ClusterSize \in Nat
    BY <1>2, <1>4, OneMore
  <2> QED
    BY <1>1, <1>2, <2>1, <2>2
<1>6. ASSUME NEW i \in Clusters, AllocateLastCluster(i)
      PROVE  want =< free * ClusterSize
  <2>1. IsFirstFree(fat, cur, i) /\ left =< ClusterSize
    BY <1>6 DEF AllocateLastCluster, PlaceData
  <2>2. i \in FreeClusters(DiskFat) \ PassedClusters
    BY <1>1, <2>1, ClusterFacts
       DEF IsFirstFree, FreeClusters, PassedClusters
  <2>3. Cardinality(PassedClusters \cup {i}) = n + 1
    BY <1>4, <2>2, FS_AddElement DEF n
  <2>4. n + 1 =< free
    <3>1. PassedClusters \cup {i} \in SUBSET FreeClusters(DiskFat)
      BY <1>3, <2>2
    <3> QED
      BY <2>3, <3>1, FreeFinite DEF free
  <2>5. (n + 1) * ClusterSize =< free * ClusterSize
    BY <1>2, <1>4, <2>4, LargerProduct
  <2>6. (n + 1) * ClusterSize = n * ClusterSize + ClusterSize
    BY <1>2, <1>4, OneMore
  <2>7. free * ClusterSize \in Nat
    BY <1>2, <1>4, OneMore
  <2> QED
    BY <1>2, <1>5, <2>1, <2>5, <2>6, <2>7
<1>7. ASSUME DiskFull
      PROVE  ~(want =< free * ClusterSize)
  <2>1. NoneFree(fat, cur)
    BY <1>7 DEF DiskFull
  <2>2. PassedClusters = FreeClusters(DiskFat)
    <3>1. ASSUME NEW c \in FreeClusters(DiskFat)
          PROVE  c < cur
      <4>1. c \in Clusters /\ c \in Nat /\ DiskFat[c] = 0
        BY ClusterFacts DEF FreeClusters
      <4> QED
        BY <1>1, <2>1, <4>1 DEF NoneFree
    <3> QED
      BY <3>1 DEF PassedClusters
  <2>3. free = n
    BY <2>2 DEF n, free
  <2> QED
    BY <1>1, <1>2, <1>5, <2>3
<1> QED
  BY <1>1, <1>2, <1>6, <1>7

\* The kernel goes on.

LEMMA EffectAllocates ==
  ASSUME FilesInv, TypeOK', EffectInv, FileCommand, CommandKept,
         UNCHANGED calls, NEW i \in Clusters, AllocateCluster(i)
  PROVE  EffectInv'
<1>1. /\ Root' = Root /\ pc' = pc /\ pc = "alloc" /\ UNCHANGED <<table, req>>
  BY RootAllocate
<1>2. /\ TodoOf /\ EffectSoFar(Listed(Root)) /\ todo # << >>
      /\ stage = "change" /\ ChangeStage /\ Copying
  BY <1>1 DEF EffectInv, Looking, ProbeStage, ListStage, ReadStage,
              ChangeStage, Reads, FilesInv, FilesTypeInv, FilesTypeOK
<1>3. /\ TodoOf' /\ Copying' /\ SourceFound' /\ Starts' /\ Change' = Change
      /\ UNCHANGED <<todo, stage, found>>
  BY <1>1, <1>2, EffectKept DEF CommandKept, ChangeStage
<1>4. EffectSoFar(Listed(Root))'
  BY <1>1, <1>2, <1>3, EffectSame DEF Changed
<1>5. /\ Listed(table)' = Listed(Root)'
      /\ ~Duplicate(table, req)'
  BY <1>1, <1>2 DEF ChangeStage, Listed, Line, Duplicate
<1>6. ChangeStage'
  BY <1>1, <1>2, <1>3, <1>5 DEF ChangeStage
<1> QED
  BY <1>2, <1>3, <1>4, <1>6
     DEF EffectInv, Looking, ProbeStage, ListStage, ReadStage

LEMMA EffectSaves ==
  ASSUME FilesInv, EffectInv, CountInv, FileCommand, CommandKept,
         UNCHANGED calls,
         DiskFull \/ \E i \in Clusters : AllocateLastCluster(i)
  PROVE  EffectInv'
<1>1. /\ pc = "alloc" /\ pc' = "flush"
      /\ \E c, size :
           /\ Listed(Root') = WithLine(Listed(table),
                                       Line(FileEntry(req, c, size)))
           /\ \/ size = 0 /\ DiskFull
              \/ /\ size = req.buffer_size
                 /\ \E i \in Clusters : AllocateLastCluster(i)
  BY RootSaves
<1>2. /\ TodoOf /\ EffectSoFar(Listed(Root)) /\ todo # << >>
      /\ stage = "change" /\ ChangeStage /\ Copying
  BY <1>1 DEF EffectInv, Looking, ProbeStage, ListStage, ReadStage,
              ChangeStage, Reads, FilesInv, FilesTypeInv, FilesTypeOK
<1>3. /\ TodoOf' /\ Copying' /\ ~Removing' /\ SourceFound' /\ Starts'
      /\ Change' = Change /\ UNCHANGED <<todo, stage, calls>>
  BY <1>1, <1>2, EffectKept, TodoFacts
     DEF CommandKept, ChangeStage, Copying, Removing
<1>4. /\ Listed(Root) = before.entries /\ Listed(table) = before.entries
      /\ SourceFound /\ Starts /\ req = Change /\ ~Duplicate(table, req)
      /\ found.filesize > 0 /\ command.op \in {"cp", "mv"}
  BY <1>1, <1>2, TodoFacts
     DEF EffectSoFar, Changed, ChangeStage, TodoOf, FileCommand, Copying
<1>5. /\ req.name = dest /\ req.ext = found.ext
      /\ req.buffer_size = found.filesize
  <2>1. Head(todo) = "cp"
    BY <1>2, TodoFacts DEF Copying
  <2> QED
    BY <1>4, <2>1 DEF Change, FileRequest
<1>6. PICK s \in Slots : /\ IsSource(s)
                         /\ found.ext = before.entries[s].ext
                         /\ found.filesize = before.entries[s].filesize
  BY <1>4 DEF SourceFound
<1>7. PICK c, size :
        /\ Listed(Root') = WithLine(Listed(table),
                                    Line(FileEntry(req, c, size)))
        /\ \/ size = 0 /\ DiskFull
           \/ /\ size = req.buffer_size
              /\ \E i \in Clusters : AllocateLastCluster(i)
  BY <1>1
<1>8. size = IF before.entries[s].filesize =< before.free * ClusterSize
               THEN before.entries[s].filesize ELSE 0
  BY <1>1, <1>2, <1>5, <1>6, <1>7, SizeFits DEF Changed
<1>9. Line(FileEntry(req, c, size)) = Copy(s)
  BY <1>4, <1>5, <1>6, <1>8 DEF Line, FileEntry, Copy
<1>10. CopyDone(Listed(Root'))
  <2>1. ~Duplicate(Listed(table), req) /\ req.ext = Listed(table)[s].ext
    BY <1>4, <1>5, <1>6, DuplicateListed
  <2> QED
    BY <1>4, <1>5, <1>6, <1>7, <1>9, <2>1, CopyStored
<1>11. EffectSoFar(Listed(Root))'
  <2>1. Changed' /\ ~Removing
    BY <1>1, <1>2, <1>3 DEF Changed, CommandKept, Removing
  <2> QED
    BY <1>2, <1>10, <2>1, TodoFacts, EffectAfter DEF Copying
<1>12. ChangeStage'
  BY <1>1, <1>2, <1>3 DEF ChangeStage
<1> QED
  BY <1>2, <1>3, <1>11, <1>12
     DEF EffectInv, Looking, ProbeStage, ListStage, ReadStage

LEMMA EffectWalks ==
  ASSUME FilesInv, TypeOK', EffectInv, FileCommand, CommandKept,
         UNCHANGED calls, WalkChain \/ EndOfChain
  PROVE  EffectInv'
<1>1. pc = "walk"
  BY DEF WalkChain, EndOfChain
<1>2. /\ TodoOf /\ EffectSoFar(Listed(Root)) /\ todo # << >>
      /\ stage = "change" /\ ChangeStage /\ ~Copying
  BY <1>1 DEF EffectInv, Looking, ProbeStage, ListStage, ReadStage,
              ChangeStage, Reads, FilesInv, FilesTypeInv, FilesTypeOK
<1>3. /\ TodoOf' /\ ~Copying' /\ SourceFound' /\ Starts' /\ Change' = Change
      /\ UNCHANGED <<todo, stage, calls>>
  BY <1>1, <1>2, EffectKept DEF CommandKept, ChangeStage
<1>4. Removing
  BY <1>2 DEF FileCommand, TodoOf, Copying, Removing
<1>5. Effect(Listed(table))
  BY <1>1, <1>2 DEF ChangeStage
<1>6. CASE WalkChain
  <2>1. Root' = Root /\ pc' = "walk" /\ UNCHANGED table
    BY <1>1, <1>6, RootWalk
  <2>2. EffectSoFar(Listed(Root))'
    BY <1>1, <1>2, <1>3, <2>1, EffectSame DEF Changed
  <2>3. Effect(Listed(table))'
    <3>1. PICK S : S = Listed(table) /\ Effect(S)
      BY <1>5
    <3>2. Effect(S)' = Effect(S)
      BY EffectKept
    <3>3. Listed(table)' = S
      BY <2>1, <3>1 DEF Listed, Line
    <3> QED
      BY <3>1, <3>2, <3>3 DEF Effect
  <2>4. ChangeStage'
    BY <1>2, <1>3, <2>1, <2>3 DEF ChangeStage
  <2> QED
    BY <1>2, <1>3, <2>2, <2>4
       DEF EffectInv, Looking, ProbeStage, ListStage, ReadStage
<1>7. CASE EndOfChain
  <2>1. Root' = table /\ pc' = "flush"
    BY <1>7, RootEndOfChain
  <2>2. EffectSoFar(Listed(Root))'
    <3>1. todo # << >> /\ ~Copying /\ Changed'
      BY <1>2, <1>3, <2>1 DEF Changed
    <3> QED
      BY <1>5, <2>1, <3>1, EffectAfter
  <2>3. ChangeStage'
    BY <1>2, <1>3, <2>1 DEF ChangeStage
  <2> QED
    BY <1>2, <1>3, <2>2, <2>3
       DEF EffectInv, Looking, ProbeStage, ListStage, ReadStage
<1> QED
  BY <1>6, <1>7

LEMMA EffectFollows ==
  ASSUME FilesInv, EffectInv, FileCommand, CommandKept, UNCHANGED calls,
         FollowChain
  PROVE  EffectInv'
<1>1. /\ pc = "chain" /\ pc' \in {"chain", "return"} /\ Root' = Root
      /\ code' = 0
  BY RootQuiet DEF FollowChain, FilesInv, HereInv, QuietInv
<1>2. /\ TodoOf /\ EffectSoFar(Listed(Root))
      /\ ~(todo # << >> /\ stage = "list")
      /\ ~(todo # << >> /\ stage = "change")
      /\ Looking /\ ProbeStage /\ ReadStage
  BY <1>1 DEF EffectInv, ListStage, ChangeStage
<1>3. /\ TodoOf' /\ SourceFound' = SourceFound /\ FileFound' = FileFound
      /\ Starts' = Starts
      /\ FileRequest("read", command.name, found.ext, found.filesize)' =
           FileRequest("read", command.name, found.ext, found.filesize)
      /\ UNCHANGED <<todo, stage, calls, before, cwd, found, command, dest>>
  BY <1>2, EffectKept DEF CommandKept
<1>4. EffectSoFar(Listed(Root))'
  <2>1. todo = << >> => ~Copying /\ ~Removing
    BY TodoFacts DEF Copying, Removing
  <2>2. todo # << >> => Changed' = Changed
    BY <1>1, <1>2, <1>3 DEF Changed
  <2>3. CASE todo # << >>
    BY <1>1, <1>2, <2>2, <2>3, EffectSame
  <2>4. CASE todo = << >>
    BY <1>1, <1>2, <2>1, <2>4, EffectAfter DEF EffectSoFar
  <2> QED
    BY <2>3, <2>4
<1>5. Looking' /\ ListStage' /\ ChangeStage'
  BY <1>1, <1>2, <1>3 DEF Looking, ListStage, ChangeStage, CallsAre
<1>6. ReadStage'
  <2>1. Reads(SourceFound) => Reads(SourceFound)'
    BY <1>1, <1>3 DEF Reads
  <2> QED
    BY <1>1, <1>2, <1>3, <2>1 DEF ReadStage
<1>7. ProbeStage'
  <2>1. /\ ProbeFinds(command.name)' = ProbeFinds(command.name)
        /\ ProbeFinds(dest)' = ProbeFinds(dest)
        /\ ProbeOf(command.name)' = ProbeOf(command.name)
        /\ ProbeOf(dest)' = ProbeOf(dest)
    BY <1>3 DEF ProbeFinds, ProbeOf, FileRequest
  <2>2. /\ Reads(ProbeFinds(command.name)) => Reads(ProbeFinds(command.name))'
        /\ Reads(ProbeFinds(dest)) => Reads(ProbeFinds(dest))'
    BY <1>1, <2>1 DEF Reads
  <2> QED
    BY <1>1, <1>2, <1>3, <2>1, <2>2 DEF ProbeStage
<1> QED
  BY <1>3, <1>4, <1>5, <1>6, <1>7 DEF EffectInv

LEMMA EffectFlushes ==
  ASSUME FilesInv, EffectInv, FileCommand, CommandKept, UNCHANGED calls,
         FlushWrite
  PROVE  EffectInv'
<1>1. /\ Root' = Root /\ pc = "flush" /\ pc' \in {"flush", "return"}
  <2>1. pc \in {"format", "flush"} /\ pc # "format"
    BY RootFlush DEF FilesInv, HereInv, FileCommand
  <2> QED
    BY <2>1, RootFlush
<1>2. /\ TodoOf /\ EffectSoFar(Listed(Root)) /\ todo # << >>
      /\ stage = "change" /\ ChangeStage
  BY <1>1 DEF EffectInv, Looking, ProbeStage, ListStage, ReadStage, Reads,
              FilesInv, FilesTypeInv, FilesTypeOK
<1>3. /\ TodoOf' /\ SourceFound' /\ Starts' /\ Copying' = Copying
      /\ Change' = Change /\ UNCHANGED <<todo, stage, calls>>
  BY <1>1, <1>2, EffectKept DEF CommandKept, ChangeStage
<1>4. EffectSoFar(Listed(Root))'
  BY <1>1, <1>2, <1>3, EffectSame DEF Changed
<1>5. ChangeStage'
  BY <1>1, <1>2, <1>3 DEF ChangeStage
<1> QED
  BY <1>2, <1>3, <1>4, <1>5
     DEF EffectInv, Looking, ProbeStage, ListStage, ReadStage

LEMMA EffectStands ==
  ASSUME FilesInv, EffectInv, FileCommand, UNCHANGED fileVars
  PROVE  EffectInv'
<1>1. /\ CommandKept /\ UNCHANGED <<calls, pc, table, req, code>>
      /\ UNCHANGED <<disk, queue>>
  BY DEF fileVars, shellVars, vars, CommandKept
<1>2. Root' = Root
  BY <1>1, RootKept
<1>3. /\ TodoOf' = TodoOf /\ Copying' = Copying /\ Change' = Change
      /\ SourceFound' = SourceFound /\ FileFound' = FileFound
      /\ Starts' = Starts /\ ListCwd' = ListCwd
      /\ FileRequest("read", command.name, found.ext, found.filesize)' =
           FileRequest("read", command.name, found.ext, found.filesize)
      /\ UNCHANGED <<todo, stage, before, cwd, found, command, dest>>
  BY <1>1, EffectKept DEF CommandKept
<1>4. EffectSoFar(Listed(Root))'
  BY <1>1, <1>2, <1>3, EffectSame DEF Changed, EffectInv
<1>5. Looking' /\ ListStage'
  BY <1>1, <1>2, <1>3 DEF EffectInv, Looking, ListStage, CallsAre
<1>6. ReadStage'
  <2>1. Reads(SourceFound)' = Reads(SourceFound)
    BY <1>1, <1>3 DEF Reads
  <2> QED
    BY <1>1, <1>3, <2>1 DEF EffectInv, ReadStage
<1>7. ProbeStage'
  <2>1. /\ ProbeFinds(command.name)' = ProbeFinds(command.name)
        /\ ProbeFinds(dest)' = ProbeFinds(dest)
        /\ ProbeOf(command.name)' = ProbeOf(command.name)
        /\ ProbeOf(dest)' = ProbeOf(dest)
    BY <1>3 DEF ProbeFinds, ProbeOf, FileRequest
  <2>2. /\ Reads(ProbeFinds(command.name))' = Reads(ProbeFinds(command.name))
        /\ Reads(ProbeFinds(dest))' = Reads(ProbeFinds(dest))
    BY <1>1, <2>1 DEF Reads
  <2> QED
    BY <1>1, <1>3, <2>1, <2>2 DEF EffectInv, ProbeStage
<1>8. ChangeStage'
  <2>1. /\ Listed(table)' = Listed(table) /\ Listed(Root)' = Listed(Root)
        /\ Duplicate(table, req)' = Duplicate(table, req)
    BY <1>1, <1>2 DEF Listed, Line, Duplicate
  <2>2. Effect(Listed(table))' = Effect(Listed(table))
    <3>1. PICK S : S = Listed(table)
      OBVIOUS
    <3>2. Effect(S)' = Effect(S)
      BY <1>3, EffectTypedOnce
    <3> QED
      BY <2>1, <3>1, <3>2 DEF Effect
  <2> QED
    BY <1>1, <1>2, <1>3, <2>1, <2>2 DEF EffectInv, ChangeStage
<1> QED
  BY <1>3, <1>4, <1>5, <1>6, <1>7, <1>8 DEF EffectInv

LEMMA EffectStep ==
  ASSUME FilesInv, EffectInv, CountInv, [FilesNext]_fileVars
  PROVE  EffectInv'
<1>1. FilesInv' /\ TypeOK'
  BY HereStep DEF FilesInv, FilesTypeInv, TypeInv
<1>2. CASE FileTyped
  BY <1>2, EffectTyped
<1>3. CASE ~FileCommand /\ command' \in {command, NoCommand}
  BY <1>3 DEF EffectInv, FileCommand, NoCommand
<1>4. CASE NextFileCall
  <2>1. command' = command
    BY <1>4 DEF NextFileCall
  <2> QED
    BY <1>3, <1>4, <2>1, EffectNextCall
<1>5. CASE FileReturns
  <2>1. command' \in {command, NoCommand}
    BY <1>5 DEF FileReturns, ProbeReturns, ListReturns, ReadReturns,
                ChangeReturns, NothingReturns, GoesOn, RoutineEnds, Goes
  <2> QED
    BY <1>3, <1>5, <2>1, EffectReturns
<1>6. CASE FileKernelStep
  <2>1. CommandKept /\ UNCHANGED calls
    BY <1>6 DEF FileKernelStep, KernelStep, CommandKept
  <2>2. CASE FileCommand
    <3>1. ~CreateFat32
      BY <2>2 DEF CreateFat32, FilesInv, HereInv, FileCommand
    <3> QED
      BY <1>1, <1>6, <2>1, <2>2, <3>1, EffectAllocates, EffectSaves,
         EffectWalks, EffectFollows, EffectFlushes
         DEF FileKernelStep, KernelStep
  <2> QED
    BY <1>3, <2>1, <2>2 DEF CommandKept
<1>7. CASE UNCHANGED fileVars
  <2>1. command' = command
    BY <1>7 DEF fileVars, shellVars
  <2> QED
    BY <1>3, <1>7, <2>1, EffectStands
<1> QED
  BY <1>2, <1>4, <1>5, <1>6, <1>7 DEF FilesNext


LEMMA CountInit == FilesInit => CountInv
BY DEF FilesInit, ShellInit, NoCommand, CountInv, FileCommand

\* Nothing is counted anew once the copy is decided.
LEMMA CountStands ==
  ASSUME CountInv, pc' # "alloc",
         FileCommand' /\ (Copying /\ ~Changed)' =>
           /\ FileCommand /\ Copying /\ ~Changed
           /\ UNCHANGED <<before, DiskFat>>
  PROVE  CountInv'
<1>1. DiskFat' = DiskFat => FreeClusters(DiskFat)' = FreeClusters(DiskFat)
  BY DEF FreeClusters
<1> QED
  BY <1>1 DEF CountInv

LEMMA CountTyped ==
  ASSUME FilesInv, FileTyped
  PROVE  CountInv'
<1>1. pc = "idle" /\ pc' = "idle" /\ disk' = disk
  BY DEF FileTyped, Cat, Cp, Rm, MvFiles, MvFolders, MkdirHere, Mkdir,
         RunFiles, Run, vars
<1>2. CASE \E src \in CallerNames : MkdirHere(src)
  BY <1>2 DEF MkdirHere, Mkdir, Run, CountInv, FileCommand
<1>3. CASE before' = Now(disk)
  <2>1. before'.free = Cardinality(FreeClusters(DiskFat))
    BY <1>3 DEF Now, DiskFat
  <2>2. FreeClusters(DiskFat)' = FreeClusters(DiskFat)
    BY <1>1 DEF FreeClusters, DiskFat
  <2> QED
    BY <1>1, <2>1, <2>2 DEF CountInv
<1> QED
  BY <1>2, <1>3
     DEF FileTyped, Cat, Cp, Rm, MvFiles, MvFolders, RunFiles

\* write starts at the first cluster that it may use.
LEMMA CountStarts ==
  ASSUME FilesInv, CountInv, FileCommand, CommandKept, NEW r,
         r.buffer_size > 0, r \in FAT32DriverRequest, WriteFile(r)
  PROVE  CountInv'
<1>1. /\ pc = "idle" /\ pc' = "alloc" /\ disk' = disk /\ req' = r
      /\ cur' = 3 /\ left' = r.buffer_size /\ counter' = counter
      /\ fat' = DiskFat
  BY DEF WriteFile, WriteAccepted, DiskFat
<1>2. counter' = 1 /\ r.buffer_size \in Nat /\ ClusterSize \in Nat
  BY <1>1, LayoutAssumption
     DEF FilesInv, HereInv, QuietInv, FAT32DriverRequest
<1>3. /\ DiskFat' = DiskFat
      /\ FreeClusters(DiskFat)' = FreeClusters(DiskFat)
  BY <1>1 DEF FreeClusters, DiskFat
<1>4. Copying' = Copying /\ ~Changed /\ UNCHANGED <<before, command>>
  BY <1>1 DEF CommandKept, Copying, Changed
<1>5. PassedClusters' = {}
  <2>1. PassedClusters' = {c \in FreeClusters(DiskFat) : c < 3}
    BY <1>1, <1>3 DEF PassedClusters
  <2>2. \A c \in FreeClusters(DiskFat) : c \in Nat /\ c >= 3
    BY ClusterFacts DEF FreeClusters
  <2> QED
    BY <2>1, <2>2
<1>6. Cardinality(PassedClusters)' = 0
  BY <1>5, FS_EmptySet
<1>7. left' = req'.buffer_size - (counter' - 1) * ClusterSize
  BY <1>1, <1>2
<1> QED
  BY <1>1, <1>2, <1>3, <1>4, <1>6, <1>7 DEF CountInv

\* Data goes to clusters that hold neither the FAT nor the root directory.
LEMMA PlacedElsewhere ==
  ASSUME FilesInv, NEW i \in Clusters, PlaceData(i)
  PROVE  DiskFat' = DiskFat
<1>1. /\ disk' = WriteCluster(disk, i, DataCell(req.name, req.ext, counter))
      /\ pc = "alloc" /\ IsFirstFree(fat, cur, i)
  BY DEF PlaceData
<1>2. i # FAT_CLUSTER_NUMBER
  BY <1>1, FirstFreeSafe DEF FilesInv, SafeInv, CallSafe, Reserved
<1> QED
  BY <1>1, <1>2, ReservedFacts DEF WriteCluster, DiskFat, Reserved

LEMMA CountAllocates ==
  ASSUME FilesInv, CountInv, FileCommand, CommandKept,
         NEW i \in Clusters, AllocateCluster(i)
  PROVE  CountInv'
<1> DEFINE n == Cardinality(PassedClusters)
<1>1. /\ pc = "alloc" /\ pc' = "alloc" /\ req' = req
      /\ IsFirstFree(fat, cur, i) /\ left > ClusterSize
      /\ left' = left - ClusterSize /\ cur' = i + 1 /\ prev' = i
      /\ counter' = counter + 1 /\ fat' = Chained(i)
      /\ DiskFat' = DiskFat
  BY PlacedElsewhere DEF AllocateCluster, PlaceData
<1>2. /\ cur \in Nat /\ cur >= 3 /\ counter = n + 1
      /\ counter >= 2 => prev < cur
      /\ left = req.buffer_size - (counter - 1) * ClusterSize
      /\ \A c \in Clusters : c >= cur => fat[c] = DiskFat[c]
  BY <1>1 DEF CountInv
<1>3. /\ req.buffer_size \in Nat /\ left \in Int /\ ClusterSize \in Nat
      /\ prev \in Clusters /\ prev \in Int /\ i \in Nat /\ i >= cur
  BY <1>1, LayoutAssumption, ClusterFacts
     DEF FilesInv, SafeInv, TypeInv, TypeOK, FAT32DriverRequest, IsFirstFree
<1>4. /\ FreeClusters(DiskFat)' = FreeClusters(DiskFat)
      /\ Copying' = Copying /\ Changed' = Changed
      /\ UNCHANGED <<before, command>>
  BY <1>1 DEF FreeClusters, DiskFat, CommandKept, Copying, Changed
<1>5. /\ i \in FreeClusters(DiskFat) /\ i \notin PassedClusters
      /\ PassedClusters' = PassedClusters \cup {i}
  <2>1. i \in FreeClusters(DiskFat) /\ i \notin PassedClusters
    BY <1>1, <1>2, <1>3 DEF IsFirstFree, FreeClusters, PassedClusters
  <2>2. ASSUME NEW c \in FreeClusters(DiskFat)
        PROVE  c < i + 1 <=> c < cur \/ c = i
    <3>1. c \in Clusters /\ c \in Nat /\ DiskFat[c] = 0
      BY ClusterFacts DEF FreeClusters
    <3>2. c >= cur /\ c < i => FALSE
      BY <1>1, <1>2, <3>1 DEF IsFirstFree
    <3> QED
      BY <1>2, <1>3, <3>1, <3>2
  <2>3. PassedClusters' = {c \in FreeClusters(DiskFat) : c < i + 1}
    BY <1>1, <1>4 DEF PassedClusters
  <2> QED
    BY <2>1, <2>2, <2>3 DEF PassedClusters
<1>6. n \in Nat /\ IsFiniteSet(PassedClusters)
  BY FreeFinite DEF PassedClusters
<1>7. Cardinality(PassedClusters)' = n + 1
  BY <1>5, <1>6, FS_AddElement
<1> HIDE DEF n
<1>8. left' = req'.buffer_size - (counter' - 1) * ClusterSize
  <2>1. (n + 1) * ClusterSize = n * ClusterSize + ClusterSize
        /\ n * ClusterSize \in Nat
    BY <1>3, <1>6, OneMore
  <2>2. counter - 1 = n /\ counter' - 1 = n + 1
    BY <1>1, <1>2, <1>6
  <2>3. left = req.buffer_size - n * ClusterSize
    BY <1>2, <2>2
  <2>4. left' = req.buffer_size - (n + 1) * ClusterSize
    BY <1>1, <1>3, <2>1, <2>3
  <2> QED
    BY <1>1, <2>2, <2>4
<1>9. ASSUME NEW c \in Clusters, c >= cur'
      PROVE  fat'[c] = DiskFat'[c]
  <2>1. c \in Nat /\ c >= i + 1
    BY <1>1, <1>9, ClusterFacts
  <2>2. c >= cur /\ (counter >= 2 => c # prev)
    BY <1>2, <1>3, <2>1
  <2>3. fat'[c] = fat[c]
    BY <1>1, <2>2 DEF Chained, SetLink
  <2> QED
    BY <1>1, <1>2, <2>2, <2>3
<1>10. cur' \in Nat /\ cur' >= 3 /\ prev' < cur' /\ left' > 0
       /\ counter' = Cardinality(PassedClusters)' + 1
  BY <1>1, <1>2, <1>3, <1>6, <1>7
<1> QED
  BY <1>1, <1>4, <1>8, <1>9, <1>10 DEF CountInv

LEMMA CountServes ==
  ASSUME FilesInv, CountInv, FileCommand, NextFileCall
  PROVE  CountInv'
<1>1. /\ CommandKept /\ ServeFile(Head(calls))
      /\ Head(calls) \in FAT32DriverRequest
  BY FileCallsLeft DEF NextFileCall, CommandKept, FilesInv, HereInv
<1>2. PICK r : r = Head(calls)
  OBVIOUS
<1>3. CASE r.buffer_size > 0 /\ WriteFile(r)
  BY <1>1, <1>2, <1>3, CountStarts
<1>4. CASE ~(r.buffer_size > 0 /\ WriteFile(r))
  <2>1. pc = "idle" /\ pc' # "alloc" /\ disk' = disk
    BY <1>1, <1>2, <1>4
       DEF ServeFile, Serve, ReadDirectory, WriteRefused, WriteFolder,
           WriteAccepted, ReadNotFound, ReadNothing, ReadFile, DeleteRefused,
           Delete, Answer
  <2> QED
    BY <1>1, <2>1, CountStands
       DEF CommandKept, FileCommand, Copying, Changed, DiskFat
<1> QED
  BY <1>3, <1>4

LEMMA CountReturns ==
  ASSUME FilesInv, EffectInv, CountInv, FileCommand, FileReturns
  PROVE  CountInv'
<1>1. /\ Return /\ UNCHANGED before
      /\ todo' \in {todo, Tail(todo), << >>}
      /\ todo' # todo \/ todo = << >> \/ stage # "change"
      /\ todo' = Tail(todo) => todo # << >> \/ todo' = todo \/ todo' = << >>
  BY DEF FileReturns, ProbeReturns, ListReturns, ReadReturns, ChangeReturns,
         NothingReturns, GoesOn, RoutineEnds, Goes
<1>2. pc' = "idle" /\ DiskFat' = DiskFat
  BY <1>1 DEF Return, DiskFat
<1>3. todo \in {<< >>, <<"cp">>, <<"rm">>, <<"cp", "rm">>}
  BY DEF EffectInv, TodoOf, FileCommand
<1>4. ASSUME Copying'
      PROVE  Copying /\ ~Changed
  <2>1. todo' = todo /\ todo # << >>
    BY <1>1, <1>3, <1>4, TodoFacts DEF Copying
  <2> QED
    BY <1>1, <1>4, <2>1 DEF Copying, Changed
<1> QED
  BY <1>1, <1>2, <1>4, CountStands

LEMMA CountKernel ==
  ASSUME FilesInv, EffectInv, CountInv, FileCommand, FileKernelStep
  PROVE  CountInv'
<1>1. CommandKept /\ UNCHANGED calls
  BY DEF FileKernelStep, KernelStep, CommandKept
<1>2. /\ FileCommand' = FileCommand /\ Copying' = Copying
      /\ UNCHANGED <<before, todo, stage>>
  BY <1>1 DEF CommandKept, FileCommand, Copying
<1>3. pc \in {"alloc", "walk", "flush"} =>
        /\ todo # << >> /\ stage = "change" /\ ChangeStage
  BY DEF EffectInv, Looking, ProbeStage, ListStage, ReadStage, ChangeStage,
         Reads, FilesInv, FilesTypeInv, FilesTypeOK
<1>4. CASE \E i \in Clusters : AllocateCluster(i)
  BY <1>1, <1>4, CountAllocates
<1>5. CASE DiskFull \/ \E i \in Clusters : AllocateLastCluster(i)
  <2>1. pc = "alloc" /\ pc' = "flush"
    BY <1>5 DEF DiskFull, AllocateLastCluster, PlaceData, SaveFile
  <2> QED
    BY <1>2, <1>3, <2>1, CountStands DEF Changed
<1>6. CASE WalkChain \/ EndOfChain
  <2>1. pc = "walk" /\ pc' # "alloc"
    BY <1>6 DEF WalkChain, EndOfChain
  <2>2. ~Copying
    BY <1>3, <2>1 DEF ChangeStage
  <2> QED
    BY <1>2, <2>1, <2>2, CountStands
<1>7. CASE FollowChain
  <2>1. pc = "chain" /\ pc' # "alloc" /\ DiskFat' = DiskFat
    BY <1>7 DEF FollowChain, DiskFat
  <2> QED
    BY <1>2, <2>1, CountStands DEF Changed
<1>8. CASE FlushWrite
  <2>1. pc = "flush" /\ pc' \in {"flush", "return"}
    <3>1. pc \in {"format", "flush"} /\ pc # "format"
      BY <1>8, RootFlush DEF FilesInv, HereInv, FileCommand
    <3> QED
      BY <1>8, <3>1, RootFlush
  <2> QED
    BY <1>2, <1>3, <2>1, CountStands DEF Changed
<1>9. ~CreateFat32
  BY DEF CreateFat32, FilesInv, HereInv, FileCommand
<1> QED
  BY <1>4, <1>5, <1>6, <1>7, <1>8, <1>9 DEF FileKernelStep, KernelStep

LEMMA CountStep ==
  ASSUME FilesInv, EffectInv, CountInv, [FilesNext]_fileVars
  PROVE  CountInv'
<1>1. CASE FileTyped
  BY <1>1, CountTyped
<1>2. CASE ~FileCommand /\ command' \in {command, NoCommand}
  BY <1>2 DEF CountInv, FileCommand, NoCommand
<1>3. CASE NextFileCall
  <2>1. command' = command
    BY <1>3 DEF NextFileCall
  <2> QED
    BY <1>2, <1>3, <2>1, CountServes
<1>4. CASE FileReturns
  <2>1. command' \in {command, NoCommand}
    BY <1>4 DEF FileReturns, ProbeReturns, ListReturns, ReadReturns,
                ChangeReturns, NothingReturns, GoesOn, RoutineEnds, Goes
  <2> QED
    BY <1>2, <1>4, <2>1, CountReturns
<1>5. CASE FileKernelStep
  <2>1. command' = command
    BY <1>5 DEF FileKernelStep, KernelStep
  <2> QED
    BY <1>2, <1>5, <2>1, CountKernel
<1>6. CASE UNCHANGED fileVars
  <2>1. /\ UNCHANGED <<command, todo, stage, before, pc, disk, cur, prev,
                       counter, left, req, fat>>
    BY <1>6 DEF fileVars, shellVars, vars, locals
  <2>2. /\ FreeClusters(DiskFat)' = FreeClusters(DiskFat)
        /\ PassedClusters' = PassedClusters
        /\ DiskFat' = DiskFat
    BY <2>1 DEF FreeClusters, PassedClusters, DiskFat
  <2> QED
    BY <2>1, <2>2 DEF CountInv, FileCommand, Copying, Changed
<1> QED
  BY <1>1, <1>3, <1>4, <1>5, <1>6 DEF FilesNext


\* The command is over: what it did is its effect.

LEMMA ProbesOver ==
  ASSUME FilesInv, EffectInv, FileCommand, ProbeReturns, command' # command
  PROVE  Effect(Listed(Root))
<1>1. /\ TodoOf /\ EffectSoFar(Listed(Root)) /\ ProbeStage
      /\ stage \in {"probe", "missing"} /\ todo = <<"cp", "rm">>
      /\ todo # << >> /\ pc = "return"
  BY TodoFacts
     DEF EffectInv, TodoOf, ProbeReturns, GoesOn, Goes, Return
<1>2. <<ListCwd>> # << >>
  OBVIOUS
<1>3. calls = << >> /\ ~(stage = "probe" /\ code = 0)
  BY <1>2 DEF ProbeReturns, GoesOn, Goes
<1>4. /\ command.op = "mv" /\ (code = 0 <=> ProbeFinds(dest))
      /\ stage = "probe" <=> ProbeFinds(command.name)
  BY <1>1, <1>3 DEF ProbeStage, Reads
<1>5. ~Starts
  BY <1>3, <1>4 DEF Starts
<1>6. Listed(Root) = before.entries
  BY <1>1 DEF EffectSoFar, Copying, Changed
<1>7. CopyDone(Listed(Root))
  BY <1>5, <1>6, NoCopy
<1> QED
  BY <1>5, <1>7, NothingGone

LEMMA RoutineOver ==
  ASSUME FilesInv, EffectInv, FileCommand, RoutineEnds, todo # << >>,
         RoutineDone, command' # command
  PROVE  Effect(Listed(Root))
<1>1. <<ListCwd>> # << >>
  OBVIOUS
<1>2. Tail(todo) = << >>
  BY <1>1 DEF RoutineEnds, Goes
<1>3. TodoOf
  BY DEF EffectInv
<1>4. \/ todo = <<"rm">>
      \/ todo = <<"cp">> /\ command.op = "cp"
  BY <1>2, <1>3, TodoFacts DEF TodoOf, FileCommand
<1>5. CASE todo = <<"rm">>
  BY <1>5 DEF RoutineDone, Removing
<1>6. CASE todo = <<"cp">> /\ command.op = "cp"
  BY <1>6, NothingGone DEF RoutineDone, Copying
<1> QED
  BY <1>4, <1>5, <1>6

LEMMA EffectShown ==
  ASSUME FilesInv, EffectInv, [FilesNext]_fileVars, CommandEnds
  PROVE  Effect(Cwd(disk'))
<1>1. /\ FileCommand /\ command' = NoCommand /\ command.op # "none"
      /\ command' # command
  BY DEF CommandEnds, FileCommand, NoCommand
<1>2. FileReturns
  <2>1. ~NextFileCall /\ ~FileKernelStep /\ ~UNCHANGED fileVars
    BY <1>1 DEF NextFileCall, FileKernelStep, KernelStep, fileVars, shellVars
  <2>2. ~FileTyped
    BY <1>1 DEF FileTyped, Cat, Rm, MkdirHere, Mkdir, Cp, MvFiles, MvFolders,
                RunFiles, Run, NoCommand
  <2> QED
    BY <2>1, <2>2 DEF FilesNext
<1>3. disk' = disk /\ pc = "return" /\ UNCHANGED cwd
  BY <1>2 DEF FileReturns, ProbeReturns, ListReturns, ReadReturns,
              ChangeReturns, NothingReturns, GoesOn, RoutineEnds, Goes, Return
<1>4. Cwd(disk') = Listed(Root)
  <2>1. queue = << >> /\ Settled = disk
    BY <1>3, SettledIdle
       DEF FilesInv, HereInv, QueueShort, FilesTypeInv, TypeInv
  <2>2. disk[ROOT_CLUSTER_NUMBER].kind = "dir"
    BY <1>3, <2>1, RootFacts
  <2>3. cwd.currentCluster = ROOT_CLUSTER_NUMBER
    BY DEF FilesInv, HereInv
  <2> QED
    BY <1>3, <2>1, <2>2, <2>3 DEF Cwd, AsTable, Root
<1>5. ASSUME NEW at, NEW r, GoesOn(at, r)
      PROVE  FALSE
  <2>1. <<r>> # << >>
    OBVIOUS
  <2> QED
    BY <1>1, <1>5, <2>1 DEF GoesOn, Goes
<1> SUFFICES Effect(Listed(Root))
  BY <1>4
<1>6. CASE ProbeReturns
  BY <1>1, <1>6, ProbesOver
<1>7. CASE ListReturns
  <2>1. RoutineEnds /\ todo # << >>
    BY <1>5, <1>7 DEF ListReturns
  <2> QED
    BY <1>1, <1>7, <2>1, ListDone, RoutineOver
<1>8. CASE ReadReturns
  <2>1. RoutineEnds /\ todo # << >>
    BY <1>5, <1>8 DEF ReadReturns
  <2> QED
    BY <1>1, <1>8, <2>1, ReadDone, RoutineOver
<1>9. CASE ChangeReturns
  <2>1. RoutineEnds /\ todo # << >>
    BY <1>9 DEF ChangeReturns
  <2> QED
    BY <1>1, <1>9, <2>1, ChangeDone, RoutineOver
<1>10. CASE NothingReturns
  <2>1. todo = << >> /\ TodoOf /\ EffectSoFar(Listed(Root))
    BY <1>1, <1>10 DEF NothingReturns, EffectInv
  <2>2. command.op \in {"cat", "mv_folders"}
    BY <1>1, <2>1, TodoFacts DEF TodoOf, FileCommand
  <2>3. Listed(Root) = before.entries
    BY <2>1 DEF EffectSoFar
  <2>4. CopyDone(Listed(Root))
    BY <2>2, <2>3, NoCopy
  <2> QED
    BY <2>2, <2>4, NothingGone
<1> QED
  BY <1>2, <1>6, <1>7, <1>8, <1>9, <1>10 DEF FileReturns

\* When cat, cp, rm or mv is over, each entry of the directory is what follows
\* from the directory in which the command was typed: a copy with the name, the
\* extension and the size that fits, where cp and mv had room and a name for
\* one; nothing, where rm and mv found their source, whether or not there is a
\* copy of it; and what was there before everywhere else, whatever the size of
\* the table and of the disk, and however many calls failed.
THEOREM CommandsHaveTheirEffect == FilesSpec => CommandEffect
<1> DEFINE Inv  == FilesInv /\ EffectInv /\ CountInv
           Done == CommandEnds => Effect(Cwd(disk'))
<1>1. FilesInit => Inv
  <2>1. FilesInit => FilesTypeInv /\ SafeInv /\ HereInv
    BY FilesTypeInit, HereInit, SafeInit DEF FilesInit, ShellInit
  <2>2. FilesInit => ~FileCommand
    BY DEF FilesInit, ShellInit, NoCommand, FileCommand
  <2> QED
    BY <2>1, <2>2, CountInit DEF FilesInv, EffectInv
<1>2. Inv /\ [FilesNext]_fileVars => Inv'
  BY HereStep, EffectStep, CountStep
<1>3. Inv /\ [FilesNext]_fileVars => [Done]_fileVars
  BY EffectShown
<1>4. FilesSpec => [][Done]_fileVars
  <2> HIDE DEF Inv, Done
  <2> QED
    BY <1>1, <1>2, <1>3, PTL DEF FilesSpec
<1> QED
  BY <1>4 DEF CommandEffect

-----------------------------------------------------------------------------
(***************************************************************************)
(* The shell as a caller of the driver.  The theorems about Fat32 are      *)
(* about callers that ask what they like in directories they have found.   *)
(* The shell is one of them: its requests have the form the driver's       *)
(* specification allows, and the cluster numbers in them come from tables  *)
(* it was given.                                                           *)
(***************************************************************************)

\* The names of main's files, and those of directories.
StartNames  == {StartFiles[i].name : i \in DOMAIN StartFiles}
FolderNames == CallerNames \cup {RootName}

\* A request that a shell which knows these directories may have outstanding.
ShellAsks(r, dirs) ==
  /\ r.parent_cluster_number \in dirs
  /\ r.op \in {"read_directory", "write"} /\ r.ext \in AnyExt
  /\ r.op = "read_directory" =>
       r.name \in FolderNames /\ r.ext = NoExt /\ r.buffer_size = ClusterSize
  /\ r.op = "write" /\ r.buffer_size = 0 =>
       r.name \in CallerNames /\ r.ext = NoExt
  /\ r.op = "write" /\ r.buffer_size > 0 =>
       /\ r.name \in StartNames
       /\ r.parent_cluster_number = ROOT_CLUSTER_NUMBER

\* A table with a folder in it begins with its own name.
Headed(t) ==
  (\E s \in Slots : t[s].attribute = ATTR_SUBDIRECTORY) =>
    t[0].attribute = ATTR_SUBDIRECTORY /\ t[0].name \in FolderNames

HeadedCell(cell) == cell.kind = "dir" => Headed(cell.entries)

\* cd and search look at the listing they asked for.
LooksAtListing ==
  command.op \in {"cd", "whereis"} =>
    /\ pc \in {"idle", "return"}
    /\ pc = "return" => req.op = "read_directory"
    /\ \A i \in 1 .. Len(calls) : calls[i].op = "read_directory"
    /\ command.name \in FolderNames \cup {ParentName}
    /\ command.op = "whereis" => command.name # ParentName

\* A listing that succeeds lists a folder.
ListingFound ==
  req.op = "read_directory" =>
    /\ pc \notin {"alloc", "flush"}
    /\ pc = "return" /\ code = 0 =>
         \E s \in Slots : table[s].attribute = ATTR_SUBDIRECTORY

\* The inductive invariant, next to SafeInv.
ReachInv ==
  /\ {ROOT_CLUSTER_NUMBER, cwd.currentCluster, cwd.prevCluster} \subseteq known
  /\ cwd.cwdName \in FolderNames
  /\ \A i \in 1 .. Len(calls) : ShellAsks(calls[i], known)
  /\ LooksAtListing /\ ListingFound
  /\ \A c \in Clusters : HeadedCell(disk[c])
  /\ \A i \in 1 .. Len(queue) : HeadedCell(queue[i].cell)
  /\ Headed(table)
  /\ pc = "alloc" => req.parent_cluster_number = ROOT_CLUSTER_NUMBER

LEMMA FolderNamesType == FolderNames \subseteq AnyName
BY RequestAssumption DEF FolderNames, AnyName

LEMMA ParentHeaded ==
  ASSUME TypeOK, \A c \in Clusters : HeadedCell(disk[c]), NEW r
  PROVE  Headed(Parent(r))
<1>1. Headed(ZeroTable) /\ Headed(JunkTable)
  BY ClusterFacts
     DEF Headed, ZeroTable, JunkTable, ZeroEntry, Unset, ATTR_SUBDIRECTORY
<1>2. r.parent_cluster_number \in Clusters =>
        HeadedCell(disk[r.parent_cluster_number])
  OBVIOUS
<1> QED
  BY <1>1, <1>2 DEF Parent, AsTable, ReadCluster, HeadedCell, Junk

LEMMA MarkHeaded ==
  ASSUME NEW t \in FAT32DirectoryTable, NEW p, Headed(t)
  PROVE  Headed(MarkNotEmpty(t, p))
<1> DEFINE u == MarkNotEmpty(t, p)
<1>1. \A s \in Slots : u[s].name = t[s].name /\ u[s].attribute = t[s].attribute
  BY MarkedEntries DEF SameEntry
<1> HIDE DEF u
<1>2. Headed(u)
  BY <1>1, ClusterFacts DEF Headed
<1> QED
  BY <1>2 DEF u

\* A table that begins with its name goes on doing so: a file only gets the
\* first place when that is unused, and then it is not.
LEMMA StoreHeaded ==
  ASSUME NEW t, NEW e,
         t[0].attribute = ATTR_SUBDIRECTORY, t[0].name \in FolderNames,
         \/ t[0].name # NoName
         \/ e.attribute = ATTR_SUBDIRECTORY /\ e.name \in FolderNames
  PROVE  Headed(StoreEntry(t, e))
<1>1. 0 \in Slots
  BY ClusterFacts
<1>2. StoreEntry(t, e)[0] = IF IsFirstUnused(t, 0) THEN e ELSE t[0]
  BY <1>1 DEF StoreEntry
<1> QED
  BY <1>2 DEF Headed, IsFirstUnused

LEMMA NewTableHeaded ==
  ASSUME NEW name \in FolderNames, NEW p
  PROVE  Headed(InitDirectoryTable(name, p))
BY NewTableEntries DEF Headed

LEMMA HeadedCells ==
  /\ \A m : HeadedCell(FatCell(m))
  /\ \A n, x, k : HeadedCell(DataCell(n, x, k))
  /\ HeadedCell(Blank) /\ HeadedCell(Signature)
  /\ \A t : Headed(t) => HeadedCell(DirCell(t))
BY CellKinds DEF HeadedCell

LEMMA HeadedSaved ==
  ASSUME NEW p, NEW m, NEW t, Headed(t)
  PROVE  /\ \A i \in 1 .. Len(SaveOrder(p, m, t)) :
              HeadedCell(SaveOrder(p, m, t)[i].cell)
         /\ \A item : HeadedCell(item.cell) =>
              LET q == Append(SaveOrder(p, m, t), item)
              IN \A i \in 1 .. Len(q) : HeadedCell(q[i].cell)
<1> DEFINE f == Item(FAT_CLUSTER_NUMBER, FatCell(m))
           d == Item(p, DirCell(t))
<1>1. HeadedCell(f.cell) /\ HeadedCell(d.cell)
  BY HeadedCells DEF Item
<1>2. SaveOrder(p, m, t) = <<f, d>>
  BY DEF SaveOrder
<1> HIDE DEF f, d
<1> QED
  BY <1>1, <1>2

-----------------------------------------------------------------------------
(* The steps of the shell keep it.                                         *)

LEMMA ReachInit ==
  ASSUME ShellInit
  PROVE  ReachInv
<1>1. /\ known = {ROOT_CLUSTER_NUMBER} /\ pc = "off" /\ queue = << >>
      /\ cwd.currentCluster = ROOT_CLUSTER_NUMBER
      /\ cwd.prevCluster = ROOT_CLUSTER_NUMBER /\ cwd.cwdName = RootName
      /\ command.op = "main" /\ table = ZeroTable
      /\ \A c \in Clusters : disk[c] = Blank
  BY DEF ShellInit, Init, NoCommand
<1>2. /\ Len(StartFiles) \in Nat
      /\ DOMAIN StartFiles = 1 .. Len(StartFiles)
  BY ShellAssumption, LenProperties
<1>3. calls = [i \in 1 .. Len(StartFiles) |-> StartFile(StartFiles[i])]
  BY <1>2 DEF ShellInit
<1>4. Len(calls) = Len(StartFiles)
  BY <1>2, <1>3
<1>5. ASSUME NEW i \in 1 .. Len(calls)
      PROVE  ShellAsks(calls[i], known)
  <2> DEFINE Files == [name : AnyName, ext : AnyExt, buffer_size : Nat \ {0}]
  <2>1. StartFiles[i] \in Files
    <3>1. StartFiles \in Seq(Files)
      BY ShellAssumption
    <3> HIDE DEF Files
    <3> QED
      BY <1>2, <1>4, <3>1, LenProperties
  <2>2. calls[i] = StartFile(StartFiles[i])
    BY <1>3, <1>4
  <2> QED
    BY <1>1, <1>2, <1>4, <2>1, <2>2 DEF ShellAsks, StartFile, StartNames
<1>6. Headed(table)
  BY <1>1, ClusterFacts
     DEF Headed, ZeroTable, ZeroEntry, Unset, ATTR_SUBDIRECTORY
<1>7. \A i \in 1 .. Len(queue) : HeadedCell(queue[i].cell)
  BY <1>1
<1>8. ListingFound
  BY DEF ShellInit, Init, NoRequest, ListingFound
<1> QED
  BY <1>1, <1>5, <1>6, <1>7, <1>8, HeadedCells
     DEF ReachInv, LooksAtListing, FolderNames

LEMMA ReachTyped ==
  ASSUME ShellTypeInv, ReachInv, Typed
  PROVE  ReachInv'
<1> DEFINE AllAsk(q) == \A i \in 1 .. Len(q) : ShellAsks(q[i], known)
           List(q) == \A i \in 1 .. Len(q) : q[i].op = "read_directory"
<1>1. PICK op, name, q :
        /\ Run(op, name, q) /\ AllAsk(q)
        /\ op \in {"cd", "whereis"} =>
             List(q) /\ name \in FolderNames \cup {ParentName}
        /\ op = "whereis" => name # ParentName
  <2>1. \A c \in known, n \in FolderNames :
          ShellAsks(Listing(c, n), known) /\ Listing(c, n).op = "read_directory"
    BY DEF Listing, ShellAsks, AnyExt
  <2>2. \A c \in known, n \in CallerNames : ShellAsks(NewFolder(c, n), known)
    BY DEF NewFolder, ShellAsks, AnyExt
  <2>3. \A r : /\ ShellAsks(r, known) => AllAsk(<<r>>)
               /\ r.op = "read_directory" => List(<<r>>)
    OBVIOUS
  <2>4. /\ cwd.currentCluster \in known /\ cwd.prevCluster \in known
        /\ cwd.cwdName \in FolderNames
    BY DEF ReachInv
  <2>5. CallerNames \subseteq FolderNames /\ ParentName \notin CallerNames
    BY ShellAssumption, RequestAssumption DEF FolderNames
  <2> HIDE DEF AllAsk, List
  <2>6. CASE \E n \in CallerNames \cup {RootName} : Cd(n)
    BY <2>1, <2>3, <2>4, <2>6 DEF Cd, FolderNames
  <2>7. CASE CdParent
    BY <2>1, <2>3, <2>4, <2>7 DEF CdParent
  <2>8. CASE Ls
    BY <2>1, <2>3, <2>4, <2>8 DEF Ls
  <2>9. CASE \E n \in CallerNames : Mkdir(n)
    BY <2>2, <2>3, <2>4, <2>9 DEF Mkdir
  <2>10. CASE \E n \in CallerNames : Whereis(n)
    BY <2>1, <2>3, <2>4, <2>5, <2>10 DEF Whereis
  <2> QED
    BY <2>6, <2>7, <2>8, <2>9, <2>10 DEF Typed
<1>2. /\ pc = "idle" /\ UNCHANGED <<vars, cwd>> /\ calls' = q
      /\ command' = [op |-> op, name |-> name]
  BY <1>1 DEF Run
<1>3. UNCHANGED <<disk, queue, table, pc, req, code, known>>
  BY <1>2 DEF vars
<1>4. LooksAtListing'
  BY <1>1, <1>2, <1>3 DEF LooksAtListing
<1> QED
  BY <1>1, <1>2, <1>3, <1>4 DEF ReachInv, ShellAsks, Headed, ListingFound

\* What the shell's next call is.
LEMMA ReachCallsLeft ==
  ASSUME ShellTypeInv, ReachInv, NextCall
  PROVE  /\ Head(calls) \in FAT32DriverRequest /\ ShellAsks(Head(calls), known)
         /\ Serve(Head(calls)) /\ UNCHANGED <<cwd, command>>
         /\ \A i \in 1 .. Len(calls') : ShellAsks(calls'[i], known)
         /\ command.op \in {"cd", "whereis"} =>
              /\ Head(calls).op = "read_directory"
              /\ \A i \in 1 .. Len(calls') : calls'[i].op = "read_directory"
BY CallsLeft DEF NextCall, ReachInv, LooksAtListing

LEMMA ReachWriteFolder ==
  ASSUME ShellTypeInv, ReachInv, NEW r \in FAT32DriverRequest, ShellAsks(r, known),
         r.op = "write", r.buffer_size = 0,
         NEW index \in Clusters, WriteFolder(r, index)
  PROVE  /\ \A i \in 1 .. Len(queue') : HeadedCell(queue'[i].cell)
         /\ Headed(table') /\ UNCHANGED <<disk, known>>
         /\ pc' = "flush" /\ req' = r
<1> DEFINE p == r.parent_cluster_number
           t == MarkNotEmpty(Parent(r), p)
<1>1. /\ r.name \in FolderNames /\ p \in Clusters
      /\ Parent(r) \in FAT32DirectoryTable
  BY ParentType DEF ShellAsks, FolderNames, FAT32DriverRequest, ShellTypeInv, TypeInv
<1>2. /\ Parent(r)[0].attribute = ATTR_SUBDIRECTORY
      /\ table' = StoreEntry(t, FolderEntry(r, index))
      /\ queue' = Append(SaveOrder(p, fat', table'),
                         Item(index, DirCell(InitDirectoryTable(r.name, p))))
      /\ UNCHANGED <<disk, known>> /\ pc' = "flush" /\ req' = r
  BY DEF WriteFolder, WriteAccepted
<1>3. Headed(Parent(r))
  BY ParentHeaded DEF ReachInv, ShellTypeInv, TypeInv
<1>4. 0 \in Slots
  BY ClusterFacts
<1>5. t[0].attribute = ATTR_SUBDIRECTORY /\ t[0].name \in FolderNames
  <2>1. SameEntry(t[0], Parent(r)[0])
    BY <1>1, <1>4, MarkedEntries
  <2>2. Parent(r)[0].name \in FolderNames
    BY <1>2, <1>3, <1>4 DEF Headed
  <2> QED
    BY <1>2, <2>1, <2>2 DEF SameEntry
<1>6. Headed(table')
  <2>1. /\ FolderEntry(r, index).attribute = ATTR_SUBDIRECTORY
        /\ FolderEntry(r, index).name = r.name
    BY DEF FolderEntry
  <2> HIDE DEF t
  <2> QED
    BY <1>1, <1>2, <1>5, <2>1, StoreHeaded
<1>7. HeadedCell(Item(index, DirCell(InitDirectoryTable(r.name, p))).cell)
  BY <1>1, NewTableHeaded, HeadedCells DEF Item
<1> HIDE DEF t, p
<1>8. \A i \in 1 .. Len(queue') : HeadedCell(queue'[i].cell)
  BY <1>2, <1>6, <1>7, HeadedSaved
<1> QED
  BY <1>2, <1>6, <1>8

LEMMA ReachNextCall ==
  ASSUME ShellTypeInv, ReachInv, NextCall
  PROVE  ReachInv'
<1> DEFINE r == Head(calls)
<1>1. /\ r \in FAT32DriverRequest /\ ShellAsks(r, known)
      /\ Serve(r) /\ UNCHANGED <<cwd, command>>
      /\ \A i \in 1 .. Len(calls') : ShellAsks(calls'[i], known)
      /\ command.op \in {"cd", "whereis"} =>
           /\ r.op = "read_directory"
           /\ \A i \in 1 .. Len(calls') : calls'[i].op = "read_directory"
  BY ReachCallsLeft
<1> HIDE DEF r
<1>2. Headed(Parent(r))
  BY ParentHeaded DEF ReachInv, ShellTypeInv, TypeInv
<1>3. SUFFICES
        /\ \A c \in Clusters : HeadedCell(disk'[c])
        /\ \A i \in 1 .. Len(queue') : HeadedCell(queue'[i].cell)
        /\ Headed(table') /\ known' = known
        /\ pc' = "alloc" => req'.parent_cluster_number = ROOT_CLUSTER_NUMBER
        /\ r.op = "read_directory" => pc' = "return" /\ req' = r
        /\ ListingFound'
  BY <1>1 DEF ReachInv, LooksAtListing, ShellAsks, Headed
<1>4. CASE (\E c : Answer(r, c)) /\ ListingFound'
  BY <1>2, <1>4 DEF Answer, ReachInv
<1>5. CASE r.op = "write" /\ r.buffer_size > 0 /\ WriteFile(r)
  <2>1. /\ UNCHANGED <<disk, queue, known>> /\ req' = r
        /\ table' = MarkNotEmpty(Parent(r), r.parent_cluster_number)
    BY <1>5 DEF WriteFile, WriteAccepted
  <2>2. Headed(table')
    BY <1>2, <2>1, ParentType, MarkHeaded DEF ShellTypeInv, TypeInv
  <2> QED
    BY <1>1, <1>5, <2>1, <2>2 DEF ReachInv, ShellAsks, ListingFound
<1>6. CASE /\ r.op = "write" /\ r.buffer_size = 0
           /\ \E index \in Clusters : WriteFolder(r, index)
  BY <1>1, <1>6, ReachWriteFolder DEF ReachInv, ListingFound
<1>7. r.op = "read_directory" /\ ReadDirectory(r) =>
        (\E c : Answer(r, c)) /\ ListingFound'
  BY DEF ReadDirectory, Answer, ListingFound
<1>8. r.op = "write" /\ WriteRefused(r) =>
        (\E c : Answer(r, c)) /\ ListingFound'
  BY DEF WriteRefused, Answer, ListingFound
<1> QED
  BY <1>1, <1>4, <1>5, <1>6, <1>7, <1>8 DEF Serve

LEMMA ReachReturns ==
  ASSUME ShellTypeInv, ReachInv, Returns
  PROVE  ReachInv'
<1> DEFINE AllAsk(q) == \A i \in 1 .. Len(q) : ShellAsks(q[i], known')
<1>1. Return /\ pc = "return"
  BY DEF Returns, CdReturns, CdParentReturns, SearchReturns, SearchFrom,
         OtherReturns, Goes, Return
<1>2. /\ UNCHANGED <<disk, queue>> /\ pc' = "idle" /\ table' = ZeroTable
      /\ req' = NoRequest /\ known \subseteq known'
      /\ req.op = "read_directory" /\ code = 0 =>
           Subdirectories(table) \subseteq known'
  BY <1>1 DEF Return
<1>3. Headed(table')
  BY <1>2, ClusterFacts
     DEF Headed, ZeroTable, ZeroEntry, Unset, ATTR_SUBDIRECTORY
<1>4. table \in FAT32DirectoryTable /\ calls \in Seq(FAT32DriverRequest)
  BY DEF ShellTypeInv, ShellTypeOK, TypeInv, TypeOK
<1>5. ASSUME NEW s \in Slots, table[s].attribute = ATTR_SUBDIRECTORY,
             req.op = "read_directory", code = 0
      PROVE  table[s].cluster \in known'
  <2>1. table[s].cluster \in Clusters
    BY <1>4 DEF FAT32DirectoryTable, FAT32DirectoryEntry
  <2> QED
    BY <1>2, <1>5, <2>1 DEF Subdirectories
<1>6. AllAsk(calls)
  BY <1>2 DEF ReachInv, ShellAsks
<1>7. SUFFICES
        /\ {cwd'.currentCluster, cwd'.prevCluster} \subseteq known'
        /\ cwd'.cwdName \in FolderNames
        /\ AllAsk(calls')
        /\ LooksAtListing'
  BY <1>2, <1>3 DEF ReachInv, Headed, ListingFound, NoRequest
<1> HIDE DEF AllAsk
<1>8. AllAsk(<< >>)
  BY DEF AllAsk
<1>9. CASE CdReturns
  <2>1. /\ command.op = "cd" /\ command.name # ParentName
        /\ calls' = << >> /\ command' = NoCommand
        /\ req.op = "read_directory" /\ command.name \in FolderNames
    BY <1>1, <1>9 DEF CdReturns, Goes, ReachInv, LooksAtListing
  <2>2. LooksAtListing'
    BY <2>1 DEF LooksAtListing, NoCommand
  <2>3. CASE code = 0
    <3>1. PICK s \in Slots :
            /\ table[s].attribute = ATTR_SUBDIRECTORY
            /\ cwd' = [currentCluster |-> table[s].cluster,
                       cwdName |-> command.name,
                       prevCluster |-> cwd.currentCluster]
      BY <1>9, <2>3 DEF CdReturns, IsFirstFolder, IsFolder
    <3>2. table[s].cluster \in known' /\ cwd.currentCluster \in known'
      BY <1>2, <1>5, <2>1, <2>3, <3>1 DEF ReachInv
    <3> QED
      BY <1>8, <2>1, <2>2, <3>1, <3>2
  <2>4. CASE code # 0
    BY <1>2, <1>8, <1>9, <2>1, <2>2, <2>4 DEF CdReturns, ReachInv
  <2> QED
    BY <2>3, <2>4
<1>10. CASE CdParentReturns
  <2>1. /\ command.op = "cd"
        /\ calls' = << >> /\ command' = NoCommand
        /\ req.op = "read_directory"
        /\ cwd' = IF code = 0
                  THEN [currentCluster |-> table[0].cluster,
                        cwdName |-> table[0].name,
                        prevCluster |-> ROOT_CLUSTER_NUMBER]
                  ELSE cwd
    BY <1>1, <1>10 DEF CdParentReturns, Goes, ReachInv, LooksAtListing
  <2>2. LooksAtListing'
    BY <2>1 DEF LooksAtListing, NoCommand
  <2>3. CASE code = 0
    <3>1. \E s \in Slots : table[s].attribute = ATTR_SUBDIRECTORY
      BY <1>1, <2>1, <2>3 DEF ReachInv, ListingFound
    <3>2. table[0].attribute = ATTR_SUBDIRECTORY /\ table[0].name \in FolderNames
      BY <3>1 DEF ReachInv, Headed
    <3>3. table[0].cluster \in known'
      BY <1>5, <2>1, <2>3, <3>2, ClusterFacts
    <3> QED
      BY <1>2, <1>8, <2>1, <2>2, <2>3, <3>2, <3>3 DEF ReachInv
  <2>4. CASE code # 0
    BY <1>2, <1>8, <2>1, <2>2, <2>4 DEF ReachInv
  <2> QED
    BY <2>3, <2>4
<1>11. CASE SearchReturns
  <2>1. PICK slots \in [1 .. Cardinality(FolderSlots(1)) -> FolderSlots(1)] :
          Goes(IF code = 0
               THEN [i \in DOMAIN slots |->
                       Listing(table[slots[i]].cluster, command.name)] \o calls
               ELSE calls)
    BY <1>11 DEF SearchReturns, SearchFrom
  <2> DEFINE deeper == [i \in DOMAIN slots |->
                          Listing(table[slots[i]].cluster, command.name)]
  <2>2. /\ command.op = "whereis" /\ UNCHANGED cwd
        /\ req.op = "read_directory" /\ command.name \in FolderNames
        /\ command.name # ParentName
        /\ \A i \in 1 .. Len(calls) : calls[i].op = "read_directory"
    BY <1>1, <1>11 DEF SearchReturns, SearchFrom, ReachInv, LooksAtListing
  <2>3. /\ calls' = IF code = 0 THEN deeper \o calls ELSE calls
        /\ command' \in {NoCommand, command}
    BY <2>1 DEF Goes
  <2>4. /\ DOMAIN slots = 1 .. Cardinality(FolderSlots(1))
        /\ Cardinality(FolderSlots(1)) \in Nat
        /\ \A i \in DOMAIN slots : slots[i] \in Slots /\ IsFolder(table[slots[i]])
    BY FolderSlotsType DEF FolderSlots
  <2>5. ASSUME code = 0, NEW i \in DOMAIN slots
        PROVE  /\ deeper[i] \in FAT32DriverRequest
               /\ ShellAsks(deeper[i], known') /\ deeper[i].op = "read_directory"
    <3>1. /\ table[slots[i]].cluster \in known'
          /\ table[slots[i]].cluster \in Clusters
      BY <1>4, <1>5, <2>2, <2>4, <2>5
         DEF IsFolder, FAT32DirectoryTable, FAT32DirectoryEntry
    <3>2. command.name \in AnyName
      BY <2>2, FolderNamesType
    <3> QED
      BY <2>2, <3>1, <3>2, ListingType DEF Listing, ShellAsks, AnyExt
  <2>6. code = 0 => deeper \in Seq(FAT32DriverRequest)
    BY <2>4, <2>5, FunctionIsSeq
  <2> HIDE DEF deeper
  <2>7. \A i \in 1 .. Len(calls') : /\ ShellAsks(calls'[i], known')
                                    /\ calls'[i].op = "read_directory"
    <3>1. CASE code = 0
      <4>1. /\ Len(deeper) \in Nat /\ Len(calls) \in Nat
            /\ Len(deeper \o calls) = Len(deeper) + Len(calls)
            /\ DOMAIN deeper = 1 .. Len(deeper)
            /\ \A i \in 1 .. Len(deeper) + Len(calls) :
                 (deeper \o calls)[i] = IF i <= Len(deeper) THEN deeper[i]
                                        ELSE calls[i - Len(deeper)]
        BY <1>4, <2>6, <3>1, ConcatProperties, LenProperties
      <4>2. DOMAIN deeper = DOMAIN slots
        BY DEF deeper
      <4>3. \A i \in 1 .. Len(calls') :
              \/ i \in DOMAIN deeper /\ calls'[i] = deeper[i]
              \/ /\ i - Len(deeper) \in 1 .. Len(calls)
                 /\ calls'[i] = calls[i - Len(deeper)]
        BY <2>3, <3>1, <4>1
      <4> QED
        BY <1>6, <2>2, <2>5, <3>1, <4>2, <4>3 DEF AllAsk
    <3>2. CASE code # 0
      BY <1>6, <2>2, <2>3, <3>2 DEF AllAsk
    <3> QED
      BY <3>1, <3>2
  <2>8. LooksAtListing'
    BY <1>2, <2>2, <2>3, <2>7 DEF LooksAtListing, NoCommand
  <2> QED
    BY <1>2, <2>2, <2>7, <2>8 DEF ReachInv, AllAsk
<1>12. CASE OtherReturns
  <2>1. /\ calls' = calls /\ UNCHANGED cwd
        /\ command.op \in {"main", "ls", "mkdir"}
        /\ command' \in {NoCommand, command}
    BY <1>12 DEF OtherReturns, Goes
  <2>2. LooksAtListing'
    BY <2>1 DEF LooksAtListing, NoCommand
  <2> QED
    BY <1>2, <1>6, <2>1, <2>2 DEF ReachInv
<1> QED
  BY <1>9, <1>10, <1>11, <1>12 DEF Returns

LEMMA ReachKernelStep ==
  ASSUME ShellTypeInv, SafeInv, ReachInv, KernelStep
  PROVE  ReachInv'
<1>1. UNCHANGED <<cwd, command, calls, known>>
  BY DEF KernelStep, CreateFat32, AllocateCluster, AllocateLastCluster,
         FlushWrite
<1>2. LooksAtListing'
  BY <1>1 DEF KernelStep, CreateFat32, AllocateCluster, AllocateLastCluster,
              PlaceData, FlushWrite, ReachInv, LooksAtListing
<1>3. SUFFICES
        /\ \A c \in Clusters : HeadedCell(disk'[c])
        /\ \A i \in 1 .. Len(queue') : HeadedCell(queue'[i].cell)
        /\ Headed(table') /\ ListingFound'
        /\ pc' = "alloc" => req'.parent_cluster_number = ROOT_CLUSTER_NUMBER
  BY <1>1, <1>2 DEF ReachInv, ShellAsks, Headed
<1>4. CASE CreateFat32
  <2>1. /\ UNCHANGED <<disk, table, req>> /\ pc' = "format"
        /\ queue' = FormatWrites
    BY <1>4 DEF CreateFat32, FormatWrites
  <2>2. Headed(RootTable)
    BY NewTableHeaded DEF RootTable, FolderNames
  <2>3. \A i \in 1 .. Len(FormatWrites) : HeadedCell(FormatWrites[i].cell)
    BY <2>2, HeadedCells DEF FormatWrites, Item
  <2> QED
    BY <2>1, <2>3 DEF ReachInv, ListingFound, Headed
<1>5. ASSUME NEW i \in Clusters, PlaceData(i)
      PROVE  \A c \in Clusters : HeadedCell(disk'[c])
  BY <1>5, HeadedCells DEF PlaceData, WriteCluster, ReachInv
<1>6. CASE \E i \in Clusters : AllocateCluster(i)
  <2>1. \A c \in Clusters : HeadedCell(disk'[c])
    BY <1>5, <1>6 DEF AllocateCluster
  <2>2. pc = "alloc" /\ UNCHANGED <<table, pc, req, queue>>
    BY <1>6 DEF AllocateCluster, PlaceData
  <2> QED
    BY <2>1, <2>2 DEF ReachInv, ListingFound, Headed
<1>7. CASE \E i \in Clusters : AllocateLastCluster(i)
  <2>1. \A c \in Clusters : HeadedCell(disk'[c])
    BY <1>5, <1>7 DEF AllocateLastCluster
  <2>2. PICK m, start, size : SaveFile(m, start, size)
    BY <1>7 DEF AllocateLastCluster
  <2>3. pc = "alloc" /\ req' = req
    BY <1>7 DEF AllocateLastCluster, PlaceData
  <2>4. IsRootTable(table)
    <3>1. SafeCell(req.parent_cluster_number, DirCell(table))
      BY <2>3 DEF SafeInv, CallSafe
    <3>2. IsRoot(DirCell(table))
      BY <2>3, <3>1 DEF SafeCell, ReachInv
    <3> QED
      BY <3>2, CellKinds DEF IsRoot
  <2>5. Headed(table')
    BY <2>2, <2>4, StoreHeaded, LayoutAssumption
       DEF SaveFile, IsRootTable, FolderNames
  <2>6. \A i \in 1 .. Len(queue') : HeadedCell(queue'[i].cell)
    BY <2>2, <2>5, HeadedSaved DEF SaveFile
  <2> QED
    BY <2>1, <2>2, <2>3, <2>5, <2>6 DEF SaveFile, ReachInv, ListingFound
<1>8. CASE FlushWrite
  <2>1. queue \in Seq(Items) /\ queue # <<>>
    BY <1>8 DEF FlushWrite, ShellTypeInv, TypeInv, TypeOK, QueueOK
  <2>2. /\ Len(queue) \in Nat /\ Len(queue) > 0 /\ Head(queue) = queue[1]
        /\ queue' = Tail(queue) /\ Len(queue') = Len(queue) - 1
        /\ \A i \in 1 .. Len(queue') : queue'[i] = queue[i + 1]
    BY <1>8, <2>1, EmptySeq, LenProperties, HeadTailProperties DEF FlushWrite
  <2>3. HeadedCell(Head(queue).cell)
    BY <2>2 DEF ReachInv
  <2>4. \A c \in Clusters : HeadedCell(disk'[c])
    BY <1>8, <2>3 DEF FlushWrite, WriteCluster, ReachInv
  <2>5. \A i \in 1 .. Len(queue') : HeadedCell(queue'[i].cell)
    BY <2>2 DEF ReachInv
  <2>6. /\ UNCHANGED <<table, req>> /\ pc \in {"format", "flush"}
        /\ pc' \in {pc, "idle", "return"}
        /\ pc = "format" => pc' # "return"
    BY <1>8 DEF FlushWrite
  <2> QED
    BY <2>4, <2>5, <2>6 DEF ReachInv, ListingFound, Headed
<1> QED
  BY <1>4, <1>6, <1>7, <1>8 DEF KernelStep

LEMMA ShellSafe ==
  ASSUME ShellTypeInv, SafeInv, ReachInv, [ShellNext]_shellVars
  PROVE  SafeInv'
<1>1. TypeInv'
  BY ShellTypeStep DEF ShellTypeInv
<1>2. CASE NextCall
  <2>1. /\ Head(calls) \in FAT32DriverRequest
        /\ Head(calls).parent_cluster_number \in known
        /\ Serve(Head(calls))
    BY <1>2, ReachCallsLeft DEF ShellAsks
  <2> QED
    BY <1>1, <2>1, SafeReadDirectory, SafeWriteRefused, SafeWriteFile,
       SafeWriteFolder DEF Serve
<1>3. CASE Returns
  <2>1. Return
    BY <1>3 DEF Returns, CdReturns, CdParentReturns, SearchReturns,
                SearchFrom, OtherReturns, Goes
  <2> QED
    BY <1>1, <2>1, SafeReturn
<1>4. CASE KernelStep
  BY <1>1, <1>4, SafeBoot, SafeAllocate, SafeFlushWrite DEF KernelStep
<1>5. CASE Typed \/ UNCHANGED shellVars
  <2>1. UNCHANGED vars
    BY <1>5 DEF Typed, Cd, CdParent, Ls, Mkdir, Whereis, Run, shellVars
  <2> QED
    BY <1>1, <2>1 DEF vars, locals, SafeInv, DiskSafe, FormatSafe,
                      QueueSafe, CallSafe
<1> QED
  BY <1>2, <1>3, <1>4, <1>5 DEF ShellNext

LEMMA ReachStep ==
  ASSUME ShellTypeInv, SafeInv, ReachInv, [ShellNext]_shellVars
  PROVE  ShellTypeInv' /\ SafeInv' /\ ReachInv'
<1>1. ShellTypeInv' /\ SafeInv'
  BY ShellTypeStep, ShellSafe
<1>2. CASE UNCHANGED shellVars
  <2>1. UNCHANGED <<disk, table, pc, req, queue, code, known, cwd, command,
                    calls>>
    BY <1>2 DEF shellVars, vars
  <2> QED
    BY <1>1, <2>1
       DEF ReachInv, LooksAtListing, ListingFound, Headed, ShellAsks
<1> QED
  BY <1>1, <1>2, ReachTyped, ReachNextCall, ReachReturns, ReachKernelStep
     DEF ShellNext

-----------------------------------------------------------------------------
(* The driver with a caller that asks no more than the shell does: only    *)
(* folders and main's files, folders without an extension, and no loss of  *)
(* power.                                                                  *)

Plain == INSTANCE Fat32RefinementProofs WITH
           CallerOps <- {"write", "read_directory"},
           CallerNames <- CallerNames \cup StartNames,
           FolderExts <- {NoExt}, FileSizes <- Nat \ {0}, ReadSizes <- {},
           ListingSizes <- {ClusterSize}, DeleteSizes <- {},
           PowerFailsAt <- {}

\* The instance has the layout and the operators of the driver.
LEMMA PlainConstants ==
  /\ Plain!Clusters = Clusters /\ Plain!Slots = Slots
  /\ Plain!BOOT_SECTOR = BOOT_SECTOR
  /\ Plain!FAT_CLUSTER_NUMBER = FAT_CLUSTER_NUMBER
  /\ Plain!ROOT_CLUSTER_NUMBER = ROOT_CLUSTER_NUMBER
  /\ Plain!FAT32_FAT_END_OF_FILE = FAT32_FAT_END_OF_FILE
  /\ Plain!CLUSTER_0_VALUE = CLUSTER_0_VALUE
  /\ Plain!CLUSTER_1_VALUE = CLUSTER_1_VALUE
  /\ Plain!ATTR_SUBDIRECTORY = ATTR_SUBDIRECTORY
  /\ Plain!UATTR_NOT_EMPTY = UATTR_NOT_EMPTY
  /\ Plain!Unset = Unset
  /\ Plain!ZeroEntry = ZeroEntry
  /\ Plain!Blank = Blank /\ Plain!Signature = Signature
  /\ Plain!Junk = Junk
BY DEF Clusters, Plain!Clusters, Slots, Plain!Slots, BOOT_SECTOR,
   Plain!BOOT_SECTOR, FAT_CLUSTER_NUMBER, Plain!FAT_CLUSTER_NUMBER,
   ROOT_CLUSTER_NUMBER, Plain!ROOT_CLUSTER_NUMBER, FAT32_FAT_END_OF_FILE,
   Plain!FAT32_FAT_END_OF_FILE, CLUSTER_0_VALUE, Plain!CLUSTER_0_VALUE,
   CLUSTER_1_VALUE, Plain!CLUSTER_1_VALUE, ATTR_SUBDIRECTORY,
   Plain!ATTR_SUBDIRECTORY, UATTR_NOT_EMPTY, Plain!UATTR_NOT_EMPTY, Unset,
   Plain!Unset, ZeroEntry, Plain!ZeroEntry, Blank, Plain!Blank, Signature,
   Plain!Signature, Junk, Plain!Junk

LEMMA PlainTables ==
  /\ Plain!ZeroMap = ZeroMap /\ Plain!FormattedMap = FormattedMap
  /\ Plain!ZeroTable = ZeroTable /\ Plain!JunkTable = JunkTable
  /\ \A m, c : Plain!Link(m, c) = Link(m, c)
  /\ \A m, c, v : Plain!SetLink(m, c, v) = SetLink(m, c, v)
  /\ \A m, k, i : Plain!IsFirstFree(m, k, i) <=> IsFirstFree(m, k, i)
  /\ \A m, k : Plain!NoneFree(m, k) <=> NoneFree(m, k)
  /\ \A n, p : Plain!InitDirectoryTable(n, p) = InitDirectoryTable(n, p)
  /\ \A t, r : Plain!Duplicate(t, r) <=> Duplicate(t, r)
  /\ \A t, s : Plain!IsFirstUnused(t, s) <=> IsFirstUnused(t, s)
  /\ \A t, p : Plain!MarkNotEmpty(t, p) = MarkNotEmpty(t, p)
  /\ \A r, c, n : Plain!FileEntry(r, c, n) = FileEntry(r, c, n)
  /\ \A r, c : Plain!FolderEntry(r, c) = FolderEntry(r, c)
BY PlainConstants DEF ZeroMap, Plain!ZeroMap, FormattedMap, Plain!FormattedMap,
   ZeroTable, Plain!ZeroTable, JunkTable, Plain!JunkTable, Link, Plain!Link,
   SetLink, Plain!SetLink, IsFirstFree, Plain!IsFirstFree, NoneFree,
   Plain!NoneFree, InitDirectoryTable, Plain!InitDirectoryTable, Duplicate,
   Plain!Duplicate, IsFirstUnused, Plain!IsFirstUnused, MarkNotEmpty,
   Plain!MarkNotEmpty, FileEntry, Plain!FileEntry, FolderEntry,
   Plain!FolderEntry

LEMMA PlainClusters ==
  /\ \A t, e : Plain!StoreEntry(t, e) = StoreEntry(t, e)
  /\ \A m : Plain!FatCell(m) = FatCell(m)
  /\ \A t : Plain!DirCell(t) = DirCell(t)
  /\ \A n, x, k : Plain!DataCell(n, x, k) = DataCell(n, x, k)
  /\ \A cell : Plain!AsTable(cell) = AsTable(cell)
  /\ \A cell : Plain!AsFat(cell) = AsFat(cell)
  /\ \A d, c : Plain!ReadCluster(d, c) = ReadCluster(d, c)
  /\ \A d, c, cell : Plain!WriteCluster(d, c, cell) = WriteCluster(d, c, cell)
  /\ \A c, cell : Plain!Item(c, cell) = Item(c, cell)
BY PlainConstants, PlainTables DEF StoreEntry, Plain!StoreEntry, FatCell,
   Plain!FatCell, DirCell, Plain!DirCell, DataCell, Plain!DataCell, AsTable,
   Plain!AsTable, AsFat, Plain!AsFat, ReadCluster, Plain!ReadCluster,
   WriteCluster, Plain!WriteCluster, Item, Plain!Item

LEMMA PlainHelpers ==
  /\ \A r : Plain!Parent(r) = Parent(r)
  /\ \A t : Plain!Subdirectories(t) = Subdirectories(t)
  /\ \A p, m, t : Plain!SaveOrder(p, m, t) = SaveOrder(p, m, t)
  /\ \A i : Plain!Chained(i) = Chained(i)
  /\ Plain!RootTable = RootTable /\ Plain!NoRequest = NoRequest
  /\ Plain!vars = vars
BY PlainConstants, PlainTables, PlainClusters DEF Parent, Plain!Parent,
   Subdirectories, Plain!Subdirectories, SaveOrder, Plain!SaveOrder,
   Chained, Plain!Chained, RootTable, Plain!RootTable, NoRequest, Plain!NoRequest, vars, Plain!vars,
   locals, Plain!locals

LEMMA PlainCalls ==
  ASSUME NEW r
  PROVE  /\ ReadDirectory(r) => Plain!ReadDirectory(r)
         /\ WriteRefused(r) => Plain!WriteRefused(r)
         /\ WriteFile(r) => Plain!WriteFile(r)
         /\ \A index : WriteFolder(r, index) => Plain!WriteFolder(r, index)
<1>1. \A c : Answer(r, c) => Plain!Answer(r, c)
  BY PlainHelpers DEF Answer, Plain!Answer, locals, Plain!locals
<1>2. ReadDirectory(r) => Plain!ReadDirectory(r)
  BY <1>1, PlainConstants, PlainHelpers DEF ReadDirectory, Plain!ReadDirectory
<1>3. WriteRefused(r) => Plain!WriteRefused(r)
  BY <1>1, PlainConstants, PlainTables, PlainHelpers
     DEF WriteRefused, Plain!WriteRefused
<1>4. WriteAccepted(r) <=> Plain!WriteAccepted(r)
  BY PlainConstants, PlainTables, PlainHelpers
     DEF WriteAccepted, Plain!WriteAccepted
<1>5. WriteFile(r) => Plain!WriteFile(r)
  BY <1>4, PlainConstants, PlainTables, PlainClusters, PlainHelpers
     DEF WriteFile, Plain!WriteFile
<1>6. \A index : WriteFolder(r, index) => Plain!WriteFolder(r, index)
  BY <1>4, PlainConstants, PlainTables, PlainClusters, PlainHelpers
     DEF WriteFolder, Plain!WriteFolder, locals, Plain!locals
<1> QED
  BY <1>2, <1>3, <1>5, <1>6

LEMMA PlainKernel ==
  /\ Init => Plain!Init
  /\ CreateFat32 => Plain!CreateFat32
  /\ \A i : AllocateCluster(i) => Plain!AllocateCluster(i)
  /\ \A i : AllocateLastCluster(i) => Plain!AllocateLastCluster(i)
  /\ FlushWrite => Plain!FlushWrite
  /\ Return => Plain!Return
<1>1. Init => Plain!Init
  BY PlainConstants, PlainTables, PlainHelpers DEF Init, Plain!Init
<1>2. CreateFat32 => Plain!CreateFat32
  BY PlainConstants, PlainTables, PlainClusters, PlainHelpers
     DEF CreateFat32, Plain!CreateFat32, is_empty_storage,
         Plain!is_empty_storage, locals, Plain!locals
<1>3. \A m, c, n : SaveFile(m, c, n) <=> Plain!SaveFile(m, c, n)
  BY PlainTables, PlainClusters, PlainHelpers DEF SaveFile, Plain!SaveFile
<1>4. \A i : PlaceData(i) <=> Plain!PlaceData(i)
  BY PlainTables, PlainClusters DEF PlaceData, Plain!PlaceData
<1>5. \A i : AllocateCluster(i) => Plain!AllocateCluster(i)
  BY <1>4, PlainHelpers DEF AllocateCluster, Plain!AllocateCluster
<1>6. \A i : AllocateLastCluster(i) => Plain!AllocateLastCluster(i)
  BY <1>3, <1>4, PlainConstants, PlainTables, PlainHelpers
     DEF AllocateLastCluster, Plain!AllocateLastCluster
<1>7. FlushWrite => Plain!FlushWrite
  BY PlainClusters DEF FlushWrite, Plain!FlushWrite, locals, Plain!locals
<1>8. Return => Plain!Return
  BY PlainTables, PlainHelpers DEF Return, Plain!Return
<1> QED
  BY <1>1, <1>2, <1>5, <1>6, <1>7, <1>8

\* What the shell asks for is in the driver's sets of requests.
LEMMA PlainRequests ==
  ASSUME NEW r \in FAT32DriverRequest, ShellAsks(r, known)
  PROVE  /\ r.op = "read_directory" => r \in Plain!ListingRequests
         /\ r.op = "write" /\ r.buffer_size = 0 => r \in Plain!FolderRequests
         /\ r.op = "write" /\ r.buffer_size > 0 => r \in Plain!FileRequests
<1>1. /\ r = [op |-> r.op, name |-> r.name, ext |-> r.ext,
              parent_cluster_number |-> r.parent_cluster_number,
              buffer_size |-> r.buffer_size]
      /\ r.buffer_size \in Nat
  BY DEF FAT32DriverRequest
<1>2. /\ r.parent_cluster_number \in known
      /\ r.ext \in Exts \cup {NoExt}
  BY DEF ShellAsks, AnyExt
<1>3. ASSUME r.op = "read_directory" PROVE r \in Plain!ListingRequests
  <2>1. r.name \in FolderNames /\ r.ext = NoExt /\ r.buffer_size = ClusterSize
    BY <1>3 DEF ShellAsks
  <2>2. r.name \in (CallerNames \cup StartNames) \cup {RootName}
    BY <2>1 DEF FolderNames
  <2> QED
    BY <1>1, <1>2, <1>3, <2>1, <2>2 DEF Plain!ListingRequests, Plain!Request
<1>4. ASSUME r.op = "write", r.buffer_size = 0 PROVE r \in Plain!FolderRequests
  <2>1. r.name \in CallerNames \cup StartNames /\ r.ext = NoExt
    BY <1>4 DEF ShellAsks
  <2> QED
    BY <1>1, <1>2, <1>4, <2>1 DEF Plain!FolderRequests, Plain!Request
<1>5. ASSUME r.op = "write", r.buffer_size > 0 PROVE r \in Plain!FileRequests
  <2>1. r.name \in CallerNames \cup StartNames /\ r.buffer_size \in Nat \ {0}
    BY <1>1, <1>5 DEF ShellAsks
  <2> QED
    BY <1>1, <1>2, <1>5, <2>1
       DEF Plain!FileRequests, Plain!FileExts, Plain!Request
<1> QED
  BY <1>3, <1>4, <1>5

LEMMA ShellCalls ==
  ASSUME ShellTypeInv, ReachInv, [ShellNext]_shellVars
  PROVE  [Plain!Next]_(Plain!vars)
<1>1. CASE NextCall
  <2> DEFINE r == Head(calls)
  <2>1. r \in FAT32DriverRequest /\ ShellAsks(r, known) /\ Serve(r)
    BY <1>1, ReachCallsLeft
  <2> HIDE DEF r
  <2>2. /\ r.op = "read_directory" => r \in Plain!ListingRequests
        /\ r.op = "write" /\ r.buffer_size = 0 => r \in Plain!FolderRequests
        /\ r.op = "write" /\ r.buffer_size > 0 => r \in Plain!FileRequests
    BY <2>1, PlainRequests
  <2>3. r.buffer_size = 0 \/ r.buffer_size > 0
    BY <2>1 DEF FAT32DriverRequest
  <2>4. Plain!Call
    BY <2>1, <2>2, <2>3, PlainConstants, PlainCalls DEF Serve, Plain!Call
  <2> QED
    BY <2>4 DEF Plain!Next
<1>2. CASE Returns
  <2>1. Return
    BY <1>2 DEF Returns, CdReturns, CdParentReturns, SearchReturns,
                SearchFrom, OtherReturns, Goes
  <2> QED
    BY <2>1, PlainKernel DEF Plain!Next, Plain!Kernel
<1>3. CASE KernelStep
  BY <1>3, PlainConstants, PlainKernel
     DEF KernelStep, Plain!Next, Plain!Kernel
<1>4. CASE Typed \/ UNCHANGED shellVars
  <2>1. UNCHANGED vars
    BY <1>4 DEF Typed, Cd, CdParent, Ls, Mkdir, Whereis, Run, shellVars
  <2> QED
    BY <2>1 DEF vars, locals, Plain!vars, Plain!locals
<1> QED
  BY <1>1, <1>2, <1>3, <1>4 DEF ShellNext

\* Whatever is typed, the shell is a caller of the driver as its theorems
\* suppose it: it sends write and read_directory (user-shell.c, commands.c:32-152)
\* requests of the form they allow, about directories whose clusters it found
\* in a table it was given, and every step of the machine is one of the driver.
THEOREM ShellCallsTheDriver == ShellSpec => Plain!Spec
<1>1. ShellInit => ShellTypeInv /\ SafeInv /\ ReachInv /\ Plain!Init
  BY ShellTypeInit, SafeInit, ReachInit, PlainKernel DEF ShellInit
<1>2. ShellTypeInv /\ SafeInv /\ ReachInv /\ [ShellNext]_shellVars
        => (ShellTypeInv /\ SafeInv /\ ReachInv)'
  BY ReachStep
<1>3. ShellTypeInv /\ ReachInv /\ [ShellNext]_shellVars
        => [Plain!Next]_(Plain!vars)
  BY ShellCalls
<1> QED
  BY <1>1, <1>2, <1>3, PTL DEF ShellSpec, Plain!Spec

\* The instance's assumptions about constants.
LEMMA PlainAssumptions ==
  /\ Plain!LayoutAssumption
  /\ Plain!RequestAssumption
<1>1. Plain!LayoutAssumption
  BY LayoutAssumption DEF Plain!LayoutAssumption
<1>2. StartNames \subseteq AnyName
  <2> DEFINE Files == [name : AnyName, ext : AnyExt, buffer_size : Nat \ {0}]
  <2>1. \A i \in DOMAIN StartFiles : StartFiles[i] \in Files
    <3>1. StartFiles \in Seq(Files)
      BY ShellAssumption
    <3> HIDE DEF Files
    <3> QED
      BY <3>1, LenProperties
  <2> QED
    BY <2>1 DEF StartNames
<1>3. Plain!RequestAssumption
  BY <1>2, RequestAssumption, LayoutAssumption
     DEF Plain!RequestAssumption, Plain!AnyName, AnyName, Plain!AnyExt,
         Plain!Ops, Plain!Phases
<1> QED
  BY <1>1, <1>3

\* While the shell runs, no directory table on the disk gets two entries of the
\* same name and extension (fat32.c:147-157), the FAT and the root directory
\* stay what they are, and no folder is listed before its cluster is taken.
THEOREM ShellKeepsTheTables ==
  ShellSpec => /\ []NamesUnique
               /\ []ReservedClustersIntact
               /\ FoldersListedAfterAllocation
<1>1. Plain!LayoutAssumption /\ Plain!RequestAssumption
  BY PlainAssumptions
<1>2. Plain!Spec => []Plain!NamesUnique
  <2>1. Plain!WholeWrites
    BY DEF Plain!WholeWrites
  <2> QED
    BY <1>1, <2>1, Plain!NoNameTwice
<1>3. Plain!Spec => []Plain!ReservedClustersIntact
  BY <1>1, Plain!ReservedClustersKept
<1>4. Plain!Spec => Plain!FoldersListedAfterAllocation
  BY <1>1, Plain!FoldersListedLate
<1>5. Plain!NamesUnique => NamesUnique
  BY PlainConstants DEF NamesUnique, Plain!NamesUnique
<1>6. Plain!ReservedClustersIntact => ReservedClustersIntact
  BY PlainConstants DEF ReservedClustersIntact, Plain!ReservedClustersIntact,
     IsFat, Plain!IsFat, IsRoot, Plain!IsRoot, IsRootTable, Plain!IsRootTable
<1>7. Plain!FoldersListedAfterAllocation => FoldersListedAfterAllocation
  <2>1. [\A c \in Plain!Clusters, s \in Plain!Slots \ {0} :
           Plain!FolderAppears(c, s) =>
             Plain!AsFat(disk[Plain!FAT_CLUSTER_NUMBER])
               [disk'[c].entries[s].cluster]
                 = Plain!FAT32_FAT_END_OF_FILE]_(Plain!vars)
        => [\A c \in Clusters, s \in Slots \ {0} :
              FolderAppears(c, s) =>
                AsFat(disk[FAT_CLUSTER_NUMBER])[disk'[c].entries[s].cluster]
                  = FAT32_FAT_END_OF_FILE]_vars
    <3>1. \A c, s : Plain!FolderAppears(c, s) <=> FolderAppears(c, s)
      BY PlainConstants DEF FolderAppears, Plain!FolderAppears
    <3>2. UNCHANGED Plain!vars => UNCHANGED vars
      BY DEF vars, locals, Plain!vars, Plain!locals
    <3> QED
      BY <3>1, <3>2, PlainConstants, PlainClusters
  <2> QED
    BY <2>1, PTL DEF FoldersListedAfterAllocation,
                     Plain!FoldersListedAfterAllocation
<1> QED
  BY <1>2, <1>3, <1>4, <1>5, <1>6, <1>7, ShellCallsTheDriver, PTL

\* If nobody types the name of the root directory or no name, and main's files
\* have neither, then what mkdir and main do to the root directory takes effect
\* in one step and is what RootDirectory promises: the shell over the driver
\* implements it.
THEOREM ShellImplementsRootDirectory ==
  ASSUME {NoName, RootName} \cap (CallerNames \cup StartNames) = {}
  PROVE  ShellSpec => Plain!RootImplemented
<1>1. Plain!PlainUse
  BY DEF Plain!PlainUse
<1>2. Plain!Spec => Plain!RootImplemented
  BY <1>1, PlainAssumptions, Plain!ImplementsRootDirectory
<1> QED
  BY <1>2, ShellCallsTheDriver, PTL

-----------------------------------------------------------------------------
(* The driver with a caller that asks what it likes.  The commands on files *)
(* need one: cp of a file without contents asks for a folder with an       *)
(* extension (commands.c:342, fat32.c:164).                                *)

Driver == INSTANCE Fat32Proofs WITH
            CallerOps <- Ops, CallerNames <- AnyName, FolderExts <- AnyExt,
            FileSizes <- Nat \ {0}, ReadSizes <- Nat, ListingSizes <- Nat,
            DeleteSizes <- Nat, PowerFailsAt <- {}

\* The instance has the layout and the operators of the driver.
LEMMA DriverConstants ==
  /\ Driver!Clusters = Clusters /\ Driver!Slots = Slots
  /\ Driver!BOOT_SECTOR = BOOT_SECTOR
  /\ Driver!FAT_CLUSTER_NUMBER = FAT_CLUSTER_NUMBER
  /\ Driver!ROOT_CLUSTER_NUMBER = ROOT_CLUSTER_NUMBER
  /\ Driver!FAT32_FAT_END_OF_FILE = FAT32_FAT_END_OF_FILE
  /\ Driver!CLUSTER_0_VALUE = CLUSTER_0_VALUE
  /\ Driver!CLUSTER_1_VALUE = CLUSTER_1_VALUE
  /\ Driver!ATTR_SUBDIRECTORY = ATTR_SUBDIRECTORY
  /\ Driver!UATTR_NOT_EMPTY = UATTR_NOT_EMPTY
  /\ Driver!Unset = Unset
  /\ Driver!ZeroEntry = ZeroEntry
  /\ Driver!Blank = Blank /\ Driver!Signature = Signature
  /\ Driver!Junk = Junk
BY DEF Clusters, Driver!Clusters, Slots, Driver!Slots, BOOT_SECTOR,
   Driver!BOOT_SECTOR, FAT_CLUSTER_NUMBER, Driver!FAT_CLUSTER_NUMBER,
   ROOT_CLUSTER_NUMBER, Driver!ROOT_CLUSTER_NUMBER, FAT32_FAT_END_OF_FILE,
   Driver!FAT32_FAT_END_OF_FILE, CLUSTER_0_VALUE, Driver!CLUSTER_0_VALUE,
   CLUSTER_1_VALUE, Driver!CLUSTER_1_VALUE, ATTR_SUBDIRECTORY,
   Driver!ATTR_SUBDIRECTORY, UATTR_NOT_EMPTY, Driver!UATTR_NOT_EMPTY, Unset,
   Driver!Unset, ZeroEntry, Driver!ZeroEntry, Blank, Driver!Blank, Signature,
   Driver!Signature, Junk, Driver!Junk

LEMMA DriverTables ==
  /\ Driver!ZeroMap = ZeroMap /\ Driver!FormattedMap = FormattedMap
  /\ Driver!ZeroTable = ZeroTable /\ Driver!JunkTable = JunkTable
  /\ \A m, c : Driver!Link(m, c) = Link(m, c)
  /\ \A m, c, v : Driver!SetLink(m, c, v) = SetLink(m, c, v)
  /\ \A m, k, i : Driver!IsFirstFree(m, k, i) <=> IsFirstFree(m, k, i)
  /\ \A m, k : Driver!NoneFree(m, k) <=> NoneFree(m, k)
  /\ \A n, p : Driver!InitDirectoryTable(n, p) = InitDirectoryTable(n, p)
  /\ \A t, r : Driver!Duplicate(t, r) <=> Duplicate(t, r)
  /\ \A t, s : Driver!IsFirstUnused(t, s) <=> IsFirstUnused(t, s)
  /\ \A t, p : Driver!MarkNotEmpty(t, p) = MarkNotEmpty(t, p)
  /\ \A r, c, n : Driver!FileEntry(r, c, n) = FileEntry(r, c, n)
  /\ \A r, c : Driver!FolderEntry(r, c) = FolderEntry(r, c)
BY DriverConstants DEF ZeroMap, Driver!ZeroMap, FormattedMap, Driver!FormattedMap,
   ZeroTable, Driver!ZeroTable, JunkTable, Driver!JunkTable, Link, Driver!Link,
   SetLink, Driver!SetLink, IsFirstFree, Driver!IsFirstFree, NoneFree,
   Driver!NoneFree, InitDirectoryTable, Driver!InitDirectoryTable, Duplicate,
   Driver!Duplicate, IsFirstUnused, Driver!IsFirstUnused, MarkNotEmpty,
   Driver!MarkNotEmpty, FileEntry, Driver!FileEntry, FolderEntry,
   Driver!FolderEntry

LEMMA DriverClusters ==
  /\ \A t, e : Driver!StoreEntry(t, e) = StoreEntry(t, e)
  /\ \A m : Driver!FatCell(m) = FatCell(m)
  /\ \A t : Driver!DirCell(t) = DirCell(t)
  /\ \A n, x, k : Driver!DataCell(n, x, k) = DataCell(n, x, k)
  /\ \A cell : Driver!AsTable(cell) = AsTable(cell)
  /\ \A cell : Driver!AsFat(cell) = AsFat(cell)
  /\ \A d, c : Driver!ReadCluster(d, c) = ReadCluster(d, c)
  /\ \A d, c, cell : Driver!WriteCluster(d, c, cell) = WriteCluster(d, c, cell)
  /\ \A c, cell : Driver!Item(c, cell) = Item(c, cell)
BY DriverConstants, DriverTables DEF StoreEntry, Driver!StoreEntry, FatCell,
   Driver!FatCell, DirCell, Driver!DirCell, DataCell, Driver!DataCell, AsTable,
   Driver!AsTable, AsFat, Driver!AsFat, ReadCluster, Driver!ReadCluster,
   WriteCluster, Driver!WriteCluster, Item, Driver!Item

LEMMA DriverHelpers ==
  /\ \A r : Driver!Parent(r) = Parent(r)
  /\ \A t : Driver!Subdirectories(t) = Subdirectories(t)
  /\ \A t, r, s : Driver!IsFirstNamed(t, r, s) <=> IsFirstNamed(t, r, s)
  /\ \A p, m, t : Driver!SaveOrder(p, m, t) = SaveOrder(p, m, t)
  /\ \A i : Driver!Chained(i) = Chained(i)
  /\ \A t, r, s : Driver!Deletable(t, r, s) <=> Deletable(t, r, s)
  /\ \A e : Driver!IsNotEmptyFolder(e) <=> IsNotEmptyFolder(e)
  /\ Driver!RootTable = RootTable /\ Driver!NoRequest = NoRequest
  /\ Driver!vars = vars
BY DriverConstants, DriverTables, DriverClusters DEF Parent, Driver!Parent,
   Subdirectories, Driver!Subdirectories, IsFirstNamed, Driver!IsFirstNamed,
   SaveOrder, Driver!SaveOrder, Chained, Driver!Chained, Deletable,
   Driver!Deletable, IsNotEmptyFolder, Driver!IsNotEmptyFolder, RootTable,
   Driver!RootTable, NoRequest, Driver!NoRequest, vars, Driver!vars,
   locals, Driver!locals

LEMMA DriverAnswers ==
  ASSUME NEW r
  PROVE  /\ \A c : Answer(r, c) => Driver!Answer(r, c)
         /\ ReadDirectory(r) => Driver!ReadDirectory(r)
         /\ ReadNotFound(r) => Driver!ReadNotFound(r)
         /\ ReadNothing(r) => Driver!ReadNothing(r)
         /\ WriteRefused(r) => Driver!WriteRefused(r)
         /\ DeleteRefused(r) => Driver!DeleteRefused(r)
<1>1. \A c : Answer(r, c) => Driver!Answer(r, c)
  BY DriverHelpers DEF Answer, Driver!Answer, locals, Driver!locals
<1>2. \A t, s : Driver!IsFirstDeletable(t, r, s) <=> IsFirstDeletable(t, r, s)
  BY DriverConstants, DriverHelpers DEF IsFirstDeletable, Driver!IsFirstDeletable
<1>3. ReadDirectory(r) => Driver!ReadDirectory(r)
  BY <1>1, DriverConstants, DriverHelpers DEF ReadDirectory, Driver!ReadDirectory
<1>4. ReadNotFound(r) => Driver!ReadNotFound(r)
  BY <1>1, DriverTables, DriverHelpers DEF ReadNotFound, Driver!ReadNotFound
<1>5. ReadNothing(r) => Driver!ReadNothing(r)
  BY <1>1, DriverConstants, DriverHelpers DEF ReadNothing, Driver!ReadNothing
<1>6. WriteRefused(r) => Driver!WriteRefused(r)
  BY <1>1, DriverConstants, DriverTables, DriverHelpers
     DEF WriteRefused, Driver!WriteRefused
<1>7. DeleteRefused(r) => Driver!DeleteRefused(r)
  BY <1>1, <1>2, DriverConstants, DriverHelpers
     DEF DeleteRefused, Driver!DeleteRefused
<1> QED
  BY <1>1, <1>3, <1>4, <1>5, <1>6, <1>7

LEMMA DriverCalls ==
  ASSUME NEW r
  PROVE  /\ ReadFile(r) => Driver!ReadFile(r)
         /\ WriteFile(r) => Driver!WriteFile(r)
         /\ \A index : WriteFolder(r, index) => Driver!WriteFolder(r, index)
         /\ Delete(r) => Driver!Delete(r)
<1>1. \A t, s : Driver!IsFirstDeletable(t, r, s) <=> IsFirstDeletable(t, r, s)
  BY DriverConstants, DriverHelpers DEF IsFirstDeletable, Driver!IsFirstDeletable
<1>2. WriteAccepted(r) <=> Driver!WriteAccepted(r)
  BY DriverConstants, DriverTables, DriverHelpers
     DEF WriteAccepted, Driver!WriteAccepted
<1>3. ReadFile(r) => Driver!ReadFile(r)
  BY DriverConstants, DriverHelpers DEF ReadFile, Driver!ReadFile
<1>4. WriteFile(r) => Driver!WriteFile(r)
  BY <1>2, DriverConstants, DriverTables, DriverClusters, DriverHelpers
     DEF WriteFile, Driver!WriteFile
<1>5. \A index : WriteFolder(r, index) => Driver!WriteFolder(r, index)
  BY <1>2, DriverConstants, DriverTables, DriverClusters, DriverHelpers
     DEF WriteFolder, Driver!WriteFolder, locals, Driver!locals
<1>6. Delete(r) => Driver!Delete(r)
  BY <1>1, DriverConstants, DriverClusters, DriverHelpers DEF Delete, Driver!Delete
<1> QED
  BY <1>3, <1>4, <1>5, <1>6

LEMMA DriverKernel ==
  /\ Init => Driver!Init
  /\ CreateFat32 => Driver!CreateFat32
  /\ FollowChain => Driver!FollowChain
  /\ \A i : AllocateCluster(i) => Driver!AllocateCluster(i)
  /\ \A i : AllocateLastCluster(i) => Driver!AllocateLastCluster(i)
  /\ DiskFull => Driver!DiskFull
  /\ WalkChain => Driver!WalkChain
  /\ EndOfChain => Driver!EndOfChain
  /\ FlushWrite => Driver!FlushWrite
  /\ Return => Driver!Return
<1>1. Init => Driver!Init
  BY DriverConstants, DriverTables, DriverHelpers DEF Init, Driver!Init
<1>2. CreateFat32 => Driver!CreateFat32
  BY DriverConstants, DriverTables, DriverClusters, DriverHelpers
     DEF CreateFat32, Driver!CreateFat32, is_empty_storage,
         Driver!is_empty_storage, locals, Driver!locals
<1>3. FollowChain => Driver!FollowChain
  BY DriverTables, DriverClusters DEF FollowChain, Driver!FollowChain
<1>4. \A m, c, n : SaveFile(m, c, n) <=> Driver!SaveFile(m, c, n)
  BY DriverTables, DriverClusters, DriverHelpers DEF SaveFile, Driver!SaveFile
<1>5. \A i : PlaceData(i) <=> Driver!PlaceData(i)
  BY DriverTables, DriverClusters DEF PlaceData, Driver!PlaceData
<1>6. \A i : AllocateCluster(i) => Driver!AllocateCluster(i)
  BY <1>5, DriverHelpers DEF AllocateCluster, Driver!AllocateCluster
<1>7. \A i : AllocateLastCluster(i) => Driver!AllocateLastCluster(i)
  BY <1>4, <1>5, DriverConstants, DriverTables, DriverHelpers
     DEF AllocateLastCluster, Driver!AllocateLastCluster
<1>8. DiskFull => Driver!DiskFull
  BY <1>4, DriverTables DEF DiskFull, Driver!DiskFull, locals, Driver!locals
<1>9. WalkChain => Driver!WalkChain
  BY DriverConstants, DriverTables, DriverClusters DEF WalkChain, Driver!WalkChain
<1>10. EndOfChain => Driver!EndOfChain
  BY DriverConstants, DriverTables, DriverHelpers
     DEF EndOfChain, Driver!EndOfChain, locals, Driver!locals
<1>11. FlushWrite => Driver!FlushWrite
  BY DriverClusters DEF FlushWrite, Driver!FlushWrite, locals, Driver!locals
<1>12. Return => Driver!Return
  BY DriverTables, DriverHelpers DEF Return, Driver!Return
<1> QED
  BY <1>1, <1>2, <1>3, <1>6, <1>7, <1>8, <1>9, <1>10, <1>11, <1>12

\* Listings are asked for without an extension.
ListsPlain(q) ==
  \A i \in 1 .. Len(q) : q[i].op = "read_directory" => q[i].ext = NoExt

LEMMA ListsPlainFacts ==
  /\ ListsPlain(<< >>)
  /\ \A c, n : ListsPlain(<<Listing(c, n)>>)
  /\ \A c, n : ListsPlain(<<NewFolder(c, n)>>)
  /\ \A op \in {"read", "write", "delete"} : \A n, x, k :
       ListsPlain(<<FileRequest(op, n, x, k)>>)
  /\ \A c, n, m : ListsPlain(<<Listing(c, n), Listing(c, m)>>)
  /\ \A n, m, k : ListsPlain(<<FileRequest("read", n, NoExt, k),
                               FileRequest("read", m, NoExt, k)>>)
  /\ ListsPlain(<<Change>>)
<1>1. ASSUME NEW r, r.op = "read_directory" => r.ext = NoExt
      PROVE  ListsPlain(<<r>>)
  BY <1>1 DEF ListsPlain
<1>2. ASSUME NEW r, NEW s, r.op = "read_directory" => r.ext = NoExt,
             s.op = "read_directory" => s.ext = NoExt
      PROVE  ListsPlain(<<r, s>>)
  BY <1>2 DEF ListsPlain
<1>3. ListsPlain(<< >>)
  BY DEF ListsPlain
<1>4. /\ \A c, n : Listing(c, n).ext = NoExt
      /\ \A c, n : NewFolder(c, n).op = "write"
      /\ \A op, n, x, k : FileRequest(op, n, x, k).op = op
      /\ Change.op \in {"write", "delete"}
  BY DEF Listing, NewFolder, FileRequest, Change
<1> QED
  BY <1>1, <1>2, <1>3, <1>4

LEMMA ListsPlainStep ==
  ASSUME FilesInv, ListsPlain(calls), [FilesNext]_fileVars
  PROVE  ListsPlain(calls')
<1>1. CASE FileTyped
  <2>1. CASE \E src \in CallerNames : Cat(src) \/ Rm(src) \/ MkdirHere(src)
    BY <2>1, ListsPlainFacts
       DEF Cat, Rm, MkdirHere, Mkdir, RunFiles, Run, ListCwd
  <2>2. CASE \E src, to \in CallerNames : Cp(src, to)
    BY <2>2, ListsPlainFacts DEF Cp, RunFiles, Run, ListCwd
  <2>3. CASE \E src, to \in CallerNames : MvFiles(src, to)
    BY <2>3, ListsPlainFacts DEF MvFiles, RunFiles, Run
  <2>4. CASE \E src, to \in CallerNames : MvFolders(src, to)
    BY <2>4, ListsPlainFacts DEF MvFolders, RunFiles, Run
  <2> QED
    BY <1>1, <2>1, <2>2, <2>3, <2>4 DEF FileTyped
<1>2. CASE NextFileCall
  BY <1>2, FileCallsLeft DEF ListsPlain
<1>3. CASE FileReturns
  <2>1. CASE ProbeReturns
    BY <2>1, ListsPlainFacts DEF ProbeReturns, GoesOn, Goes, ListCwd
  <2>2. CASE ListReturns
    BY <2>2, ListsPlainFacts DEF ListReturns, GoesOn, RoutineEnds, Goes, ListCwd
  <2>3. CASE ReadReturns
    BY <2>3, ListsPlainFacts DEF ReadReturns, GoesOn, RoutineEnds, Goes, ListCwd
  <2>4. CASE ChangeReturns
    BY <2>4, ListsPlainFacts DEF ChangeReturns, RoutineEnds, Goes, ListCwd
  <2>5. CASE NothingReturns
    BY <2>5 DEF NothingReturns, Goes
  <2> QED
    BY <1>3, <2>1, <2>2, <2>3, <2>4, <2>5 DEF FileReturns
<1>4. CASE FileKernelStep \/ UNCHANGED fileVars
  <2>1. calls' = calls
    BY <1>4 DEF FileKernelStep, KernelStep, fileVars, shellVars
  <2> QED
    BY <2>1
<1> QED
  BY <1>1, <1>2, <1>3, <1>4 DEF FilesNext

LEMMA ListsPlainInit ==
  ASSUME FilesInit
  PROVE  ListsPlain(calls)
<1>1. /\ Len(StartFiles) \in Nat
      /\ DOMAIN StartFiles = 1 .. Len(StartFiles)
  BY ShellAssumption, LenProperties
<1>2. calls = [i \in 1 .. Len(StartFiles) |-> StartFile(StartFiles[i])]
  BY <1>1 DEF FilesInit, ShellInit
<1>3. \A i \in 1 .. Len(calls) : calls[i].op = "write"
  BY <1>1, <1>2 DEF StartFile
<1> QED
  BY <1>3 DEF ListsPlain

LEMMA DriverRequests ==
  ASSUME NEW r \in FAT32DriverRequest, r.parent_cluster_number \in known,
         r.op = "read_directory" => r.ext = NoExt
  PROVE  /\ r.op = "read_directory" => r \in Driver!ListingRequests
         /\ r.op = "read" => r \in Driver!ReadRequests
         /\ r.op = "delete" => r \in Driver!DeleteRequests
         /\ r.op = "write" /\ r.buffer_size = 0 => r \in Driver!FolderRequests
         /\ r.op = "write" /\ r.buffer_size > 0 => r \in Driver!FileRequests
<1>1. /\ r = [op |-> r.op, name |-> r.name, ext |-> r.ext,
              parent_cluster_number |-> r.parent_cluster_number,
              buffer_size |-> r.buffer_size]
      /\ r.buffer_size \in Nat /\ r.name \in AnyName /\ r.ext \in AnyExt
      /\ r.op \in Ops
  BY DEF FAT32DriverRequest
<1>2. AnyExt = Driver!FileExts
  BY DEF AnyExt, Driver!FileExts
<1>3. ASSUME NEW names, NEW exts, NEW sizes, r.name \in names, r.ext \in exts,
             r.buffer_size \in sizes
      PROVE  r \in Driver!Request(r.op, names, exts, sizes)
  BY <1>1, <1>3 DEF Driver!Request
<1>4. r.op = "read_directory" => r \in Driver!ListingRequests
  BY <1>1, <1>3 DEF Driver!ListingRequests
<1>5. /\ r.op = "read" => r \in Driver!ReadRequests
      /\ r.op = "delete" => r \in Driver!DeleteRequests
  BY <1>1, <1>2, <1>3 DEF Driver!ReadRequests, Driver!DeleteRequests
<1>6. r.op = "write" /\ r.buffer_size = 0 => r \in Driver!FolderRequests
  BY <1>1, <1>3 DEF Driver!FolderRequests
<1>7. r.op = "write" /\ r.buffer_size > 0 => r \in Driver!FileRequests
  BY <1>1, <1>2, <1>3 DEF Driver!FileRequests
<1> QED
  BY <1>4, <1>5, <1>6, <1>7

LEMMA FileCalls ==
  ASSUME FilesInv, ListsPlain(calls), [FilesNext]_fileVars
  PROVE  [Driver!Next]_(Driver!vars)
<1>1. CASE NextFileCall
  <2> DEFINE r == Head(calls)
  <2>1. /\ r \in FAT32DriverRequest /\ r.parent_cluster_number \in known
        /\ r.op = "read_directory" => r.ext = NoExt
        /\ ServeFile(r)
    BY <1>1, FileCallsLeft DEF FilesInv, HereInv, NextFileCall, ListsPlain
  <2> HIDE DEF r
  <2>2. r.buffer_size = 0 \/ r.buffer_size > 0
    BY <2>1 DEF FAT32DriverRequest
  <2>3. /\ r.op = "read_directory" => r \in Driver!ListingRequests
        /\ r.op = "read" => r \in Driver!ReadRequests
        /\ r.op = "delete" => r \in Driver!DeleteRequests
        /\ r.op = "write" /\ r.buffer_size = 0 => r \in Driver!FolderRequests
        /\ r.op = "write" /\ r.buffer_size > 0 => r \in Driver!FileRequests
    BY <2>1, DriverRequests
  <2> SUFFICES Driver!Call
    BY DEF Driver!Next
  <2>4. CASE Serve(r)
    <3>1. CASE r.op = "read_directory"
      BY <2>3, <2>4, <3>1, DriverAnswers, DriverCalls DEF Serve, Driver!Call
    <3>2. CASE r.op = "write" /\ r.buffer_size = 0
      <4>1. r \in Driver!FolderRequests /\ ~(r.buffer_size > 0)
        BY <2>3, <3>2
      <4>2. CASE WriteRefused(r)
        BY <4>1, <4>2, DriverAnswers DEF Driver!Call
      <4>3. CASE \E index \in Clusters : WriteFolder(r, index)
        <5>1. PICK index \in Clusters : WriteFolder(r, index)
          BY <4>3
        <5>2. index \in Driver!Clusters /\ Driver!WriteFolder(r, index)
          BY <5>1, DriverConstants, DriverCalls
        <5> QED
          BY <4>1, <5>2 DEF Driver!Call
      <4> QED
        BY <2>4, <3>2, <4>1, <4>2, <4>3 DEF Serve
    <3>3. CASE r.op = "write" /\ r.buffer_size > 0
      BY <2>3, <2>4, <3>3, DriverAnswers, DriverCalls DEF Serve, Driver!Call
    <3> QED
      BY <2>2, <2>4, <3>1, <3>2, <3>3 DEF Serve
  <2>5. CASE r.op = "read" /\ (ReadNotFound(r) \/ ReadNothing(r) \/ ReadFile(r))
    BY <2>3, <2>5, DriverAnswers, DriverCalls DEF Driver!Call
  <2>6. CASE r.op = "delete" /\ (DeleteRefused(r) \/ Delete(r))
    BY <2>3, <2>6, DriverAnswers, DriverCalls DEF Driver!Call
  <2> QED
    BY <2>1, <2>4, <2>5, <2>6 DEF ServeFile
<1>2. CASE FileReturns
  <2>1. Return
    BY <1>2 DEF FileReturns, ProbeReturns, ListReturns, ReadReturns,
                ChangeReturns, NothingReturns, GoesOn, RoutineEnds, Goes
  <2> QED
    BY <2>1, DriverKernel DEF Driver!Next, Driver!Kernel
<1>3. CASE FileKernelStep
  BY <1>3, DriverConstants, DriverKernel
     DEF FileKernelStep, KernelStep, Driver!Next, Driver!Kernel
<1>4. CASE FileTyped \/ UNCHANGED fileVars
  <2>1. UNCHANGED vars
    BY <1>4 DEF FileTyped, Cat, Rm, MkdirHere, Mkdir, Cp, MvFiles, MvFolders,
                RunFiles, Run, fileVars, shellVars
  <2> QED
    BY <2>1 DEF vars, locals, Driver!vars, Driver!locals
<1> QED
  BY <1>1, <1>2, <1>3, <1>4 DEF FilesNext

\* The commands cat, cp, rm and mv, whatever their calls answer, are a caller of
\* the driver as its theorems suppose it (commands.c:211-520): every step of the
\* machine is one of the driver.
THEOREM FilesCallTheDriver == FilesSpec => Driver!Spec
<1>1. FilesInit => FilesInv /\ ListsPlain(calls) /\ Driver!Init
  BY FilesTypeInit, SafeInit, HereInit, ListsPlainInit, DriverKernel
     DEF FilesInv, FilesInit, ShellInit
<1>2. FilesInv /\ ListsPlain(calls) /\ [FilesNext]_fileVars
        => (FilesInv /\ ListsPlain(calls))'
  BY HereStep, ListsPlainStep
<1>3. FilesInv /\ ListsPlain(calls) /\ [FilesNext]_fileVars
        => [Driver!Next]_(Driver!vars)
  BY FileCalls
<1> QED
  BY <1>1, <1>2, <1>3, PTL DEF FilesSpec, Driver!Spec

\* While cat, cp, rm and mv run, the FAT and the root directory stay what they
\* are, read follows the FAT that is on the disk (fat32.c:130) although it never
\* loads it, and no folder is listed before its cluster is taken.
THEOREM FilesKeepTheTables ==
  FilesSpec => /\ []ReservedClustersIntact
               /\ []ChainWalksUseCurrentFat
               /\ FoldersListedAfterAllocation
<1>1. Driver!LayoutAssumption /\ Driver!RequestAssumption
  BY LayoutAssumption
     DEF Driver!LayoutAssumption, Driver!RequestAssumption, Driver!AnyName,
         AnyName, Driver!AnyExt, AnyExt, Driver!Ops, Ops, Driver!Phases
<1>2. Driver!Spec => []Driver!ReservedClustersIntact
  BY <1>1, Driver!ReservedClustersKept
<1>3. Driver!Spec => []Driver!ChainWalksUseCurrentFat
  BY <1>1, Driver!ChainsFollowTheDisk
<1>4. Driver!Spec => Driver!FoldersListedAfterAllocation
  BY <1>1, Driver!FoldersListedLate
<1>5. Driver!ReservedClustersIntact => ReservedClustersIntact
  BY DriverConstants DEF ReservedClustersIntact, Driver!ReservedClustersIntact,
     IsFat, Driver!IsFat, IsRoot, Driver!IsRoot, IsRootTable, Driver!IsRootTable
<1>6. Driver!ChainWalksUseCurrentFat => ChainWalksUseCurrentFat
  BY DriverConstants, DriverClusters
     DEF ChainWalksUseCurrentFat, Driver!ChainWalksUseCurrentFat
<1>7. Driver!FoldersListedAfterAllocation => FoldersListedAfterAllocation
  <2>1. [\A c \in Driver!Clusters, s \in Driver!Slots \ {0} :
           Driver!FolderAppears(c, s) =>
             Driver!AsFat(disk[Driver!FAT_CLUSTER_NUMBER])
               [disk'[c].entries[s].cluster]
                 = Driver!FAT32_FAT_END_OF_FILE]_(Driver!vars)
        => [\A c \in Clusters, s \in Slots \ {0} :
              FolderAppears(c, s) =>
                AsFat(disk[FAT_CLUSTER_NUMBER])[disk'[c].entries[s].cluster]
                  = FAT32_FAT_END_OF_FILE]_vars
    <3>1. \A c, s : Driver!FolderAppears(c, s) <=> FolderAppears(c, s)
      BY DriverConstants DEF FolderAppears, Driver!FolderAppears
    <3>2. UNCHANGED Driver!vars => UNCHANGED vars
      BY DEF vars, locals, Driver!vars, Driver!locals
    <3> QED
      BY <3>1, <3>2, DriverConstants, DriverClusters
  <2> QED
    BY <2>1, PTL DEF FoldersListedAfterAllocation,
                     Driver!FoldersListedAfterAllocation
<1> QED
  BY <1>2, <1>3, <1>4, <1>5, <1>6, <1>7, FilesCallTheDriver, PTL

-----------------------------------------------------------------------------
(* How many calls a command makes.  CopiesEnd says under fairness that cat   *)
(* and cp come back; what it rests on is that with every step of a command   *)
(* either the calls that are still to come get fewer, or the steps that are  *)
(* left of the call in progress do.                                          *)

\* The calls that the routines to run make after those in "calls".
CallsLater ==
  CASE todo = << >>                                    -> 0
    [] todo # << >> /\ stage \in {"probe", "missing"}  -> 3 * Len(todo)
    [] todo # << >> /\ stage = "list"                  -> 3 * Len(todo) - 1
    [] todo # << >> /\ stage = "read"                  -> 3 * Len(todo) - 2
    [] OTHER                                           -> 3 * Len(todo) - 3

CallsToCome == Len(calls) + CallsLater

ProbeInv ==
  /\ stage \in {"probe", "missing"} => todo # << >>
  /\ command # NoCommand /\ command.op # "main" /\ pc = "idle" => calls # << >>

\* A step of a command that is not one of delete's loop.
CommandCloser ==
  command # NoCommand /\ pc \notin {"off", "walk"} =>
    \/ CallsToCome' < CallsToCome
    \/ CallsToCome' = CallsToCome /\ CallDelay' < CallDelay

LEMMA CallsLaterIs ==
  ASSUME FilesTypeInv
  PROVE  /\ Len(todo) \in Nat /\ (todo # << >> => Len(todo) > 0)
         /\ Len(calls) \in Nat /\ CallsLater \in Nat /\ CallsToCome \in Nat
         /\ stage \in {"probe", "missing", "list", "read", "change"}
<1>1. /\ todo \in Seq({"cp", "rm"}) /\ calls \in Seq(FAT32DriverRequest)
      /\ stage \in {"probe", "missing", "list", "read", "change"}
  BY DEF FilesTypeInv, FilesTypeOK
<1>2. /\ Len(todo) \in Nat /\ (todo # << >> => Len(todo) > 0)
      /\ Len(calls) \in Nat
  BY <1>1, EmptySeq, LenProperties
<1>3. CallsLater \in Nat
  BY <1>1, <1>2 DEF CallsLater
<1> HIDE DEF CallsLater
<1> QED
  BY <1>1, <1>2, <1>3 DEF CallsToCome

LEMMA CallsLaterAfter ==
  ASSUME FilesTypeInv'
  PROVE  CallsToCome' \in Nat
<1>1. /\ todo' \in Seq({"cp", "rm"}) /\ calls' \in Seq(FAT32DriverRequest)
      /\ stage' \in {"probe", "missing", "list", "read", "change"}
  BY DEF FilesTypeInv, FilesTypeOK
<1>2. /\ Len(todo') \in Nat /\ (todo' # << >> => Len(todo') > 0)
      /\ Len(calls') \in Nat
  BY <1>1, EmptySeq, LenProperties
<1>3. CallsLater' \in Nat
  BY <1>1, <1>2 DEF CallsLater
<1> HIDE DEF CallsLater
<1> QED
  BY <1>2, <1>3 DEF CallsToCome

LEMMA CallsToComeFalls ==
  ASSUME FilesTypeInv, FilesTypeInv', ProbeInv, FileReturns
  PROVE  CallsToCome' =< CallsToCome
<1>1. /\ Len(todo) \in Nat /\ (todo # << >> => Len(todo) > 0)
      /\ Len(calls) \in Nat
      /\ stage \in {"probe", "missing", "list", "read", "change"}
      /\ todo \in Seq({"cp", "rm"})
  BY CallsLaterIs DEF FilesTypeInv, FilesTypeOK
<1>2. \A r : Len(<<r>>) = 1
  OBVIOUS
<1>3. ASSUME RoutineEnds, todo # << >>, stage \in {"list", "read", "change"}
      PROVE  CallsToCome' =< CallsToCome
  <2>1. CallsToCome >= 3 * Len(todo) - 3
    BY <1>1, <1>3 DEF CallsToCome, CallsLater
  <2>2. todo' = Tail(todo) /\ Len(todo') = Len(todo) - 1
    BY <1>1, <1>3 DEF RoutineEnds
  <2>3. CASE todo' = << >>
    <3>1. CallsToCome' = 0
      <4>1. Len(calls') = 0
        BY <1>3, <2>3 DEF RoutineEnds, Goes
      <4>2. CallsLater' = 0
        BY <2>3 DEF CallsLater
      <4> HIDE DEF CallsLater
      <4> QED
        BY <4>1, <4>2 DEF CallsToCome
    <3>2. CallsToCome \in Nat
      BY CallsLaterIs
    <3> QED
      BY <3>1, <3>2
  <2>4. CASE todo' # << >>
    <3>1. Len(calls') = 1 /\ stage' = "list"
      BY <1>2, <1>3, <2>4 DEF RoutineEnds, Goes
    <3>2. CallsLater' = 3 * Len(todo') - 1
      BY <2>4, <3>1 DEF CallsLater
    <3>3. CallsToCome' = 3 * Len(todo) - 3
      BY <1>1, <2>2, <3>1, <3>2 DEF CallsToCome
    <3> QED
      BY <1>1, <2>1, <3>3
  <2> QED
    BY <2>3, <2>4
<1>4. ASSUME NEW at \in {"list", "read", "change"}, NEW r, GoesOn(at, r), todo # << >>
      PROVE  CallsToCome' = 1 + (CASE at = "list" -> 3 * Len(todo) - 1
                                   [] at = "read" -> 3 * Len(todo) - 2
                                   [] at = "change" -> 3 * Len(todo) - 3)
  BY <1>2, <1>4 DEF GoesOn, Goes, CallsToCome, CallsLater
<1>5. CASE ProbeReturns
  <2>1. todo # << >> /\ CallsToCome = Len(calls) + 3 * Len(todo)
    BY <1>5 DEF ProbeReturns, ProbeInv, CallsToCome, CallsLater
  <2>2. CASE calls # << >>
    BY <1>5, <2>1, <2>2, <1>1
       DEF ProbeReturns, Goes, CallsToCome, CallsLater
  <2>3. CASE calls = << >> /\ stage = "probe" /\ code = 0
    <3>1. CallsToCome' = 3 * Len(todo)
      BY <1>1, <1>4, <1>5, <2>1, <2>3 DEF ProbeReturns
    <3> QED
      BY <1>1, <2>1, <3>1
  <2>4. CASE calls = << >> /\ ~(stage = "probe" /\ code = 0)
    <3>1. CallsToCome' = 0
      BY <1>5, <2>4 DEF ProbeReturns, Goes, CallsToCome, CallsLater
    <3> QED
      BY <1>1, <2>1, <3>1
  <2> QED
    BY <2>2, <2>3, <2>4
<1>6. CASE ListReturns
  <2>1. todo # << >> /\ stage = "list" /\ CallsToCome = Len(calls) + 3 * Len(todo) - 1
    BY <1>1, <1>6 DEF ListReturns, CallsToCome, CallsLater
  <2>2. CASE RoutineEnds
    BY <1>3, <2>1, <2>2
  <2>3. CASE ~RoutineEnds
    <3>1. PICK r : GoesOn("read", r)
      BY <1>6, <2>3 DEF ListReturns
    <3>2. CallsToCome' = 3 * Len(todo) - 1
      BY <1>1, <1>4, <2>1, <3>1
    <3> QED
      BY <1>1, <2>1, <3>2
  <2> QED
    BY <2>2, <2>3
<1>7. CASE ReadReturns
  <2>1. todo # << >> /\ stage = "read" /\ CallsToCome = Len(calls) + 3 * Len(todo) - 2
    BY <1>1, <1>7 DEF ReadReturns, CallsToCome, CallsLater
  <2>2. CASE RoutineEnds
    BY <1>3, <2>1, <2>2
  <2>3. CASE ~RoutineEnds
    <3>1. GoesOn("change", Change)
      BY <1>7, <2>3 DEF ReadReturns
    <3>2. CallsToCome' = 3 * Len(todo) - 2
      BY <1>1, <1>4, <2>1, <3>1
    <3> QED
      BY <1>1, <2>1, <3>2
  <2> QED
    BY <2>2, <2>3
<1>8. CASE ChangeReturns
  BY <1>3, <1>8 DEF ChangeReturns
<1>9. CASE NothingReturns
  <2>1. CallsToCome' = CallsToCome
    BY <1>9 DEF NothingReturns, Goes, CallsToCome, CallsLater
  <2> QED
    BY <2>1, CallsLaterIs
<1> QED
  BY <1>5, <1>6, <1>7, <1>8, <1>9 DEF FileReturns

LEMMA ProbeStep ==
  ASSUME FilesInv, ProbeInv, [FilesNext]_fileVars
  PROVE  ProbeInv'
<1>1. CASE FileTyped
  <2>1. calls' # << >>
    BY <1>1 DEF FileTyped, Cat, Rm, MkdirHere, Mkdir, Cp, MvFiles, MvFolders,
                RunFiles, Run
  <2>2. stage' \in {"probe", "missing"} => todo' # << >>
    <3>1. CASE UNCHANGED <<todo, stage>>
      BY <3>1 DEF ProbeInv
    <3>2. CASE stage' \in {"list", "read"}
      BY <3>2
    <3>3. CASE todo' = <<"cp", "rm">>
      BY <3>3
    <3>4. \/ UNCHANGED <<todo, stage>>
          \/ stage' \in {"list", "read"}
          \/ todo' = <<"cp", "rm">>
      <4>1. ASSUME NEW src \in CallerNames, Cat(src) \/ Rm(src)
            PROVE  stage' \in {"list", "read"}
        BY <4>1 DEF Cat, Rm, RunFiles
      <4>2. ASSUME NEW src \in CallerNames, MkdirHere(src)
            PROVE  UNCHANGED <<todo, stage>>
        BY <4>2 DEF MkdirHere
      <4>3. ASSUME NEW src \in CallerNames, NEW to \in CallerNames,
                   Cp(src, to) \/ MvFolders(src, to)
            PROVE  stage' \in {"list", "read"}
        BY <4>3 DEF Cp, MvFolders, RunFiles
      <4>4. ASSUME NEW src \in CallerNames, NEW to \in CallerNames,
                   MvFiles(src, to)
            PROVE  todo' = <<"cp", "rm">>
        BY <4>4 DEF MvFiles, RunFiles
      <4> QED
        BY <1>1, <4>1, <4>2, <4>3, <4>4 DEF FileTyped
    <3> QED
      BY <3>1, <3>2, <3>3, <3>4
  <2> QED
    BY <2>1, <2>2 DEF ProbeInv
<1>2. CASE NextFileCall
  <2>1. UNCHANGED <<todo, stage>>
    BY <1>2 DEF NextFileCall
  <2>2. pc' # "idle"
    BY <1>2 DEF NextFileCall, ServeFile, Serve, ReadDirectory, ReadNotFound,
       ReadNothing, ReadFile, WriteRefused, WriteFile, WriteFolder, DeleteRefused,
       Delete, Answer
  <2> QED
    BY <2>1, <2>2 DEF ProbeInv
<1>3. CASE FileReturns
  <2>1. command' = NoCommand \/ calls' # << >>
    BY <1>3 DEF FileReturns, ProbeReturns, ListReturns, ReadReturns, ChangeReturns,
                NothingReturns, GoesOn, RoutineEnds, Goes
  <2>2. stage' \in {"probe", "missing"} => todo' # << >>
    BY <1>3 DEF FileReturns, ProbeReturns, ListReturns, ReadReturns, ChangeReturns,
                NothingReturns, GoesOn, RoutineEnds, Goes, ProbeInv
  <2> QED
    BY <2>1, <2>2 DEF ProbeInv
<1>4. CASE FileKernelStep
  <2>1. UNCHANGED <<todo, stage, command, calls>>
    BY <1>4 DEF FileKernelStep, KernelStep
  <2>2. pc' = "idle" => pc = "format"
    <3>1. ASSUME NEW i \in Clusters, AllocateCluster(i) \/ AllocateLastCluster(i)
          PROVE  pc' # "idle"
      BY <3>1 DEF AllocateCluster, AllocateLastCluster, PlaceData, SaveFile
    <3>2. CASE FlushWrite
      BY <3>2 DEF FlushWrite
    <3>3. CASE CreateFat32 \/ FollowChain \/ DiskFull
      BY <3>3 DEF CreateFat32, FollowChain, DiskFull, SaveFile
    <3>4. CASE WalkChain \/ EndOfChain
      BY <3>4 DEF WalkChain, EndOfChain
    <3> QED
      BY <1>4, <3>1, <3>2, <3>3, <3>4 DEF FileKernelStep, KernelStep
  <2>3. pc = "format" => command.op = "main"
    BY DEF FilesInv, HereInv
  <2> QED
    BY <2>1, <2>2, <2>3 DEF ProbeInv
<1>5. CASE UNCHANGED fileVars
  BY <1>5 DEF ProbeInv, fileVars, shellVars, vars
<1> QED
  BY <1>1, <1>2, <1>3, <1>4, <1>5 DEF FilesNext

LEMMA FilesLoopStep ==
  ASSUME FilesInv, FilesInv', LoopInv, [FilesNext]_fileVars
  PROVE  LoopInv'
<1>1. TypeInv /\ TypeInv'
  BY DEF FilesInv, SafeInv
<1>2. CASE FileTyped \/ UNCHANGED fileVars
  <2>1. UNCHANGED vars
    BY <1>2 DEF FileTyped, Cat, Rm, MkdirHere, Mkdir, Cp, MvFiles, MvFolders,
                RunFiles, Run, fileVars, shellVars
  <2> QED
    BY <2>1 DEF LoopInv, vars, locals
<1>3. CASE NextFileCall
  <2>1. \/ pc' \notin {"alloc", "chain"}
        \/ pc' = "alloc" /\ cur' = 3
        \/ pc' = "chain" /\ left' > 0
    BY <1>3 DEF NextFileCall, ServeFile, Serve, ReadDirectory, ReadNotFound,
       ReadNothing, ReadFile, WriteRefused, WriteFile, WriteFolder, DeleteRefused,
       Delete, Answer
  <2> QED
    BY <2>1, LoopFacts DEF LoopInv
<1>4. CASE FileReturns
  <2>1. Return
    BY <1>4 DEF FileReturns, ProbeReturns, ListReturns, ReadReturns,
                ChangeReturns, NothingReturns, GoesOn, RoutineEnds, Goes
  <2> QED
    BY <1>1, <2>1, OtherLoop
<1>5. CASE FileKernelStep
  <2>1. CASE CreateFat32
    BY <2>1 DEF CreateFat32, LoopInv
  <2>2. CASE ~CreateFat32
    BY <1>1, <1>5, <2>2, FlushLoop, AllocateLoop, OtherLoop, WalkLoop
       DEF FileKernelStep, KernelStep
  <2> QED
    BY <2>1, <2>2
<1> QED
  BY <1>2, <1>3, <1>4, <1>5 DEF FilesNext

LEMMA CommandStep ==
  ASSUME FilesInv, FilesInv', ProbeInv, LoopInv, [FilesNext]_fileVars
  PROVE  [CommandCloser]_fileVars
<1>1. TypeInv /\ TypeInv' /\ FilesTypeInv /\ FilesTypeInv'
  BY DEF FilesInv, SafeInv
<1>2. CASE FileTyped
  BY <1>2 DEF FileTyped, Cat, Rm, MkdirHere, Mkdir, Cp, MvFiles, MvFolders,
              RunFiles, Run, CommandCloser
<1>3. CASE NextFileCall
  <2>1. /\ calls \in Seq(FAT32DriverRequest) /\ calls # << >> /\ calls' = Tail(calls)
        /\ UNCHANGED <<todo, stage>>
    BY <1>1, <1>3 DEF NextFileCall, FilesTypeInv, FilesTypeOK
  <2>2. Len(calls') = Len(calls) - 1 /\ CallsLater' = CallsLater
    BY <2>1 DEF CallsLater
  <2>3. Len(calls) \in Nat /\ CallsLater \in Nat
    BY <1>1, CallsLaterIs
  <2>4. CallsToCome' < CallsToCome
    <3> HIDE DEF CallsLater
    <3> QED
      BY <2>2, <2>3 DEF CallsToCome
  <2> QED
    BY <2>4 DEF CommandCloser
<1>4. CASE FileReturns
  <2>1. Return
    BY <1>4 DEF FileReturns, ProbeReturns, ListReturns, ReadReturns,
                ChangeReturns, NothingReturns, GoesOn, RoutineEnds, Goes
  <2>2. CallDelay' < CallDelay
    BY <2>1 DEF Return, CallDelay
  <2>3. CallsToCome' =< CallsToCome /\ CallsToCome \in Nat
    BY <1>1, <1>4, CallsToComeFalls, CallsLaterIs
  <2>4. CallsToCome' \in Nat
    BY <1>1, CallsLaterAfter
  <2> QED
    BY <2>2, <2>3, <2>4 DEF CommandCloser
<1>5. CASE FileKernelStep
  <2> SUFFICES ASSUME pc \notin {"off", "walk"}
               PROVE  CallsToCome' = CallsToCome /\ CallDelay' < CallDelay
    BY DEF CommandCloser
  <2>1. CallsToCome' = CallsToCome
    BY <1>5 DEF FileKernelStep, KernelStep, CallsToCome, CallsLater
  <2>2. CallCloser /\ pc \in {"alloc", "format", "flush", "chain"}
    <3>1. \/ FlushWrite
          \/ \E i \in Clusters : AllocateCluster(i) \/ AllocateLastCluster(i)
          \/ DiskFull \/ FollowChain
      BY <1>5 DEF FileKernelStep, KernelStep, CreateFat32, WalkChain, EndOfChain
    <3>2. CallCloser
      BY <1>1, <3>1, FlushLoop, AllocateLoop, OtherLoop
    <3> QED
      BY <3>1, <3>2 DEF FlushWrite, AllocateCluster, AllocateLastCluster, PlaceData,
                        DiskFull, FollowChain
  <2>3. CallDelay # 0
    BY <1>1, <2>2, CallDelayIs
  <2> QED
    BY <2>1, <2>2, <2>3 DEF CallCloser
<1> QED
  BY <1>2, <1>3, <1>4, <1>5 DEF FilesNext

\* cat, cp, rm and mv never wait for a call that they do not make, and make a
\* bounded number of them, three for every routine and two probes of mv:
\* whatever the calls answer, every step leaves fewer calls to come, or fewer
\* steps of the one in progress, but for the loop of delete.
THEOREM CommandsComeCloser ==
  FilesSpec => /\ [](/\ CallsToCome \in Nat /\ CallDelay \in Nat
                     /\ command # NoCommand /\ command.op # "main" /\ pc = "idle"
                          => calls # << >>)
               /\ [][CommandCloser]_fileVars
<1>1. FilesInit => FilesInv /\ ProbeInv /\ LoopInv
  <2>1. FilesInit => FilesInv
    BY FilesTypeInit, SafeInit, HereInit DEF FilesInv, FilesInit, ShellInit
  <2>2. FilesInit => ProbeInv
    BY DEF FilesInit, ShellInit, Init, ProbeInv
  <2>3. FilesInit => LoopInv
    BY LoopInit DEF FilesInit, ShellInit
  <2> QED
    BY <2>1, <2>2, <2>3
<1>2. FilesInv /\ ProbeInv /\ LoopInv /\ [FilesNext]_fileVars
        => (FilesInv /\ ProbeInv /\ LoopInv)'
  BY HereStep, ProbeStep, FilesLoopStep
<1>3. FilesInv /\ ProbeInv /\ LoopInv
        => /\ CallsToCome \in Nat /\ CallDelay \in Nat
           /\ command # NoCommand /\ command.op # "main" /\ pc = "idle"
                => calls # << >>
  BY CallsLaterIs, CallDelayIs DEF FilesInv, SafeInv, ProbeInv
<1>4. FilesInv /\ ProbeInv /\ LoopInv /\ [FilesNext]_fileVars
        => [CommandCloser]_fileVars
  BY HereStep, CommandStep
<1> QED
  BY <1>1, <1>2, <1>3, <1>4, PTL DEF FilesSpec
=============================================================================

