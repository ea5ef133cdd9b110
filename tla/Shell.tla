--------------------------------- MODULE Shell ---------------------------------
(***************************************************************************)
(* The shell (user-shell.c) and the commands that move in the tree of      *)
(* folders (commands.c: cd, ls, mkdir, whereis), over the file system      *)
(* driver.  Fat32 has a caller that may ask for anything; here the caller  *)
(* is the shell, and what it asks follows from cwd_data and the command.   *)
(*                                                                         *)
(* A command is the calls it still has to make: one of them is served by   *)
(* the kernel, its answer is looked at, and the next one is made.  main    *)
(* writes its files first.  What commands print is left out.               *)
(***************************************************************************)
EXTENDS Fat32, FiniteSets

CONSTANT StartFiles   \* the files that main writes, [name, ext, buffer_size]

ParentName == ".."

ASSUME ShellAssumption ==
  /\ StartFiles \in Seq([name : AnyName, ext : AnyExt, buffer_size : Nat \ {0}])
  /\ ParentName \notin AnyName

VARIABLES
  cwd,       \* cwd_data
  command,   \* the command that runs, with the name that was typed
  calls      \* the requests it still has to make

shellVars == <<vars, cwd, command, calls>>

CWDdata ==
  [currentCluster : Clusters, cwdName : AnyName, prevCluster : Clusters]

NoCommand == [op |-> "none", name |-> NoName]

-----------------------------------------------------------------------------
(* Requests.                                                               *)

Listing(cluster, name) ==
  [op |-> "read_directory", name |-> name, ext |-> NoExt,
   parent_cluster_number |-> cluster, buffer_size |-> ClusterSize]

NewFolder(cluster, name) ==
  [op |-> "write", name |-> name, ext |-> NoExt,
   parent_cluster_number |-> cluster, buffer_size |-> 0]

StartFile(file) ==
  [op |-> "write", name |-> file.name, ext |-> file.ext,
   parent_cluster_number |-> ROOT_CLUSTER_NUMBER,
   buffer_size |-> file.buffer_size]

ShellInit ==
  /\ Init
  /\ cwd = [currentCluster |-> ROOT_CLUSTER_NUMBER, cwdName |-> RootName,
            prevCluster |-> ROOT_CLUSTER_NUMBER]
  /\ command = [NoCommand EXCEPT !.op = "main"]
  /\ calls = [i \in DOMAIN StartFiles |-> StartFile(StartFiles[i])]

-----------------------------------------------------------------------------
(* A command is typed.                                                     *)

Run(op, name, requests) ==
  /\ command = NoCommand /\ pc = "idle"
  /\ command' = [op |-> op, name |-> name]
  /\ calls' = requests
  /\ UNCHANGED <<vars, cwd>>

Cd(name) == Run("cd", name, <<Listing(cwd.currentCluster, name)>>)

\* In the root directory nothing happens.
CdParent ==
  /\ cwd.currentCluster # ROOT_CLUSTER_NUMBER
  /\ Run("cd", ParentName, <<Listing(cwd.prevCluster, cwd.cwdName)>>)

Ls == Run("ls", NoName, <<Listing(cwd.currentCluster, cwd.cwdName)>>)

Mkdir(name) == Run("mkdir", name, <<NewFolder(cwd.currentCluster, name)>>)

Whereis(name) == Run("whereis", name, <<Listing(cwd.currentCluster, name)>>)

-----------------------------------------------------------------------------
(* The next call of the command enters the kernel.                         *)

Serve(r) ==
  \/ r.op = "read_directory" /\ ReadDirectory(r)
  \/ r.op = "write" /\ WriteRefused(r)
  \/ r.op = "write" /\ r.buffer_size > 0 /\ WriteFile(r)
  \/ /\ r.op = "write" /\ r.buffer_size = 0
     /\ \E index \in Clusters : WriteFolder(r, index)

NextCall ==
  /\ calls # << >>
  /\ Serve(Head(calls))
  /\ calls' = Tail(calls)
  /\ UNCHANGED <<cwd, command>>

-----------------------------------------------------------------------------
(* A call returns; "table" is then what the kernel put into the buffer.    *)

Goes(requests) ==
  /\ Return
  /\ calls' = requests
  /\ command' = IF requests = << >> THEN NoCommand ELSE command

IsFolder(e) == e.name # NoName /\ e.attribute = ATTR_SUBDIRECTORY

IsFirstFolder(name, s) ==
  /\ s \in Slots /\ IsFolder(table[s]) /\ table[s].name = name
  /\ \A q \in Slots : q < s => ~(IsFolder(table[q]) /\ table[q].name = name)

\* Mutation: the name is changed before the answer is looked at.
CdNamesFirst ==
  /\ command.op = "cd" /\ command.name # ParentName
  /\ Goes(<< >>)
  /\ IF code = 0
     THEN \E s \in Slots :
            /\ IsFirstFolder(command.name, s)
            /\ cwd' = [currentCluster |-> table[s].cluster,
                       cwdName |-> command.name,
                       prevCluster |-> cwd.currentCluster]
     ELSE cwd' = [cwd EXCEPT !.cwdName = command.name]

CdReturns ==
  /\ command.op = "cd" /\ command.name # ParentName
  /\ Goes(<< >>)
  /\ IF code = 0
     THEN \E s \in Slots :
            /\ IsFirstFolder(command.name, s)
            /\ cwd' = [currentCluster |-> table[s].cluster,
                       cwdName |-> command.name,
                       prevCluster |-> cwd.currentCluster]
     ELSE UNCHANGED cwd

\* Entry 0 of what was the parent's table, which names the parent's parent.
CdParentReturns ==
  /\ command.op = "cd" /\ command.name = ParentName
  /\ Goes(<< >>)
  /\ cwd' = IF code = 0
            THEN [currentCluster |-> table[0].cluster,
                  cwdName |-> table[0].name,
                  prevCluster |-> ROOT_CLUSTER_NUMBER]
            ELSE cwd

\* The slots of the folders in the table, from "from" on.
FolderSlots(from) == {s \in Slots : s >= from /\ IsFolder(table[s])}

\* search calls itself for each folder in the table, in their order there.
SearchFrom(from) ==
  /\ command.op = "whereis"
  /\ \E slots \in [1 .. Cardinality(FolderSlots(from)) -> FolderSlots(from)] :
       /\ \A i, j \in DOMAIN slots : i < j => slots[i] < slots[j]
       /\ LET deeper == [i \in DOMAIN slots |->
                           Listing(table[slots[i]].cluster, command.name)]
          IN Goes(IF code = 0 THEN deeper \o calls ELSE calls)
  /\ UNCHANGED cwd

\* Mutation: entry 0, the way back to the parent, is searched as well.
SearchReturnsFromZero == SearchFrom(0)

SearchReturns == SearchFrom(1)

\* main, ls and mkdir take the answer and change nothing of their own.
OtherReturns ==
  /\ command.op \in {"main", "ls", "mkdir"}
  /\ Goes(calls)
  /\ UNCHANGED cwd

-----------------------------------------------------------------------------
\* The driver's own steps, but for the return of a call, which the shell
\* makes.  The machine starts on an empty disk, once, and main's files fit.
KernelStep ==
  /\ \/ CreateFat32
     \/ \E i \in Clusters : AllocateCluster(i) \/ AllocateLastCluster(i)
     \/ FlushWrite
  /\ UNCHANGED <<cwd, command, calls>>

Typed ==
  \/ \E name \in CallerNames \cup {RootName} : Cd(name)
  \/ CdParent
  \/ Ls
  \/ \E name \in CallerNames : Mkdir(name)
  \/ \E name \in CallerNames : Whereis(name)

Returns == CdReturns \/ CdParentReturns \/ SearchReturns \/ OtherReturns

ShellNext ==
  \/ Typed
  \/ NextCall
  \/ Returns
  \/ KernelStep

\* Nobody has to type, but a command that was typed goes on.
ShellSpec ==
  /\ ShellInit /\ [][ShellNext]_shellVars
  /\ WF_shellVars(NextCall \/ Returns \/ KernelStep)

-----------------------------------------------------------------------------
(* Properties.                                                             *)

ShellTypeOK ==
  /\ TypeOK
  /\ cwd \in CWDdata
  /\ command.op \in {"none", "main", "cd", "ls", "mkdir", "whereis"}
  /\ command.name \in AnyName \cup {ParentName}
  /\ calls \in Seq(FAT32DriverRequest)

\* ls, cp and rm ask for the listing of the current directory under cwdName
\* (commands.c:145, 290, 377), which after cd .. is not its name: the table of
\* the current directory always has a folder of that name, so that they are
\* not refused, and is never the data of a file.  It holds as long as no
\* folder was written over the boot sector, for want of a free cluster.
CwdNameListed ==
  command = NoCommand /\ pc = "idle" /\ disk[BOOT_SECTOR] = Signature =>
    \E s \in Slots :
      LET e == AsTable(disk[cwd.currentCluster])[s]
      IN IsFolder(e) /\ e.name = cwd.cwdName

\* Every command comes back to the prompt: cd's loop has no bound
\* (commands.c:104), and search calls itself for every folder it lists
\* (commands.c:527), whatever the tree and the names.
CommandsEnd == command # NoCommand ~> command = NoCommand

\* commands.c:50, "move back to its parent": if cd .. leads anywhere, the
\* directory it leads to lists the one that was left.
ParentReached ==
  [][command.name = ParentName /\ cwd' # cwd =>
       \E s \in Slots \ {0} :
         LET e == AsTable(disk[cwd'.currentCluster])[s]
         IN IsFolder(e) /\ e.cluster = cwd.currentCluster]_shellVars
=============================================================================
