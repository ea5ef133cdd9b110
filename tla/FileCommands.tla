------------------------------ MODULE FileCommands ------------------------------
(***************************************************************************)
(* The commands of commands.c that work on files: cat, cp, rm and mv.      *)
(* They are added to the shell of module Shell, and share its state: the   *)
(* current directory, the command and the calls it still has to make.      *)
(*                                                                         *)
(* cp and rm list the current directory, look for the file, read it, and   *)
(* write the copy or delete.  mv reads source and destination, and then    *)
(* runs cp and rm.  The stages of one of these routines are                *)
(*     probe    mv: source, then destination, is being read                *)
(*     list     the current directory is being read                        *)
(*     read     the file is being read                                     *)
(*     change   the copy is being written, or the file deleted             *)
(***************************************************************************)
EXTENDS Shell

CONSTANT CatClusters   \* the clusters in cat's buffer (4)

ASSUME CatAssumption == CatClusters \in Nat

VARIABLES
  todo,      \* the routines still to run, the first one in progress
  stage,     \* where it is
  found,     \* ext and filesize of the file it works on
  dest,      \* the destination name of cp and mv
  before     \* what the directory listed and how many clusters were free when
             \* the command was typed; not in the code, the properties need it

fileVars == <<shellVars, todo, stage, found, dest, before>>

NoFile == [ext |-> NoExt, filesize |-> 0]

\* What a directory table says of its entries.
Line(e) == [name |-> e.name, ext |-> e.ext, attribute |-> e.attribute,
            filesize |-> e.filesize]

Listed(t) == [s \in Slots |-> Line(t[s])]

Cwd(d) == Listed(AsTable(d[cwd.currentCluster]))

\* The clusters that write can place data in.
FreeClusters(m) == {c \in Clusters : c >= 3 /\ m[c] = 0}

Now(d) == [entries |-> Cwd(d),
           free |-> Cardinality(FreeClusters(AsFat(d[FAT_CLUSTER_NUMBER])))]

-----------------------------------------------------------------------------
(* Requests.                                                               *)

FileRequest(op, name, ext, size) ==
  [op |-> op, name |-> name, ext |-> ext,
   parent_cluster_number |-> cwd.currentCluster, buffer_size |-> size]

ListCwd == Listing(cwd.currentCluster, cwd.cwdName)

FilesInit ==
  /\ ShellInit
  /\ todo = << >> /\ stage = "list" /\ found = NoFile /\ dest = NoName
  /\ before = [entries |-> Listed(ZeroTable), free |-> 0]

-----------------------------------------------------------------------------
(* A command is typed.                                                     *)

RunFiles(op, src, to, routines, at, requests) ==
  /\ Run(op, src, requests)
  /\ todo' = routines /\ stage' = at /\ found' = NoFile /\ dest' = to
  /\ before' = Now(disk)

\* cat leaves ext empty.
Cat(src) ==
  RunFiles("cat", src, NoName, << >>, "read",
           <<FileRequest("read", src, NoExt, CatClusters * ClusterSize)>>)

Cp(src, to) == RunFiles("cp", src, to, <<"cp">>, "list", <<ListCwd>>)

Rm(src) == RunFiles("rm", src, NoName, <<"rm">>, "list", <<ListCwd>>)

\* mv of two names that have an extension: the probes are made without it.
MvFiles(src, to) ==
  RunFiles("mv", src, to, <<"cp", "rm">>, "probe",
           <<FileRequest("read", src, NoExt, ClusterSize),
             FileRequest("read", to, NoExt, ClusterSize)>>)

\* mv of two names without one lists both and does nothing else; with only
\* one extension mv makes no call at all.
MvFolders(src, to) ==
  RunFiles("mv_folders", src, to, << >>, "list",
           <<Listing(cwd.currentCluster, src), Listing(cwd.currentCluster, to)>>)

-----------------------------------------------------------------------------
(* A call returns.                                                         *)

\* The routine in progress goes on with one call.
GoesOn(at, request) ==
  /\ Goes(<<request>>)
  /\ stage' = at
  /\ UNCHANGED todo

\* The routine ends; mv goes on with rm, whatever became of cp.
RoutineEnds ==
  /\ todo' = Tail(todo)
  /\ stage' = "list"
  /\ Goes(IF todo' = << >> THEN << >> ELSE <<ListCwd>>)

\* mv stops after a probe that failed; its second probe is made anyhow, and
\* the code of the first one is kept in stage.
ProbeReturns ==
  /\ stage \in {"probe", "missing"}
  /\ IF calls # << >>
       THEN /\ Goes(calls)
            /\ stage' = IF code = 0 THEN "probe" ELSE "missing"
            /\ UNCHANGED todo
       ELSE IF stage = "probe" /\ code = 0
              THEN GoesOn("list", ListCwd)
              ELSE Goes(<< >>) /\ todo' = << >> /\ stage' = "list"
  /\ UNCHANGED found

\* The first file of the name, in front of the first unused entry.
IsFoundAt(s) ==
  /\ s \in Slots
  /\ table[s].name = command.name /\ table[s].attribute # ATTR_SUBDIRECTORY
  /\ \A q \in Slots : q =< s => table[q].name # NoName
  /\ \A q \in Slots : q < s => ~(/\ table[q].name = command.name
                                 /\ table[q].attribute # ATTR_SUBDIRECTORY)

ListReturns ==
  /\ todo # << >> /\ stage = "list"
  /\ \/ /\ code = 0
        /\ \E s \in Slots :
             /\ IsFoundAt(s)
             /\ found' = [ext |-> table[s].ext, filesize |-> table[s].filesize]
        /\ GoesOn("read",
                  FileRequest("read", command.name, found'.ext, found'.filesize))
     \/ /\ code # 0 \/ \A s \in Slots : ~IsFoundAt(s)
        /\ RoutineEnds
        /\ UNCHANGED found

\* A mutation: ext stays empty, as the commands above leave it.
ChangeForgetsExt ==
  IF Head(todo) = "cp"
    THEN FileRequest("write", dest, NoExt, found.filesize)
    ELSE FileRequest("delete", command.name, NoExt, found.filesize)

Change ==
  IF Head(todo) = "cp"
    THEN FileRequest("write", dest, found.ext, found.filesize)
    ELSE FileRequest("delete", command.name, found.ext, found.filesize)

ReadReturns ==
  /\ todo # << >> /\ stage = "read"
  /\ IF code = 0 THEN GoesOn("change", Change) ELSE RoutineEnds
  /\ UNCHANGED found

ChangeReturns ==
  /\ todo # << >> /\ stage = "change"
  /\ RoutineEnds
  /\ UNCHANGED found

\* cat, and mv of folders, take the answers and change nothing.
NothingReturns ==
  /\ todo = << >>
  /\ Goes(calls)
  /\ UNCHANGED <<todo, stage, found>>

-----------------------------------------------------------------------------
ServeFile(r) ==
  \/ Serve(r)
  \/ r.op = "read" /\ (ReadNotFound(r) \/ ReadNothing(r) \/ ReadFile(r))
  \/ r.op = "delete" /\ (DeleteRefused(r) \/ Delete(r))

NextFileCall ==
  /\ calls # << >>
  /\ ServeFile(Head(calls))
  /\ calls' = Tail(calls)
  /\ UNCHANGED <<cwd, command, todo, stage, found, dest, before>>

FileKernelStep ==
  /\ \/ KernelStep
     \/ /\ FollowChain \/ DiskFull \/ WalkChain \/ EndOfChain
        /\ UNCHANGED <<cwd, command, calls>>
  /\ UNCHANGED <<todo, stage, found, dest, before>>

\* Folders can be made; the shell stays in the root directory.
MkdirHere(name) ==
  /\ Mkdir(name)
  /\ UNCHANGED <<todo, stage, found, dest, before>>

FileTyped ==
  \/ \E src \in CallerNames : Cat(src) \/ Rm(src) \/ MkdirHere(src)
  \/ \E src, to \in CallerNames : Cp(src, to) \/ MvFiles(src, to)
                                    \/ MvFolders(src, to)

FileReturns ==
  /\ ProbeReturns \/ ListReturns \/ ReadReturns \/ ChangeReturns
       \/ NothingReturns
  /\ UNCHANGED <<cwd, dest, before>>

FilesNext == FileTyped \/ NextFileCall \/ FileReturns \/ FileKernelStep

FilesSpec ==
  /\ FilesInit /\ [][FilesNext]_fileVars
  /\ WF_fileVars(NextFileCall \/ FileReturns \/ FileKernelStep)

-----------------------------------------------------------------------------
(* Properties.                                                             *)

FilesTypeOK ==
  /\ TypeOK
  /\ calls \in Seq(FAT32DriverRequest)
  /\ todo \in Seq({"cp", "rm"})
  /\ stage \in {"probe", "missing", "list", "read", "change"}
  /\ found \in [ext : AnyExt, filesize : Nat]
  /\ dest \in AnyName

\* What cp and rm work on: the first file of the name, if no unused entry is in
\* front of it, and no folder of its name and extension, which read would find
\* instead of it.
IsSource(s) ==
  LET e == before.entries IN
    /\ s \in Slots
    /\ e[s].name = command.name /\ e[s].attribute # ATTR_SUBDIRECTORY
    /\ \A q \in Slots : q =< s => e[q].name # NoName
    /\ \A q \in Slots : q < s /\ e[q].name = command.name =>
         e[q].attribute = ATTR_SUBDIRECTORY /\ e[q].ext # e[s].ext

\* A file of one cluster without extension: what mv asks for, whatever was typed.
ProbeFinds(name) ==
  \E s \in Slots :
    LET e == before.entries[s] IN
      /\ e.name = name /\ e.ext = NoExt
      /\ e.attribute # ATTR_SUBDIRECTORY /\ e.filesize =< ClusterSize
      /\ \A q \in Slots : q < s =>
           before.entries[q].name # name \/ before.entries[q].ext # NoExt

\* Whether the command gets past its probes.
Starts == command.op = "mv" => ProbeFinds(command.name) /\ ProbeFinds(dest)

\* rm, and mv whether or not there is a copy, take entry s away.
Removes(s) == command.op \in {"rm", "mv"} /\ Starts /\ IsSource(s)

\* The copy of s goes to the first unused entry, unless there is none or the
\* destination is listed with the extension of s.
CopiesTo(s, h) ==
  LET e == before.entries IN
    /\ command.op \in {"cp", "mv"} /\ Starts /\ IsSource(s)
    /\ h \in Slots /\ e[h].name = NoName
    /\ \A q \in Slots : q < h => e[q].name # NoName
    /\ \A q \in Slots : e[q].name # dest \/ e[q].ext # e[s].ext

\* The copy has the extension and the size of the source; no size when there
\* are too few clusters for it (fat32.c:164), and what is copied from a file
\* without contents is a folder (commands.c:342).
Copy(s) ==
  LET e == before.entries[s] IN
    IF e.filesize = 0
      THEN [name |-> dest, ext |-> NoExt, attribute |-> ATTR_SUBDIRECTORY,
            filesize |-> 0]
      ELSE [name |-> dest, ext |-> e.ext, attribute |-> Unset,
            filesize |-> IF e.filesize =< before.free * ClusterSize
                           THEN e.filesize ELSE 0]

Effect(after) ==
  \A q \in Slots :
    \/ Removes(q) /\ after[q] = Line(ZeroEntry)
    \/ \E s \in Slots : CopiesTo(s, q) /\ after[q] = Copy(s)
    \/ /\ ~Removes(q) /\ \A s \in Slots : ~CopiesTo(s, q)
       /\ after[q] = before.entries[q]

CommandEnds ==
  /\ command.op \in {"cat", "cp", "rm", "mv", "mv_folders"}
  /\ command' = NoCommand

\* When a command is over, every entry of the directory is what follows from
\* the directory in which it was typed, whatever holes, folders of the same
\* name and full tables are there and whichever of its calls failed: cp added
\* its copy, rm removed its source, mv removed its source even if there was no
\* room or no name for a copy (commands.c:614), and nothing else is changed.
CommandEffect == [][CommandEnds => Effect(Cwd(disk'))]_fileVars

\* cat has CatClusters clusters for the contents (commands.c:230), and the
\* kernel moves whole clusters: it never moves one too many.
CatWithinBuffer == command.op = "cat" => Len(got) =< CatClusters

\* cat and cp come back to the prompt, whatever rm and mv did before them.
\* (rm and mv need not: the loop of delete over a chain that leads to a free
\* cluster has no end.)
CopiesEnd == command.op \in {"cat", "cp"} ~> command = NoCommand
=============================================================================
