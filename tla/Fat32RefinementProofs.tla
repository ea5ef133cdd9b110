------------------------ MODULE Fat32RefinementProofs ------------------------
(***************************************************************************)
(* The proof that Fat32 implements RootDirectory, for every size of disk   *)
(* and table and any number of calls and power losses.                     *)
(*                                                                         *)
(* Of a directory table only the names, the extensions and the undelete    *)
(* flags matter.  A call changes these in at most one slot, so that a      *)
(* directory write that is torn between two blocks leaves either the old   *)
(* listing or the new one.                                                 *)
(***************************************************************************)
EXTENDS Fat32Refinement, Fat32Proofs

\* What the callers keep to, and where the power stays on.
PlainUse ==
  /\ "format" \notin PowerFailsAt
  /\ NoName \notin CallerNames /\ RootName \notin CallerNames
  /\ FolderExts \subseteq {NoExt}

Dir == AsTable(disk[ROOT_CLUSTER_NUMBER])

Key(r) == <<r.name, r.ext>>

Listed(t) ==
  {<<t[s].name, t[s].ext>> : s \in {q \in Slots \ {0} : t[q].name # NoName}}

SameEntry(e, f) == e.name = f.name /\ e.ext = f.ext /\ e.undelete = f.undelete

Same(t, u) == \A s \in Slots : SameEntry(t[s], u[s])

SameBut(t, u, x) == \A s \in Slots \ {x} : SameEntry(t[s], u[s])

\* delete finds every entry, and finds it in one place.
Findable(t) ==
  /\ \A s \in Slots \ {0} : t[s].name # NoName => t[s].undelete = 1
  /\ \A s, q \in Slots \ {0} : s # q /\ t[s].name # NoName =>
       t[s].name # t[q].name \/ t[s].ext # t[q].ext

\* Request r turns table t into u, which is t when there is no room.
Fills(r, t, u) ==
  \/ Same(t, u)
  \/ \E x \in Slots \ {0} :
       /\ t[x].name = NoName
       /\ u[x].name = r.name /\ u[x].ext = r.ext /\ u[x].undelete = 1
       /\ SameBut(t, u, x)

New(r, t) == r.op = "write" /\ r.name # NoName /\ Key(r) \notin Listed(t)

Adds(r, t, u) == New(r, t) /\ Fills(r, t, u)

Removes(r, t, u) ==
  /\ r.op = "delete" /\ r.name # NoName
  /\ \E x \in Slots \ {0} :
       /\ t[x].name = r.name /\ t[x].ext = r.ext
       /\ u[x].name = NoName
       /\ SameBut(t, u, x)

Changes(r, t, u) == Adds(r, t, u) \/ Removes(r, t, u)

OnRootCluster == req.parent_cluster_number = ROOT_CLUSTER_NUMBER

\* Write k of those outstanding does what the call is to do to the root
\* directory, and is the last to go there.
RootWrite(k) ==
  /\ OnRootCluster
  /\ Changes(req, Dir, AsTable(queue[k].cell))
  /\ \A j \in 1 .. Len(queue) : j # k => queue[j].cluster # ROOT_CLUSTER_NUMBER

RootInv ==
  /\ Findable(Dir)
  /\ pc \notin {"format", "flush"} => queue = <<>>
  /\ pc # "return" => code = 0
  /\ pc = "chain" => req.op = "read"
  /\ pc = "alloc" =>
       /\ req.op = "write"
       /\ OnRootCluster => New(req, Dir) /\ Same(Dir, table)
  /\ pc = "walk" =>
       /\ req.op = "delete"
       /\ OnRootCluster => Removes(req, Dir, table)
  /\ pc = "flush" =>
       /\ req.op \in {"write", "delete"}
       /\ \A k \in 1 .. Len(queue) :
            queue[k].cluster = ROOT_CLUSTER_NUMBER => RootWrite(k)

RootStep == [Root!Next]_(Root!dirvars)

-----------------------------------------------------------------------------
(* Tables and what they list. *)

LEMMA SameLists ==
  ASSUME NEW t, NEW u, Same(t, u)
  PROVE  /\ Listed(u) = Listed(t)
         /\ Findable(t) => Findable(u)
<1>1. \A s \in Slots : /\ u[s].name = t[s].name /\ u[s].ext = t[s].ext
                       /\ u[s].undelete = t[s].undelete
  BY DEF Same, SameEntry
<1>2. Listed(u) = Listed(t)
  BY <1>1 DEF Listed
<1>3. Findable(t) => Findable(u)
  BY <1>1 DEF Findable
<1>. QED  BY <1>2, <1>3

LEMMA KeyListed ==
  ASSUME NEW t, NEW r
  PROVE  Key(r) \in Listed(t)
           <=> \E s \in Slots \ {0} : /\ t[s].name # NoName
                                      /\ t[s].name = r.name /\ t[s].ext = r.ext
BY DEF Key, Listed

LEMMA AddsLists ==
  ASSUME NEW r, NEW t, NEW u, Findable(t), Adds(r, t, u)
  PROVE  /\ Listed(u) \in {Listed(t), Listed(t) \cup {Key(r)}}
         /\ Findable(u)
<1>1. CASE Same(t, u)
  BY <1>1, SameLists
<1>2. CASE ~Same(t, u)
  <2>1. PICK x \in Slots \ {0} :
          /\ t[x].name = NoName
          /\ u[x].name = r.name /\ u[x].ext = r.ext /\ u[x].undelete = 1
          /\ SameBut(t, u, x)
    BY <1>2 DEF Adds, Fills
  <2>2. r.name # NoName
    BY DEF Adds, New
  <2>3. \A s \in Slots \ {x} : /\ u[s].name = t[s].name /\ u[s].ext = t[s].ext
                               /\ u[s].undelete = t[s].undelete
    BY <2>1 DEF SameBut, SameEntry
  <2>4. \A s \in Slots \ {0} :
          t[s].name # NoName => ~(t[s].name = r.name /\ t[s].ext = r.ext)
    BY KeyListed DEF Adds, New
  <2>5. Listed(u) = Listed(t) \cup {Key(r)}
    <3>1. ASSUME NEW e \in Listed(u) PROVE e \in Listed(t) \cup {Key(r)}
      <4>1. PICK s \in Slots \ {0} :
              u[s].name # NoName /\ e = <<u[s].name, u[s].ext>>
        BY <3>1 DEF Listed
      <4>2. CASE s = x
        BY <4>1, <4>2, <2>1 DEF Key
      <4>3. CASE s # x
        <5>1. t[s].name # NoName /\ e = <<t[s].name, t[s].ext>>
          BY <4>1, <4>3, <2>3
        <5>. QED  BY <5>1 DEF Listed
      <4>. QED  BY <4>2, <4>3
    <3>2. Key(r) \in Listed(u)
      BY <2>1, <2>2, KeyListed
    <3>3. ASSUME NEW e \in Listed(t) PROVE e \in Listed(u)
      <4>1. PICK s \in Slots \ {0} :
              t[s].name # NoName /\ e = <<t[s].name, t[s].ext>>
        BY <3>3 DEF Listed
      <4>2. s # x
        BY <4>1, <2>1
      <4>3. u[s].name # NoName /\ e = <<u[s].name, u[s].ext>>
        BY <4>1, <4>2, <2>3
      <4>. QED  BY <4>3 DEF Listed
    <3>. QED  BY <3>1, <3>2, <3>3
  <2>6. Findable(u)
    BY <2>1, <2>3, <2>4 DEF Findable
  <2>. QED  BY <2>5, <2>6
<1>. QED  BY <1>1, <1>2

LEMMA RemovesLists ==
  ASSUME NEW r, NEW t, NEW u, Findable(t), Removes(r, t, u)
  PROVE  Listed(u) = Listed(t) \ {Key(r)} /\ Findable(u)
<1>1. PICK x \in Slots \ {0} :
        /\ t[x].name = r.name /\ t[x].ext = r.ext
        /\ u[x].name = NoName
        /\ SameBut(t, u, x)
  BY DEF Removes
<1>2. \A s \in Slots \ {x} : /\ u[s].name = t[s].name /\ u[s].ext = t[s].ext
                             /\ u[s].undelete = t[s].undelete
  BY <1>1 DEF SameBut, SameEntry
<1>3. r.name # NoName
  BY DEF Removes
<1>4. \A s \in Slots \ {0, x} : ~(t[s].name = r.name /\ t[s].ext = r.ext)
  BY <1>1, <1>3 DEF Findable
<1>5. ASSUME NEW e \in Listed(u) PROVE e \in Listed(t) \ {Key(r)}
  <2>1. PICK s \in Slots \ {0} :
          u[s].name # NoName /\ e = <<u[s].name, u[s].ext>>
    BY <1>5 DEF Listed
  <2>2. s # x
    BY <2>1, <1>1
  <2>3. t[s].name # NoName /\ e = <<t[s].name, t[s].ext>>
    BY <2>1, <2>2, <1>2
  <2>4. e # Key(r)
    BY <2>2, <2>3, <1>4 DEF Key
  <2>. QED  BY <2>3, <2>4 DEF Listed
<1>6. ASSUME NEW e \in Listed(t) \ {Key(r)} PROVE e \in Listed(u)
  <2>1. PICK s \in Slots \ {0} :
          t[s].name # NoName /\ e = <<t[s].name, t[s].ext>>
    BY <1>6 DEF Listed
  <2>2. s # x
    BY <2>1, <1>1, <1>6 DEF Key
  <2>3. u[s].name # NoName /\ e = <<u[s].name, u[s].ext>>
    BY <2>1, <2>2, <1>2
  <2>. QED  BY <2>3 DEF Listed
<1>7. Findable(u)
  BY <1>1, <1>2 DEF Findable
<1>. QED  BY <1>5, <1>6, <1>7

\* A torn write of a table leaves the old listing or the new one.
LEMMA TornTable ==
  ASSUME NEW r, NEW t, NEW u, NEW v, Changes(r, t, u),
         \A s \in Slots : v[s] = t[s] \/ v[s] = u[s]
  PROVE  Same(t, v) \/ Same(u, v)
<1>1. CASE Same(t, u)
  BY <1>1 DEF Same, SameEntry
<1>2. CASE ~Same(t, u)
  <2>1. PICK x \in Slots : SameBut(t, u, x)
    BY <1>2 DEF Changes, Adds, Fills, Removes
  <2>2. \A s \in Slots \ {x} : SameEntry(t[s], v[s]) /\ SameEntry(u[s], v[s])
    BY <2>1 DEF SameBut, SameEntry
  <2>3. SameEntry(t[x], v[x]) \/ SameEntry(u[x], v[x])
    BY <2>1 DEF SameEntry
  <2>. QED  BY <2>2, <2>3 DEF Same
<1>. QED  BY <1>1, <1>2

LEMMA MarkSame ==
  ASSUME NEW t \in FAT32DirectoryTable, NEW p
  PROVE  Same(t, MarkNotEmpty(t, p))
<1>1. ASSUME NEW e \in FAT32DirectoryEntry
      PROVE  SameEntry(e, [e EXCEPT !.user_attribute = UATTR_NOT_EMPTY])
  BY <1>1 DEF SameEntry, FAT32DirectoryEntry
<1>2. ASSUME NEW s \in Slots
      PROVE  SameEntry(t[s], MarkNotEmpty(t, p)[s])
  <2>1. t[s] \in FAT32DirectoryEntry
    BY DEF FAT32DirectoryTable
  <2>2. CASE s = p
    BY <1>1, <2>1, <2>2 DEF MarkNotEmpty
  <2>3. CASE s # p
    BY <2>3 DEF MarkNotEmpty, SameEntry
  <2>. QED  BY <2>2, <2>3
<1>. QED  BY <1>2 DEF Same

\* A new entry in a table that names itself in entry 0.
LEMMA StoreFills ==
  ASSUME NEW t, NEW u, Same(t, u), u[0].name # NoName,
         NEW r, r.name # NoName, NEW e,
         e.name = r.name, e.ext = r.ext, e.undelete = 1
  PROVE  Fills(r, t, StoreEntry(u, e))
<1>. DEFINE v == StoreEntry(u, e)
<1>1. \A s \in Slots : v[s] = IF IsFirstUnused(u, s) THEN e ELSE u[s]
  BY DEF StoreEntry
<1>. HIDE DEF v
<1>2. CASE \E x \in Slots : IsFirstUnused(u, x)
  <2>1. PICK x \in Slots : IsFirstUnused(u, x)
    BY <1>2
  <2>2. x # 0 /\ u[x].name = NoName
    BY <2>1 DEF IsFirstUnused
  <2>3. \A s \in Slots : IsFirstUnused(u, s) => s = x
    BY <2>1, ClusterFacts DEF IsFirstUnused
  <2>4. t[x].name = NoName
    BY <2>2, <2>1 DEF Same, SameEntry
  <2>5. v[x] = e
    BY <1>1, <2>1
  <2>6. SameBut(t, v, x)
    BY <1>1, <2>3 DEF Same, SameBut, SameEntry
  <2>. QED  BY <2>2, <2>4, <2>5, <2>6 DEF Fills, v
<1>3. CASE \A x \in Slots : ~IsFirstUnused(u, x)
  <2>1. Same(t, v)
    BY <1>1, <1>3 DEF Same, SameEntry
  <2>. QED  BY <2>1 DEF Fills, v
<1>. QED  BY <1>2, <1>3

\* What is known of the root directory while the machine is up.
LEMMA RootUp ==
  ASSUME SafeInv, pc \notin {"off", "format"}
  PROVE  /\ disk[ROOT_CLUSTER_NUMBER].kind = "dir"
         /\ Dir = disk[ROOT_CLUSTER_NUMBER].entries
         /\ IsRootTable(Dir) /\ Dir[0].name # NoName
         /\ Dir \in FAT32DirectoryTable
<1>1. SafeCell(ROOT_CLUSTER_NUMBER, disk[ROOT_CLUSTER_NUMBER])
  BY UpSafe, ReservedFacts DEF Reserved
<1>2. IsRoot(disk[ROOT_CLUSTER_NUMBER])
  BY <1>1 DEF SafeCell
<1>3. disk[ROOT_CLUSTER_NUMBER] \in Cells
  BY ReservedFacts DEF SafeInv, TypeInv, TypeOK, Reserved
<1>4. Dir \in FAT32DirectoryTable
  BY <1>3, AsTableType DEF Dir
<1>5. Dir = disk[ROOT_CLUSTER_NUMBER].entries
  BY <1>2 DEF Dir, AsTable, IsRoot
<1>. QED
  BY <1>2, <1>4, <1>5, LayoutAssumption DEF IsRoot, IsRootTable

LEMMA RootParent ==
  ASSUME NEW r, r.parent_cluster_number = ROOT_CLUSTER_NUMBER
  PROVE  Parent(r) = Dir
BY ReservedFacts DEF Parent, Dir, ReadCluster, Reserved

\* The duplicate test of write, on the root directory.
LEMMA DuplicateListed ==
  ASSUME SafeInv, pc \notin {"off", "format"},
         NEW r, r.name \notin {NoName, RootName}
  PROVE  Duplicate(Dir, r) <=> Key(r) \in Listed(Dir)
<1>1. Dir[0].name = RootName
  BY RootUp DEF IsRootTable
<1>. QED  BY <1>1, KeyListed DEF Duplicate

\* The search of delete, on the root directory.
LEMMA DeletableListed ==
  ASSUME RootInv, NEW r, r.name # NoName
  PROVE  (\E s \in Slots : Deletable(Dir, r, s)) <=> Key(r) \in Listed(Dir)
BY KeyListed DEF Deletable, RootInv, Findable

-----------------------------------------------------------------------------
(* What the mapping makes of a state. *)

Idle == RootCall = Root!NoCall /\ RootAnswer = "none"

LEMMA NotOnRoot ==
  /\ ~OnRoot => Idle
  /\ pc \notin {"alloc", "walk", "flush", "return"} => Idle
  /\ ~OnRootCluster => Idle
  /\ req.op \notin {"write", "delete"} => Idle
BY DEF Idle, OnRoot, RootCall, RootAnswer, Root!NoCall, OnRootCluster

LEMMA NotOnRootNext ==
  /\ ~OnRoot' => Idle'
  /\ pc' \notin {"alloc", "walk", "flush", "return"} => Idle'
  /\ ~OnRootCluster' => Idle'
  /\ req'.op \notin {"write", "delete"} => Idle'
BY DEF Idle, OnRoot, RootCall, RootAnswer, Root!NoCall, OnRootCluster

LEMMA Stutter ==
  ASSUME Listed(Dir') = Listed(Dir), RootCall' = RootCall,
         RootAnswer' = RootAnswer
  PROVE  RootStep
<1>1. Listing' = Listing
  BY DEF Listing, Listed, Dir
<1>. QED  BY <1>1 DEF RootStep, Root!dirvars

LEMMA IdleStutter ==
  ASSUME Listed(Dir') = Listed(Dir), Idle, Idle'
  PROVE  RootStep
<1>1. RootCall' = RootCall /\ RootAnswer' = RootAnswer
  BY DEF Idle, Root!NoCall
<1>. QED  BY <1>1, Stutter

LEMMA OnRootValues ==
  ASSUME OnRoot
  PROVE  /\ RootCall = [op |-> req.op, entry |-> Key(req)]
         /\ RootCall # Root!NoCall
         /\ pc \in {"alloc", "walk"} => RootAnswer = "none"
         /\ pc = "flush" => RootAnswer = IF Outstanding THEN "none" ELSE "done"
         /\ pc = "return" => RootAnswer # "none"
         /\ pc = "return" /\ code = 0 => RootAnswer = "done"
<1>1. RootCall = [op |-> req.op, entry |-> Key(req)]
  BY DEF RootCall, Key
<1>2. RootCall.op # Root!NoCall.op
  BY <1>1 DEF Root!NoCall, OnRoot
<1>. QED  BY <1>1, <1>2 DEF RootAnswer

LEMMA OnRootNext ==
  ASSUME OnRoot'
  PROVE  /\ RootCall' = [op |-> req'.op, entry |-> Key(req')]
         /\ pc' \in {"alloc", "walk"} => RootAnswer' = "none"
         /\ pc' = "flush" =>
              RootAnswer' = IF Outstanding' THEN "none" ELSE "done"
         /\ pc' = "return" /\ code' = 0 => RootAnswer' = "done"
         /\ pc' = "return" /\ code' = 1 /\ req'.op = "write"
              => RootAnswer' = "exists"
         /\ pc' = "return" /\ code' = 1 /\ req'.op = "delete"
              => RootAnswer' = "absent"
         /\ pc' = "return" /\ code' = 2 /\ req'.op = "delete"
              => RootAnswer' = "refused"
<1>1. RootCall' = [op |-> req'.op, entry |-> Key(req')]
  BY DEF RootCall, Key
<1>. QED  BY <1>1 DEF RootAnswer

LEMMA OnRootDef ==
  OnRoot' <=> /\ pc' \in {"alloc", "walk", "flush", "return"}
              /\ req'.op \in {"write", "delete"}
              /\ req'.parent_cluster_number = ROOT_CLUSTER_NUMBER
BY DEF OnRoot

LEMMA ListingNext ==
  /\ Listing = Listed(Dir) /\ Listing' = Listed(Dir')
  /\ disk' = disk => Dir' = Dir
  /\ disk'[ROOT_CLUSTER_NUMBER] = disk[ROOT_CLUSTER_NUMBER] => Dir' = Dir
BY DEF Listing, Listed, Dir

LEMMA RequestKinds ==
  /\ \A r \in FolderRequests \cup FileRequests :
       r.op = "write" /\ r.name \in CallerNames
  /\ \A r \in FolderRequests : r.ext \in FolderExts
  /\ \A r \in DeleteRequests : r.op = "delete" /\ r.name \in CallerNames
  /\ \A r \in ReadRequests : r.op = "read"
  /\ \A r \in ListingRequests : r.op = "read_directory"
BY DEF FolderRequests, FileRequests, DeleteRequests, ReadRequests,
       ListingRequests, Request

\* A call that enters the abstract directory.
LEMMA Submitted ==
  ASSUME Idle, OnRoot', req' \in FAT32DriverRequest, req'.name # NoName,
         Dir' = Dir,
         \/ req'.op = "write" /\ Key(req') \in Listed(Dir)
              /\ RootAnswer' = "exists"
         \/ req'.op = "write" /\ Key(req') \notin Listed(Dir)
              /\ RootAnswer' = "none"
         \/ req'.op = "delete" /\ Key(req') \in Listed(Dir)
              /\ RootAnswer' \in {"none", "refused"}
         \/ req'.op = "delete" /\ Key(req') \notin Listed(Dir)
              /\ RootAnswer' = "absent"
  PROVE  RootStep
<1>. DEFINE c == [op |-> req'.op, entry |-> Key(req')]
<1>1. RootCall' = c /\ req'.op \in {"write", "delete"}
  BY OnRootNext, OnRootDef
<1>2. req'.name \in AnyName /\ req'.ext \in AnyExt
  BY DEF FAT32DriverRequest
<1>3. c.entry = <<req'.name, req'.ext>> /\ c.op = req'.op
  BY DEF Key
<1>4. c \in Root!Calls
  BY <1>1, <1>2, <1>3 DEF Root!Calls, Key
<1>5. Listing' = Listing /\ Listing = Listed(Dir)
  BY ListingNext
<1>. HIDE DEF c
<1>6. c.entry = Key(req')
  BY <1>3 DEF Key
<1>7. Root!Submit(c)
  BY <1>1, <1>3, <1>5, <1>6 DEF Root!Submit, Idle
<1>. QED  BY <1>4, <1>7 DEF RootStep, Root!Next

LEMMA RootAnswered ==
  ASSUME SafeInv, RootInv, NEW r \in FAT32DriverRequest, NEW c, Answer(r, c),
         r.op \in {"write", "delete"}
           /\ r.parent_cluster_number = ROOT_CLUSTER_NUMBER =>
           /\ r.name # NoName
           /\ \/ r.op = "write" /\ c = 1 /\ Key(r) \in Listed(Dir)
              \/ r.op = "delete" /\ c = 1 /\ Key(r) \notin Listed(Dir)
              \/ r.op = "delete" /\ c = 2 /\ Key(r) \in Listed(Dir)
  PROVE  RootInv' /\ RootStep
<1>1. /\ pc = "idle" /\ pc' = "return" /\ req' = r /\ code' = c
      /\ disk' = disk /\ queue' = queue
  BY DEF Answer
<1>2. Dir' = Dir
  BY <1>1, ListingNext
<1>3. RootInv'
  BY <1>1, <1>2 DEF RootInv
<1>4. Idle
  BY <1>1, NotOnRoot
<1>5. CASE OnRoot'
  <2>1. /\ r.op \in {"write", "delete"}
        /\ r.parent_cluster_number = ROOT_CLUSTER_NUMBER
    BY <1>1, <1>5, OnRootDef
  <2>2. /\ r.name # NoName
        /\ \/ r.op = "write" /\ c = 1 /\ Key(r) \in Listed(Dir)
           \/ r.op = "delete" /\ c = 1 /\ Key(r) \notin Listed(Dir)
           \/ r.op = "delete" /\ c = 2 /\ Key(r) \in Listed(Dir)
    BY <2>1
  <2>3. CASE r.op = "write" /\ c = 1 /\ Key(r) \in Listed(Dir)
    <3>1. RootAnswer' = "exists"
      BY <1>1, <1>5, <2>3, OnRootNext
    <3>. QED  BY <1>1, <1>2, <1>3, <1>4, <1>5, <2>2, <2>3, <3>1, Submitted
  <2>4. CASE r.op = "delete" /\ c = 1 /\ Key(r) \notin Listed(Dir)
    <3>1. RootAnswer' = "absent"
      BY <1>1, <1>5, <2>4, OnRootNext
    <3>. QED  BY <1>1, <1>2, <1>3, <1>4, <1>5, <2>2, <2>4, <3>1, Submitted
  <2>5. CASE r.op = "delete" /\ c = 2 /\ Key(r) \in Listed(Dir)
    <3>1. RootAnswer' = "refused"
      BY <1>1, <1>5, <2>5, OnRootNext
    <3>. QED  BY <1>1, <1>2, <1>3, <1>4, <1>5, <2>2, <2>5, <3>1, Submitted
  <2>. QED  BY <2>2, <2>3, <2>4, <2>5
<1>6. CASE ~OnRoot'
  <2>1. Idle'
    BY <1>6, NotOnRootNext
  <2>. QED  BY <1>2, <1>3, <1>4, <2>1, IdleStutter
<1>. QED  BY <1>5, <1>6

LEMMA RootBoot ==
  ASSUME RootInv, CreateFat32 \/ LoadFat
  PROVE  RootInv' /\ RootStep
<1>1. /\ pc = "off" /\ pc' \in {"format", "idle"} /\ disk' = disk
      /\ code' = code
      /\ pc' = "idle" => queue' = queue
  BY DEF CreateFat32, LoadFat
<1>2. Dir' = Dir
  BY <1>1, ListingNext
<1>3. RootInv'
  BY <1>1, <1>2 DEF RootInv
<1>. QED  BY <1>1, <1>2, <1>3, NotOnRoot, NotOnRootNext, IdleStutter

LEMMA RootReturn ==
  ASSUME RootInv, Return
  PROVE  RootInv' /\ RootStep
<1>1. /\ pc = "return" /\ pc' = "idle" /\ disk' = disk
      /\ code' = 0 /\ queue' = queue
  BY DEF Return
<1>2. Dir' = Dir
  BY <1>1, ListingNext
<1>3. RootInv'
  BY <1>1, <1>2 DEF RootInv
<1>4. Idle'
  BY <1>1, NotOnRootNext
<1>5. CASE OnRoot
  <2>1. Root!Return
    BY <1>1, <1>2, <1>4, <1>5, OnRootValues, ListingNext DEF Root!Return, Idle
  <2>. QED  BY <1>3, <2>1 DEF RootStep, Root!Next
<1>6. CASE ~OnRoot
  BY <1>2, <1>3, <1>4, <1>6, NotOnRoot, IdleStutter
<1>. QED  BY <1>5, <1>6

LEMMA RootListing ==
  ASSUME SafeInv, RootInv, NEW r \in ListingRequests, ReadDirectory(r)
  PROVE  RootInv' /\ RootStep
<1>1. r \in FAT32DriverRequest
  BY RequestTypes DEF SafeInv, TypeInv
<1>2. r.op = "read_directory"
  BY RequestKinds
<1>. QED  BY <1>1, <1>2, RootAnswered DEF ReadDirectory

LEMMA RootRead ==
  ASSUME SafeInv, RootInv, NEW r \in ReadRequests,
         ReadNotFound(r) \/ ReadNothing(r) \/ ReadFile(r)
  PROVE  RootInv' /\ RootStep
<1>1. r \in FAT32DriverRequest
  BY RequestTypes DEF SafeInv, TypeInv
<1>2. r.op = "read"
  BY RequestKinds
<1>3. CASE ReadNotFound(r) \/ ReadNothing(r)
  <2>1. PICK c : Answer(r, c)
    BY <1>3 DEF ReadNotFound, ReadNothing
  <2>. QED  BY <1>1, <1>2, <2>1, RootAnswered
<1>4. CASE ReadFile(r)
  <2>1. /\ pc = "idle" /\ pc' = "chain" /\ disk' = disk
        /\ code' = code /\ queue' = queue /\ req'.op = "read"
    BY <1>2, <1>4 DEF ReadFile
  <2>2. Dir' = Dir
    BY <2>1, ListingNext
  <2>3. RootInv'
    BY <2>1, <2>2 DEF RootInv
  <2>. QED  BY <2>1, <2>2, <2>3, NotOnRoot, NotOnRootNext, IdleStutter
<1>. QED  BY <1>3, <1>4

LEMMA RootFollowChain ==
  ASSUME RootInv, FollowChain
  PROVE  RootInv' /\ RootStep
<1>1. /\ pc = "chain" /\ pc' \in {"chain", "return"} /\ disk' = disk
      /\ code' = code /\ queue' = queue /\ req' = req
  BY DEF FollowChain
<1>2. Dir' = Dir /\ req'.op = "read"
  BY <1>1, ListingNext DEF RootInv
<1>3. RootInv'
  BY <1>1, <1>2 DEF RootInv
<1>. QED  BY <1>1, <1>2, <1>3, NotOnRoot, NotOnRootNext, IdleStutter

LEMMA CallerNamesPlain ==
  ASSUME PlainUse, NEW r, r.name \in CallerNames
  PROVE  r.name \notin {NoName, RootName}
BY DEF PlainUse

LEMMA RootWriteRefused ==
  ASSUME SafeInv, RootInv, PlainUse, NEW r \in FolderRequests \cup FileRequests,
         WriteRefused(r)
  PROVE  RootInv' /\ RootStep
<1>1. r \in FAT32DriverRequest /\ r.op = "write"
  BY RequestTypes, RequestKinds DEF SafeInv, TypeInv
<1>2. r.name \notin {NoName, RootName}
  BY RequestKinds, CallerNamesPlain
<1>3. PICK c : Answer(r, c) /\ \/ Parent(r)[0].attribute # ATTR_SUBDIRECTORY
                               \/ c = 1 /\ Duplicate(Parent(r), r)
  BY DEF WriteRefused
<1>4. pc = "idle"
  BY <1>3 DEF Answer
<1>5. r.parent_cluster_number = ROOT_CLUSTER_NUMBER =>
        c = 1 /\ Key(r) \in Listed(Dir)
  BY <1>2, <1>3, <1>4, RootUp, RootParent, DuplicateListed DEF IsRootTable
<1>. QED  BY <1>1, <1>2, <1>3, <1>5, RootAnswered

LEMMA RootDeleteRefused ==
  ASSUME SafeInv, RootInv, PlainUse, NEW r \in DeleteRequests, DeleteRefused(r)
  PROVE  RootInv' /\ RootStep
<1>1. r \in FAT32DriverRequest /\ r.op = "delete"
  BY RequestTypes, RequestKinds DEF SafeInv, TypeInv
<1>2. r.name # NoName
  BY RequestKinds, CallerNamesPlain
<1>3. PICK c : Answer(r, c) /\
                 \/ Parent(r)[0].attribute # ATTR_SUBDIRECTORY
                 \/ c = 1 /\ \A s \in Slots : ~Deletable(Parent(r), r, s)
                 \/ c = 2 /\ \E s \in Slots : Deletable(Parent(r), r, s)
  BY DEF DeleteRefused, IsFirstDeletable
<1>4. pc = "idle"
  BY <1>3 DEF Answer
<1>5. r.parent_cluster_number = ROOT_CLUSTER_NUMBER =>
        \/ c = 1 /\ Key(r) \notin Listed(Dir)
        \/ c = 2 /\ Key(r) \in Listed(Dir)
  BY <1>2, <1>3, <1>4, RootUp, RootParent, DeletableListed DEF IsRootTable
<1>. QED  BY <1>1, <1>2, <1>3, <1>5, RootAnswered

\* What a write that is accepted finds.
LEMMA RootAccepted ==
  ASSUME SafeInv, RootInv, PlainUse, NEW r \in FolderRequests \cup FileRequests,
         WriteAccepted(r)
  PROVE  /\ pc = "idle" /\ req' = r /\ r \in FAT32DriverRequest
         /\ r.op = "write" /\ r.name # NoName
         /\ r.parent_cluster_number = ROOT_CLUSTER_NUMBER =>
              /\ New(r, Dir)
              /\ Same(Dir, MarkNotEmpty(Parent(r), r.parent_cluster_number))
              /\ MarkNotEmpty(Parent(r), r.parent_cluster_number)[0].name # NoName
<1>1. pc = "idle" /\ req' = r /\ ~Duplicate(Parent(r), r)
  BY DEF WriteAccepted
<1>2. r \in FAT32DriverRequest /\ r.op = "write"
  BY RequestTypes, RequestKinds DEF SafeInv, TypeInv
<1>3. r.name \notin {NoName, RootName}
  BY RequestKinds, CallerNamesPlain
<1>4. ASSUME r.parent_cluster_number = ROOT_CLUSTER_NUMBER
      PROVE  New(r, Dir) /\ Dir[0].name # NoName /\ Parent(r) = Dir
             /\ Same(Dir, MarkNotEmpty(Dir, ROOT_CLUSTER_NUMBER))
  BY <1>1, <1>2, <1>3, <1>4, RootUp, RootParent, DuplicateListed, MarkSame
     DEF New
<1>5. Same(Dir, MarkNotEmpty(Dir, ROOT_CLUSTER_NUMBER))
        => MarkNotEmpty(Dir, ROOT_CLUSTER_NUMBER)[0].name = Dir[0].name
  BY ClusterFacts DEF Same, SameEntry
<1>. QED  BY <1>1, <1>2, <1>3, <1>4, <1>5

LEMMA RootWriteFile ==
  ASSUME SafeInv, RootInv, PlainUse, NEW r \in FileRequests, WriteFile(r)
  PROVE  RootInv' /\ RootStep
<1>1. /\ pc' = "alloc" /\ disk' = disk /\ queue' = queue /\ code' = code
      /\ table' = MarkNotEmpty(Parent(r), r.parent_cluster_number)
      /\ WriteAccepted(r)
  BY DEF WriteFile
<1>2. /\ pc = "idle" /\ req' = r /\ r \in FAT32DriverRequest
      /\ r.op = "write" /\ r.name # NoName
      /\ r.parent_cluster_number = ROOT_CLUSTER_NUMBER =>
           New(r, Dir) /\ Same(Dir, table')
  BY <1>1, RootAccepted
<1>3. Dir' = Dir
  BY <1>1, ListingNext
<1>4. RootInv'
  BY <1>1, <1>2, <1>3 DEF RootInv, OnRootCluster
<1>5. Idle
  BY <1>2, NotOnRoot
<1>6. CASE r.parent_cluster_number = ROOT_CLUSTER_NUMBER
  <2>1. OnRoot' /\ RootAnswer' = "none"
    BY <1>1, <1>2, <1>6, OnRootDef, OnRootNext
  <2>2. Key(r) \notin Listed(Dir)
    BY <1>2, <1>6 DEF New
  <2>. QED  BY <1>2, <1>3, <1>4, <1>5, <2>1, <2>2, Submitted
<1>7. CASE r.parent_cluster_number # ROOT_CLUSTER_NUMBER
  <2>1. Idle'
    BY <1>2, <1>7, NotOnRootNext DEF OnRootCluster
  <2>. QED  BY <1>3, <1>4, <1>5, <2>1, IdleStutter
<1>. QED  BY <1>6, <1>7

\* The directory write of a call that saves its tables.
LEMMA RootSaves ==
  ASSUME NEW p, p = req'.parent_cluster_number, NEW m, NEW t,
         p = ROOT_CLUSTER_NUMBER => Changes(req', Dir', t),
         \/ queue' = SaveOrder(p, m, t)
         \/ \E item : /\ item.cluster # ROOT_CLUSTER_NUMBER
                      /\ queue' = Append(SaveOrder(p, m, t), item)
  PROVE  /\ \A k \in 1 .. Len(queue') :
              queue'[k].cluster = ROOT_CLUSTER_NUMBER => RootWrite(k)'
         /\ p = ROOT_CLUSTER_NUMBER => Outstanding'
<1>. DEFINE f == Item(FAT_CLUSTER_NUMBER, FatCell(m))
            d == Item(p, DirCell(t))
<1>1. /\ d.cluster = p /\ d.cell = DirCell(t)
      /\ f.cluster # ROOT_CLUSTER_NUMBER
  BY ReservedFacts DEF Item
<1>2. AsTable(DirCell(t)) = t
  BY CellKinds DEF AsTable
<1>3. /\ queue'[2] = d /\ 2 \in 1 .. Len(queue') /\ Len(queue') \in Nat
      /\ 2 \in DOMAIN queue'
      /\ \A k \in 1 .. Len(queue') :
           k # 2 => queue'[k].cluster # ROOT_CLUSTER_NUMBER
  <2>1. SaveOrder(p, m, t) = <<f, d>>
    BY DEF SaveOrder
  <2>. HIDE DEF f, d
  <2>2. CASE queue' = SaveOrder(p, m, t)
    <3>1. /\ Len(queue') = 2 /\ queue'[1] = f /\ queue'[2] = d
          /\ DOMAIN queue' = 1 .. 2
      BY <2>1, <2>2
    <3>. QED  BY <1>1, <3>1
  <2>3. CASE \E item : /\ item.cluster # ROOT_CLUSTER_NUMBER
                       /\ queue' = Append(SaveOrder(p, m, t), item)
    <3>1. PICK item : /\ item.cluster # ROOT_CLUSTER_NUMBER
                      /\ queue' = Append(SaveOrder(p, m, t), item)
      BY <2>3
    <3>2. queue' = Append(<<f, d>>, item)
      BY <2>1, <3>1
    <3>3. /\ Len(queue') = 3 /\ queue'[1] = f /\ queue'[2] = d
          /\ queue'[3] = item /\ DOMAIN queue' = 1 .. 3
      BY <3>2
    <3>. QED  BY <1>1, <3>1, <3>3
  <2>. QED  BY <2>2, <2>3
<1>. HIDE DEF f, d
<1>4. p = ROOT_CLUSTER_NUMBER => RootWrite(2)'
  BY <1>1, <1>2, <1>3 DEF RootWrite, OnRootCluster
<1>5. p = ROOT_CLUSTER_NUMBER => Outstanding'
  BY <1>1, <1>3 DEF Outstanding
<1>6. \A k \in 1 .. Len(queue') :
        queue'[k].cluster = ROOT_CLUSTER_NUMBER
          => k = 2 /\ p = ROOT_CLUSTER_NUMBER
  BY <1>1, <1>3
<1>. QED  BY <1>4, <1>5, <1>6

LEMMA RootWriteFolder ==
  ASSUME SafeInv, RootInv, PlainUse, NEW r \in FolderRequests,
         NEW index \in Clusters, WriteFolder(r, index)
  PROVE  RootInv' /\ RootStep
<1>. DEFINE p == r.parent_cluster_number
            marked == MarkNotEmpty(Parent(r), p)
            e == FolderEntry(r, index)
            sub == DirCell(InitDirectoryTable(r.name, p))
<1>1. /\ pc' = "flush" /\ disk' = disk /\ code' = code /\ WriteAccepted(r)
      /\ table' = StoreEntry(marked, e)
      /\ queue' = Append(SaveOrder(p, fat', table'), Item(index, sub))
  BY DEF WriteFolder
<1>2. /\ pc = "idle" /\ req' = r /\ r \in FAT32DriverRequest
      /\ r.op = "write" /\ r.name # NoName
      /\ p = ROOT_CLUSTER_NUMBER =>
           New(r, Dir) /\ Same(Dir, marked) /\ marked[0].name # NoName
  BY <1>1, RootAccepted
<1>3. Dir' = Dir
  BY <1>1, ListingNext
<1>4. e.name = r.name /\ e.ext = r.ext /\ e.undelete = 1
  <2>1. r.ext = NoExt
    BY RequestKinds DEF PlainUse
  <2>. QED  BY <2>1 DEF FolderEntry
<1>5. Item(index, sub).cluster # ROOT_CLUSTER_NUMBER
  <2>1. SafeMap(AsFat(disk[FAT_CLUSTER_NUMBER]))
    BY <1>2, LoadedFatSafe
  <2>2. index # ROOT_CLUSTER_NUMBER
    BY <2>1, FirstFreeSafe, ReservedFacts DEF WriteFolder, Reserved
  <2>. QED  BY <2>2 DEF Item
<1>. HIDE DEF p, marked, e, sub
<1>6. p = ROOT_CLUSTER_NUMBER => Adds(r, Dir, table')
  BY <1>1, <1>2, <1>4, StoreFills DEF Adds
<1>7. p = req'.parent_cluster_number
  BY <1>2 DEF p
<1>8. /\ \A k \in 1 .. Len(queue') :
           queue'[k].cluster = ROOT_CLUSTER_NUMBER => RootWrite(k)'
      /\ p = ROOT_CLUSTER_NUMBER => Outstanding'
  BY <1>1, <1>2, <1>3, <1>5, <1>6, <1>7, RootSaves DEF Changes
<1>9. RootInv'
  BY <1>1, <1>2, <1>3, <1>8 DEF RootInv
<1>10. Idle
  BY <1>2, NotOnRoot
<1>11. CASE p = ROOT_CLUSTER_NUMBER
  <2>1. OnRoot' /\ RootAnswer' = "none"
    BY <1>1, <1>2, <1>7, <1>8, <1>11, OnRootDef, OnRootNext
  <2>2. Key(r) \notin Listed(Dir)
    BY <1>2, <1>11 DEF New
  <2>. QED  BY <1>2, <1>3, <1>9, <1>10, <2>1, <2>2, Submitted
<1>12. CASE p # ROOT_CLUSTER_NUMBER
  <2>1. Idle'
    BY <1>7, <1>12, NotOnRootNext DEF OnRootCluster
  <2>. QED  BY <1>3, <1>9, <1>10, <2>1, IdleStutter
<1>. QED  BY <1>11, <1>12

LEMMA RootDelete ==
  ASSUME SafeInv, RootInv, PlainUse, NEW r \in DeleteRequests, Delete(r)
  PROVE  RootInv' /\ RootStep
<1>1. /\ pc = "idle" /\ pc' = "walk" /\ disk' = disk /\ queue' = queue
      /\ code' = code /\ req' = r
  BY DEF Delete
<1>2. r \in FAT32DriverRequest /\ r.op = "delete"
  BY RequestTypes, RequestKinds DEF SafeInv, TypeInv
<1>3. r.name # NoName
  BY RequestKinds, CallerNamesPlain
<1>4. Dir' = Dir
  BY <1>1, ListingNext
<1>5. ASSUME r.parent_cluster_number = ROOT_CLUSTER_NUMBER
      PROVE  Removes(r, Dir, table') /\ Key(r) \in Listed(Dir)
  <2>1. Parent(r) = Dir
    BY <1>5, RootParent
  <2>2. PICK s \in Slots :
          /\ IsFirstDeletable(Dir, r, s)
          /\ table' = [q \in Slots |-> IF q = s THEN ZeroEntry ELSE Dir[q]]
    BY <2>1 DEF Delete
  <2>3. s # 0 /\ Dir[s].name = r.name /\ Dir[s].ext = r.ext
        /\ Deletable(Dir, r, s)
    BY <2>2 DEF IsFirstDeletable, Deletable
  <2>4. table'[s].name = NoName
    BY <2>2 DEF ZeroEntry
  <2>5. SameBut(Dir, table', s)
    BY <2>2 DEF SameBut, SameEntry
  <2>6. Key(r) \in Listed(Dir)
    BY <1>3, <2>3, KeyListed
  <2>. QED  BY <1>2, <1>3, <2>3, <2>4, <2>5, <2>6 DEF Removes
<1>6. RootInv'
  BY <1>1, <1>2, <1>4, <1>5 DEF RootInv, OnRootCluster
<1>7. Idle
  BY <1>1, NotOnRoot
<1>8. CASE r.parent_cluster_number = ROOT_CLUSTER_NUMBER
  <2>1. OnRoot' /\ RootAnswer' = "none"
    BY <1>1, <1>2, <1>8, OnRootDef, OnRootNext
  <2>. QED  BY <1>1, <1>2, <1>3, <1>4, <1>5, <1>6, <1>7, <1>8, <2>1, Submitted
<1>9. CASE r.parent_cluster_number # ROOT_CLUSTER_NUMBER
  <2>1. Idle'
    BY <1>1, <1>9, NotOnRootNext DEF OnRootCluster
  <2>. QED  BY <1>4, <1>6, <1>7, <2>1, IdleStutter
<1>. QED  BY <1>8, <1>9

\* A step of a call that has not come to its directory write yet.
LEMMA Waiting ==
  ASSUME pc \in {"alloc", "walk"}, req' = req, Dir' = Dir,
         \/ pc' = pc
         \/ pc' = "flush" /\ (OnRootCluster => Outstanding')
  PROVE  RootStep
<1>1. CASE OnRoot
  <2>1. OnRoot'
    BY <1>1, OnRootDef DEF OnRoot
  <2>2. RootCall' = RootCall
    BY <1>1, <2>1, OnRootValues, OnRootNext
  <2>3. RootAnswer = "none" /\ RootAnswer' = "none"
    BY <1>1, <2>1, OnRootValues, OnRootNext DEF OnRoot, OnRootCluster
  <2>. QED  BY <2>2, <2>3, Stutter
<1>2. CASE ~OnRoot
  <2>1. ~OnRoot'
    BY <1>2 DEF OnRoot
  <2>. QED  BY <1>2, <2>1, NotOnRoot, NotOnRootNext, IdleStutter
<1>. QED  BY <1>1, <1>2

\* The cluster that a loop writes is not the root directory.
LEMMA PlacedElsewhere ==
  ASSUME SafeInv, NEW i \in Clusters, PlaceData(i)
  PROVE  pc = "alloc" /\ Dir' = Dir
<1>1. pc = "alloc" /\ IsFirstFree(fat, cur, i)
      /\ disk' = WriteCluster(disk, i, DataCell(req.name, req.ext, counter))
  BY DEF PlaceData
<1>2. i # ROOT_CLUSTER_NUMBER
  BY <1>1, FirstFreeSafe DEF SafeInv, CallSafe, Reserved
<1>3. disk'[ROOT_CLUSTER_NUMBER] = disk[ROOT_CLUSTER_NUMBER]
  BY <1>1, <1>2, ReservedFacts DEF WriteCluster, Reserved
<1>. QED  BY <1>1, <1>3, ListingNext

\* SaveFile, on whatever the loop has placed.
LEMMA RootSaveFile ==
  ASSUME SafeInv, RootInv, pc = "alloc", Dir' = Dir, req' = req, code' = code,
         NEW m, NEW start, NEW size, SaveFile(m, start, size)
  PROVE  RootInv' /\ RootStep
<1>. DEFINE p == req.parent_cluster_number
            e == FileEntry(req, start, size)
<1>1. /\ pc' = "flush" /\ table' = StoreEntry(table, e)
      /\ queue' = SaveOrder(p, m, table')
  BY DEF SaveFile
<1>2. e.name = req.name /\ e.ext = req.ext /\ e.undelete = 1
  BY DEF FileEntry
<1>3. /\ req.op = "write" /\ code = 0 /\ Findable(Dir)
      /\ p = ROOT_CLUSTER_NUMBER => New(req, Dir) /\ Same(Dir, table)
  BY DEF RootInv, OnRootCluster
<1>4. p = ROOT_CLUSTER_NUMBER => table[0].name # NoName
  <2>1. Dir[0].name # NoName
    BY RootUp
  <2>. QED  BY <1>3, <2>1, ClusterFacts DEF Same, SameEntry
<1>. HIDE DEF e
<1>5. p = ROOT_CLUSTER_NUMBER => Adds(req, Dir, table')
  BY <1>1, <1>2, <1>3, <1>4, StoreFills DEF Adds, New
<1>6. /\ \A k \in 1 .. Len(queue') :
           queue'[k].cluster = ROOT_CLUSTER_NUMBER => RootWrite(k)'
      /\ p = ROOT_CLUSTER_NUMBER => Outstanding'
  BY <1>1, <1>5, RootSaves DEF Changes
<1>7. RootInv'
  BY <1>1, <1>3, <1>6 DEF RootInv
<1>8. RootStep
  BY <1>1, <1>6, Waiting DEF OnRootCluster
<1>. QED  BY <1>7, <1>8

LEMMA RootAllocate ==
  ASSUME SafeInv, RootInv, NEW i \in Clusters,
         AllocateCluster(i) \/ AllocateLastCluster(i)
  PROVE  RootInv' /\ RootStep
<1>1. pc = "alloc" /\ Dir' = Dir
  BY PlacedElsewhere DEF AllocateCluster, AllocateLastCluster
<1>2. CASE AllocateCluster(i)
  <2>1. /\ pc' = pc /\ req' = req /\ code' = code /\ queue' = queue
        /\ table' = table
    BY <1>2 DEF AllocateCluster
  <2>2. RootInv'
    BY <1>1, <2>1 DEF RootInv, OnRootCluster
  <2>. QED  BY <1>1, <2>1, <2>2, Waiting
<1>3. CASE AllocateLastCluster(i)
  BY <1>1, <1>3, RootSaveFile DEF AllocateLastCluster
<1>. QED  BY <1>2, <1>3

LEMMA RootDiskFull ==
  ASSUME SafeInv, RootInv, DiskFull
  PROVE  RootInv' /\ RootStep
<1>1. pc = "alloc" /\ Dir' = Dir
  BY ListingNext DEF DiskFull
<1>. QED  BY <1>1, RootSaveFile DEF DiskFull

LEMMA RootWalk ==
  ASSUME SafeInv, RootInv, WalkChain \/ EndOfChain
  PROVE  RootInv' /\ RootStep
<1>1. /\ pc = "walk" /\ req' = req /\ table' = table /\ code' = code
  BY DEF WalkChain, EndOfChain
<1>2. /\ req.op = "delete" /\ code = 0 /\ Findable(Dir)
      /\ OnRootCluster => Removes(req, Dir, table)
  BY <1>1 DEF RootInv
<1>3. CASE WalkChain
  <2>1. pc' = pc /\ queue' = queue /\ disk' = WriteCluster(disk, cur, Blank)
    BY <1>3 DEF WalkChain
  <2>2. cur # ROOT_CLUSTER_NUMBER
    BY <1>1 DEF SafeInv, CallSafe, Reserved
  <2>3. disk'[ROOT_CLUSTER_NUMBER] = disk[ROOT_CLUSTER_NUMBER]
    BY <2>1, <2>2, ReservedFacts DEF WriteCluster, Reserved
  <2>4. Dir' = Dir
    BY <2>3, ListingNext
  <2>5. RootInv'
    BY <1>1, <2>1, <2>4 DEF RootInv, OnRootCluster
  <2>. QED  BY <1>1, <2>1, <2>4, <2>5, Waiting
<1>4. CASE EndOfChain
  <2>1. /\ pc' = "flush" /\ disk' = disk
        /\ queue' = SaveOrder(req.parent_cluster_number, fat', table)
    BY <1>4 DEF EndOfChain
  <2>2. Dir' = Dir
    BY <2>1, ListingNext
  <2>3. /\ \A k \in 1 .. Len(queue') :
             queue'[k].cluster = ROOT_CLUSTER_NUMBER => RootWrite(k)'
        /\ req.parent_cluster_number = ROOT_CLUSTER_NUMBER => Outstanding'
    BY <1>1, <1>2, <2>1, <2>2, RootSaves DEF Changes, OnRootCluster
  <2>4. RootInv'
    BY <1>1, <1>2, <2>1, <2>2, <2>3 DEF RootInv
  <2>. QED  BY <1>1, <2>1, <2>2, <2>3, <2>4, Waiting DEF OnRootCluster
<1>. QED  BY <1>3, <1>4

LEMMA FreshRoot ==
  /\ Listed(RootTable) = {} /\ Findable(RootTable)
  /\ Listed(ZeroTable) = {} /\ Findable(ZeroTable)
  /\ AsTable(DirCell(RootTable)) = RootTable /\ AsTable(Blank) = ZeroTable
<1>1. \A s \in Slots \ {0} :
        RootTable[s].name = NoName /\ ZeroTable[s].name = NoName
  BY DEF RootTable, InitDirectoryTable, ZeroTable, ZeroEntry
<1>2. AsTable(DirCell(RootTable)) = RootTable /\ AsTable(Blank) = ZeroTable
  BY CellKinds DEF AsTable
<1>. QED  BY <1>1, <1>2 DEF Listed, Findable

\* The writes outstanding, and the one that FlushWrite does.
LEMMA FlushFacts ==
  ASSUME SafeInv, FlushWrite
  PROVE  /\ pc \in {"format", "flush"}
         /\ req' = req /\ code' = code /\ queue' = Tail(queue)
         /\ pc' = IF Len(queue) > 1 THEN pc
                  ELSE IF pc = "format" THEN "idle" ELSE "return"
         /\ Len(queue) \in Nat /\ Len(queue) > 0 /\ Head(queue) = queue[1]
         /\ Len(queue') = Len(queue) - 1
         /\ Len(queue) = 1 => queue' = <<>>
         /\ \A k \in 1 .. Len(queue') : queue'[k] = queue[k + 1]
         /\ DOMAIN queue = 1 .. Len(queue)
         /\ DOMAIN queue' = 1 .. Len(queue')
         /\ Dir' = IF queue[1].cluster = ROOT_CLUSTER_NUMBER
                     THEN AsTable(queue[1].cell) ELSE Dir
<1>1. queue \in Seq(Items) /\ queue # <<>>
  BY DEF FlushWrite, SafeInv, TypeInv, TypeOK, QueueOK
<1>2. /\ Len(queue) \in Nat /\ Len(queue) > 0 /\ Head(queue) = queue[1]
      /\ queue' = Tail(queue)
      /\ Tail(queue) \in Seq(Items)
      /\ Len(Tail(queue)) = Len(queue) - 1
      /\ \A i \in 1 .. Len(Tail(queue)) : Tail(queue)[i] = queue[i + 1]
  BY <1>1, EmptySeq, LenProperties, HeadTailProperties DEF FlushWrite
<1>3. DOMAIN queue = 1 .. Len(queue) /\ DOMAIN queue' = 1 .. Len(queue')
  BY <1>1, <1>2, LenProperties
<1>4. Len(queue) = 1 => queue' = <<>>
  BY <1>2, EmptySeq
<1>5. disk'[ROOT_CLUSTER_NUMBER] = IF queue[1].cluster = ROOT_CLUSTER_NUMBER
                                     THEN queue[1].cell
                                     ELSE disk[ROOT_CLUSTER_NUMBER]
  BY <1>2, ReservedFacts DEF FlushWrite, WriteCluster, Reserved
<1>6. Dir' = IF queue[1].cluster = ROOT_CLUSTER_NUMBER
               THEN AsTable(queue[1].cell) ELSE Dir
  BY <1>5 DEF Dir
<1>. QED  BY <1>2, <1>3, <1>4, <1>6 DEF FlushWrite

LEMMA RootFormatWrite ==
  ASSUME SafeInv, RootInv, FlushWrite, pc = "format"
  PROVE  RootInv' /\ RootStep
<1>1. /\ pc' \in {"format", "idle"} /\ code' = 0
      /\ pc' = "idle" => queue' = <<>>
  BY FlushFacts DEF RootInv
<1>2. Idle /\ Idle'
  BY <1>1, NotOnRoot, NotOnRootNext
<1>3. queue[1].cluster = ROOT_CLUSTER_NUMBER =>
        queue[1] = Item(ROOT_CLUSTER_NUMBER, DirCell(RootTable))
  <2>1. /\ FormatWrites[1] = Item(BOOT_SECTOR, Signature)
        /\ Tail(FormatWrites)[1] = Item(ROOT_CLUSTER_NUMBER, DirCell(RootTable))
        /\ Tail(Tail(FormatWrites))[1]
             = Item(FAT_CLUSTER_NUMBER, FatCell(FormattedMap))
    BY DEF FormatWrites
  <2>2. /\ Item(BOOT_SECTOR, Signature).cluster # ROOT_CLUSTER_NUMBER
        /\ Item(FAT_CLUSTER_NUMBER, FatCell(FormattedMap)).cluster
             # ROOT_CLUSTER_NUMBER
    BY ReservedFacts DEF Item
  <2>3. \/ queue = FormatWrites
        \/ queue = Tail(FormatWrites)
        \/ queue = Tail(Tail(FormatWrites))
    BY DEF SafeInv, FormatSafe
  <2>. QED  BY <2>1, <2>2, <2>3
<1>4. CASE queue[1].cluster = ROOT_CLUSTER_NUMBER
  <2>1. queue[1].cell = DirCell(RootTable)
    BY <1>3, <1>4 DEF Item
  <2>2. Dir' = RootTable
    BY <1>4, <2>1, FlushFacts, FreshRoot
  <2>3. RootInv'
    BY <1>1, <2>2, FreshRoot DEF RootInv
  <2>4. Root!Format
    BY <1>2, <2>2, FreshRoot, ListingNext DEF Root!Format, Idle
  <2>. QED  BY <2>3, <2>4 DEF RootStep, Root!Next
<1>5. CASE queue[1].cluster # ROOT_CLUSTER_NUMBER
  <2>1. Dir' = Dir
    BY <1>5, FlushFacts
  <2>2. RootInv'
    BY <1>1, <2>1 DEF RootInv
  <2>. QED  BY <1>2, <2>1, <2>2, IdleStutter
<1>. QED  BY <1>4, <1>5

\* What the directory write of a call makes of the listing.
LEMMA ChangesEffect ==
  ASSUME OnRoot, RootAnswer = "none", Findable(Dir), NEW u, Changes(req, Dir, u)
  PROVE  Listed(u) \in Root!Effects /\ Findable(u)
<1>1. RootCall = [op |-> req.op, entry |-> Key(req)] /\ RootCall # Root!NoCall
  BY OnRootValues
<1>2. RootCall.op = req.op /\ RootCall.entry = Key(req) /\ Listing = Listed(Dir)
  BY <1>1, ListingNext
<1>3. CASE Adds(req, Dir, u)
  <2>1. req.op = "write"
    BY <1>3 DEF Adds, New
  <2>. QED  BY <1>1, <1>2, <1>3, <2>1, AddsLists DEF Root!Effects
<1>4. CASE Removes(req, Dir, u)
  <2>1. req.op = "delete"
    BY <1>4 DEF Removes
  <2>. QED  BY <1>1, <1>2, <1>4, <2>1, RemovesLists DEF Root!Effects
<1>. QED  BY <1>3, <1>4 DEF Changes

LEMMA RootFlushWrite ==
  ASSUME SafeInv, RootInv, FlushWrite, pc = "flush"
  PROVE  RootInv' /\ RootStep
<1>1. /\ req' = req /\ code = 0 /\ code' = 0
      /\ pc' = IF Len(queue) > 1 THEN "flush" ELSE "return"
      /\ req.op \in {"write", "delete"}
  BY FlushFacts DEF RootInv
<1>2. \A k \in 1 .. Len(queue) :
        queue[k].cluster = ROOT_CLUSTER_NUMBER => RootWrite(k)
  BY DEF RootInv
<1>3. /\ Len(queue) \in Nat /\ Len(queue) > 0
      /\ \A k \in 1 .. Len(queue') :
           k + 1 \in 1 .. Len(queue) /\ k + 1 # 1 /\ queue'[k] = queue[k + 1]
      /\ Len(queue') = Len(queue) - 1
      /\ DOMAIN queue = 1 .. Len(queue) /\ DOMAIN queue' = 1 .. Len(queue')
      /\ pc' = "return" => queue' = <<>>
  BY <1>1, FlushFacts
<1>4. OnRoot' <=> OnRoot
  BY <1>1, OnRootDef DEF OnRoot
<1>5. CASE queue[1].cluster = ROOT_CLUSTER_NUMBER
  <2>1. 1 \in 1 .. Len(queue)
    BY <1>3
  <2>2. RootWrite(1)
    BY <1>2, <1>5, <2>1
  <2>3. OnRoot /\ Outstanding
    BY <1>1, <1>3, <1>5, <2>1, <2>2
       DEF OnRoot, OnRootCluster, RootWrite, Outstanding
  <2>4. RootAnswer = "none" /\ RootCall # Root!NoCall
    BY <2>3, OnRootValues
  <2>5. Dir' = AsTable(queue[1].cell)
    BY <1>5, FlushFacts
  <2>6. Listed(Dir') \in Root!Effects /\ Findable(Dir')
    BY <2>2, <2>3, <2>4, <2>5, ChangesEffect DEF RootInv, RootWrite
  <2>7. \A k \in 1 .. Len(queue') : queue'[k].cluster # ROOT_CLUSTER_NUMBER
    BY <1>3, <2>2 DEF RootWrite
  <2>8. RootInv'
    BY <1>1, <1>3, <2>6, <2>7 DEF RootInv
  <2>9. RootAnswer' = "done" /\ RootCall' = RootCall
    <3>1. ~Outstanding'
      BY <1>3, <2>7 DEF Outstanding
    <3>. QED  BY <1>1, <1>4, <2>3, <3>1, OnRootValues, OnRootNext
  <2>10. Root!Commit
    BY <2>4, <2>6, <2>9, ListingNext DEF Root!Commit
  <2>. QED  BY <2>8, <2>10 DEF RootStep, Root!Next
<1>6. CASE queue[1].cluster # ROOT_CLUSTER_NUMBER
  <2>1. Dir' = Dir
    BY <1>6, FlushFacts
  <2>2. ASSUME NEW k \in 1 .. Len(queue'),
               queue'[k].cluster = ROOT_CLUSTER_NUMBER
        PROVE  RootWrite(k)'
    <3>1. RootWrite(k + 1)
      BY <1>2, <1>3, <2>2
    <3>2. \A j \in 1 .. Len(queue') : j # k => j + 1 # k + 1
      OBVIOUS
    <3>3. \A j \in 1 .. Len(queue') :
            j # k => queue'[j].cluster # ROOT_CLUSTER_NUMBER
      BY <1>3, <3>1, <3>2 DEF RootWrite
    <3>. QED  BY <1>1, <1>3, <2>1, <3>1, <3>3 DEF RootWrite, OnRootCluster
  <2>3. RootInv'
    BY <1>1, <1>3, <2>1, <2>2 DEF RootInv
  <2>4. Outstanding' <=> Outstanding
    <3>1. Outstanding' => Outstanding
      BY <1>3 DEF Outstanding
    <3>2. ASSUME Outstanding PROVE Outstanding'
      <4>1. PICK j \in 1 .. Len(queue) : queue[j].cluster = ROOT_CLUSTER_NUMBER
        BY <1>3, <3>2 DEF Outstanding
      <4>2. j # 1
        BY <1>6, <4>1
      <4>3. j - 1 \in 1 .. Len(queue') /\ queue'[j - 1] = queue[j]
        BY <1>3, <4>2
      <4>. QED  BY <1>3, <4>1, <4>3 DEF Outstanding
    <3>. QED  BY <3>1, <3>2
  <2>5. CASE OnRoot
    <3>1. RootCall' = RootCall
      BY <1>1, <1>4, <2>5, OnRootValues, OnRootNext
    <3>2. pc' = "return" => ~Outstanding'
      BY <1>1, <1>3 DEF Outstanding
    <3>3. RootAnswer' = RootAnswer
      BY <1>1, <1>4, <2>4, <2>5, <3>2, OnRootValues, OnRootNext
    <3>. QED  BY <2>1, <2>3, <3>1, <3>3, Stutter
  <2>6. CASE ~OnRoot
    BY <1>4, <2>1, <2>3, <2>6, NotOnRoot, NotOnRootNext, IdleStutter
  <2>. QED  BY <2>5, <2>6
<1>. QED  BY <1>5, <1>6

\* What is left of the root directory when a write to it is interrupted.
LEMMA InterruptedRoot ==
  ASSUME SafeInv, RootInv, pc = "flush", disk' \in InterruptedWrite
  PROVE  \/ Same(Dir, Dir')
         \/ /\ Outstanding /\ OnRootCluster
            /\ \E u : Changes(req, Dir, u) /\ Same(u, Dir')
<1>. DEFINE h == Head(queue)
<1>1. /\ queue \in Seq(Items) /\ Len(queue) \in Nat /\ Len(queue) > 0
      /\ h = queue[1] /\ 1 \in 1 .. Len(queue) /\ DOMAIN queue = 1 .. Len(queue)
  <2>1. queue \in Seq(Items) /\ queue # <<>>
    BY DEF SafeInv, TypeInv, TypeOK, QueueOK
  <2>. QED  BY <2>1, EmptySeq, LenProperties, HeadTailProperties
<1>2. CASE disk'[ROOT_CLUSTER_NUMBER] = disk[ROOT_CLUSTER_NUMBER]
  BY <1>2, ListingNext DEF Same, SameEntry
<1>3. CASE disk'[ROOT_CLUSTER_NUMBER] # disk[ROOT_CLUSTER_NUMBER]
  <2>1. PICK k \in 1 .. (Blocks - 1) :
          disk' = WriteCluster(disk, h.cluster,
                               Torn(disk[h.cluster], h.cell, k))
    BY <1>3 DEF InterruptedWrite
  <2>2. h.cluster = ROOT_CLUSTER_NUMBER
    BY <1>3, <2>1, ReservedFacts DEF WriteCluster, Reserved
  <2>3. disk'[ROOT_CLUSTER_NUMBER] = Torn(disk[ROOT_CLUSTER_NUMBER], h.cell, k)
    BY <2>1, <2>2, ReservedFacts DEF WriteCluster, Reserved
  <2>4. RootWrite(1)
    BY <1>1, <2>2 DEF RootInv
  <2>5. h.cell.kind = "dir"
    BY <1>1, <2>2 DEF SafeInv, QueueSafe, SafeCell, IsRoot
  <2>. DEFINE u == AsTable(h.cell)
              v == [s \in Slots |-> IF s * Blocks < k * TableSize
                                      THEN h.cell.entries[s] ELSE Dir[s]]
  <2>6. u = h.cell.entries
    BY <2>5 DEF AsTable
  <2>7. Dir' = v
    <3>1. disk'[ROOT_CLUSTER_NUMBER] = DirCell(v)
      BY <2>3, <2>5 DEF Torn, Dir
    <3>. HIDE DEF v
    <3>2. AsTable(DirCell(v)) = v
      BY CellKinds DEF AsTable
    <3>. QED  BY <3>1, <3>2 DEF Dir
  <2>8. \A s \in Slots : Dir'[s] = Dir[s] \/ Dir'[s] = u[s]
    BY <2>6, <2>7
  <2>9. Changes(req, Dir, u) /\ OnRootCluster
    BY <1>1, <2>4 DEF RootWrite
  <2>10. Same(Dir, Dir') \/ Same(u, Dir')
    BY <2>8, <2>9, TornTable
  <2>11. Outstanding
    BY <1>1, <2>2 DEF Outstanding
  <2>. QED  BY <2>9, <2>10, <2>11
<1>. QED  BY <1>2, <1>3

LEMMA RootPowerLoss ==
  ASSUME SafeInv, RootInv, PlainUse, PowerLoss
  PROVE  RootInv' /\ RootStep
<1>1. /\ pc # "format" /\ pc' = "off" /\ queue' = <<>> /\ code' = 0
      /\ disk' \in InterruptedWrite
  BY DEF PowerLoss, PlainUse
<1>2. Idle'
  BY <1>1, NotOnRootNext
<1>3. Findable(Dir)
  BY DEF RootInv
<1>4. ASSUME Same(Dir, Dir')
      PROVE  RootInv' /\ RootStep
  <2>1. Listed(Dir') = Listed(Dir) /\ Findable(Dir')
    BY <1>3, <1>4, SameLists
  <2>2. RootInv'
    BY <1>1, <2>1 DEF RootInv
  <2>3. Root!PowerLoss
    BY <1>2, <2>1, ListingNext DEF Root!PowerLoss, Idle
  <2>. QED  BY <2>2, <2>3 DEF RootStep, Root!Next
<1>5. CASE pc # "flush"
  <2>1. disk' = disk
    BY <1>1, <1>5 DEF RootInv, InterruptedWrite
  <2>2. Same(Dir, Dir')
    BY <2>1, ListingNext DEF Same, SameEntry
  <2>. QED  BY <1>4, <2>2
<1>6. CASE pc = "flush" /\ ~Same(Dir, Dir')
  <2>1. /\ Outstanding /\ OnRootCluster
        /\ \E u : Changes(req, Dir, u) /\ Same(u, Dir')
    BY <1>1, <1>6, InterruptedRoot
  <2>2. PICK u : Changes(req, Dir, u) /\ Same(u, Dir')
    BY <2>1
  <2>3. OnRoot
    BY <1>6, <2>1 DEF OnRoot, OnRootCluster, RootInv
  <2>4. RootAnswer = "none"
    BY <1>6, <2>1, <2>3, OnRootValues
  <2>5. Listed(u) \in Root!Effects /\ Findable(u)
    BY <1>3, <2>2, <2>3, <2>4, ChangesEffect
  <2>6. Listed(Dir') \in Root!Effects /\ Findable(Dir')
    BY <2>2, <2>5, SameLists
  <2>7. RootInv'
    BY <1>1, <2>6 DEF RootInv
  <2>8. Root!PowerLoss
    BY <1>2, <2>4, <2>6, ListingNext DEF Root!PowerLoss, Idle
  <2>. QED  BY <2>7, <2>8 DEF RootStep, Root!Next
<1>. QED  BY <1>4, <1>5, <1>6

-----------------------------------------------------------------------------
(* The theorem. *)

LEMMA RootInit ==
  ASSUME Init
  PROVE  RootInv /\ Root!Init
<1>1. Dir = ZeroTable
  BY ReservedFacts, FreshRoot DEF Init, Dir, Reserved
<1>2. RootInv
  BY <1>1, FreshRoot DEF Init, RootInv
<1>3. Idle
  BY NotOnRoot DEF Init
<1>. QED  BY <1>1, <1>2, <1>3, FreshRoot, ListingNext DEF Root!Init, Idle

LEMMA RootNext ==
  ASSUME SafeInv, RootInv, PlainUse, [Next]_vars
  PROVE  RootInv' /\ RootStep
<1>1. CASE Call
  BY <1>1, RootListing, RootRead, RootWriteRefused, RootWriteFile,
     RootWriteFolder, RootDeleteRefused, RootDelete DEF Call
<1>2. CASE FlushWrite
  BY <1>2, RootFormatWrite, RootFlushWrite DEF FlushWrite
<1>3. CASE Kernel
  BY <1>2, <1>3, RootBoot, RootFollowChain, RootAllocate, RootDiskFull,
     RootWalk, RootReturn DEF Kernel
<1>4. CASE PowerLoss
  BY <1>4, RootPowerLoss
<1>5. CASE UNCHANGED vars
  <2>1. /\ disk' = disk /\ pc' = pc /\ req' = req /\ queue' = queue
        /\ code' = code /\ table' = table
    BY <1>5 DEF vars, locals
  <2>2. Dir' = Dir
    BY <2>1, ListingNext
  <2>3. RootInv'
    BY <2>1, <2>2 DEF RootInv, RootWrite, OnRootCluster
  <2>4. RootCall' = RootCall /\ RootAnswer' = RootAnswer
    BY <2>1 DEF RootCall, RootAnswer, OnRoot, Outstanding
  <2>. QED  BY <2>2, <2>3, <2>4, Stutter
<1>. QED  BY <1>1, <1>3, <1>4, <1>5 DEF Next

\* If callers do not name an entry "root" or nothing, leave the extension of
\* a folder empty, and power does not fail during the format, then write and
\* delete on the root directory take effect in one step and answer what they
\* found, whatever other calls do, and a power loss comes before or after that
\* step, also when it tears the directory write (fat32.c:139-262, 265-320).
THEOREM ImplementsRootDirectory ==
  ASSUME PlainUse
  PROVE  Spec => RootImplemented
<1>1. Init => SafeInv /\ RootInv /\ Root!Init
  BY SafeInit, RootInit
<1>2. SafeInv /\ RootInv /\ [Next]_vars =>
        SafeInv' /\ RootInv' /\ [Root!Next]_(Root!dirvars)
  BY SafeStep, RootNext DEF PlainUse, RootStep
<1>. QED  BY <1>1, <1>2, PTL DEF Spec, RootImplemented, Root!Spec
=============================================================================
