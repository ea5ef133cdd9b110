--------------------------- MODULE Fat32Refinement ---------------------------
(***************************************************************************)
(* The driver implements RootDirectory: what the disk lists as the root    *)
(* directory, seen with the call in progress on it.                        *)
(***************************************************************************)
EXTENDS Fat32

\* The entries of the root directory, as the disk has them.
Listing ==
  LET root == AsTable(disk[ROOT_CLUSTER_NUMBER]) IN
    {<<root[s].name, root[s].ext>> :
       s \in {q \in Slots \ {0} : root[q].name # NoName}}

OnRoot == /\ pc \in {"alloc", "walk", "flush", "return"}
          /\ req.op \in {"write", "delete"}
          /\ req.parent_cluster_number = ROOT_CLUSTER_NUMBER

RootCall == IF OnRoot THEN [op |-> req.op, entry |-> <<req.name, req.ext>>]
                      ELSE [op |-> "none"]

\* The call has taken effect once its directory write is done.
Outstanding == \E i \in DOMAIN queue : queue[i].cluster = ROOT_CLUSTER_NUMBER

RootAnswer ==
  CASE ~OnRoot -> "none"
    [] OnRoot /\ pc = "return" ->
         (CASE code = 0                      -> "done"
            [] code = 1 /\ req.op = "write"  -> "exists"
            [] code = 1 /\ req.op = "delete" -> "absent"
            [] code = 2 /\ req.op = "delete" -> "refused"
            [] OTHER                         -> "broken")
    [] OnRoot /\ pc = "flush" -> IF Outstanding THEN "none" ELSE "done"
    [] OTHER -> "none"

Root == INSTANCE RootDirectory WITH
          Entries <- (AnyName \ {NoName}) \X AnyExt,
          listing <- Listing,
          call    <- RootCall,
          answer  <- RootAnswer

\* Calls on the root directory take effect in one step and answer what they
\* found there, power losses and torn writes included; calls on other
\* directories, and everything else the driver writes, leave the root
\* directory alone (the writes of fat32.c:219-220, 258-260 and 315-316).
RootImplemented == Root!Spec
=============================================================================
