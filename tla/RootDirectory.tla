---------------------------- MODULE RootDirectory ----------------------------
(***************************************************************************)
(* What the driver promises about the root directory (lib-header/fat32.h,  *)
(* write and delete): a set of entries; a call adds the one it names or    *)
(* removes the one it names, in a single step, and its answer says what    *)
(* that step found.  A loss of power comes before or after that step,      *)
(* never inside it.  A new file system has an empty root directory.        *)
(***************************************************************************)
CONSTANT Entries    \* what may be listed: names with their extensions

VARIABLES
  listing,    \* the entries of the directory
  call,       \* the write or delete in progress
  answer      \* "none" while it has not been decided, or its outcome

dirvars == <<listing, call, answer>>

Calls  == [op : {"write", "delete"}, entry : Entries]
NoCall == [op |-> "none"]

Init == listing = {} /\ call = NoCall /\ answer = "none"

\* A call that is accepted, or that is answered at once.
Submit(c) ==
  /\ call = NoCall
  /\ call' = c
  /\ answer' \in
       CASE c.op = "write" /\ c.entry \in listing     -> {"exists"}
         [] c.op = "write" /\ c.entry \notin listing  -> {"none"}
         [] c.op = "delete" /\ c.entry \in listing    -> {"none", "refused"}
         [] c.op = "delete" /\ c.entry \notin listing -> {"absent"}
  /\ UNCHANGED listing

\* What the listing is once the call has taken effect.  A directory that is
\* full keeps the entries it has.
Effects == IF call = NoCall THEN {listing}
           ELSE IF call.op = "write" THEN {listing, listing \cup {call.entry}}
           ELSE {listing \ {call.entry}}

Commit ==
  /\ call # NoCall /\ answer = "none"
  /\ listing' \in Effects
  /\ answer' = "done"
  /\ UNCHANGED call

Return ==
  /\ answer # "none"
  /\ call' = NoCall /\ answer' = "none"
  /\ UNCHANGED listing

PowerLoss ==
  /\ listing' \in {listing} \cup (IF answer = "none" THEN Effects ELSE {})
  /\ call' = NoCall /\ answer' = "none"

Format ==
  /\ call = NoCall
  /\ listing' = {}
  /\ UNCHANGED <<call, answer>>

Next == (\E c \in Calls : Submit(c)) \/ Commit \/ Return \/ PowerLoss \/ Format

Spec == Init /\ [][Next]_dirvars
=============================================================================
