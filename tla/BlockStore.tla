------------------------------- MODULE BlockStore -------------------------------
(***************************************************************************)
(* What read_blocks and write_blocks promise to the file system: blocks    *)
(* reach the disk one by one, in the order in which they were given, and a *)
(* read waits for them.  A write may return when all of its blocks but the *)
(* last are on the disk.  A loss of power leaves a prefix.                 *)
(***************************************************************************)
EXTENDS Naturals, Sequences

CONSTANTS
  Addresses,      \* the addresses of the blocks on the disk
  Contents,       \* what a block may hold
  Junk,           \* what is read at any other address
  Reads,          \* the calls of read_blocks, [lba, count]
  Writes          \* the calls of write_blocks, [lba, data]

VARIABLES
  store,          \* the blocks on the disk
  outstanding,    \* what is on its way there: << [lba, data], ... >>
  call,           \* the call in progress
  answer          \* what the last read put into its buffer

storeVars == <<store, outstanding, call, answer>>

NoCall == [op |-> "none", lba |-> 0, count |-> 0]

\* The blocks of a write from number i on, with their addresses.
From(w, i) ==
  [k \in 1 .. (Len(w.data) - i) |->
     [lba |-> w.lba + i + k - 1, data |-> w.data[i + k]]]

Fetch(l) == IF l \in Addresses THEN store[l] ELSE Junk

StoreInit ==
  /\ store \in [Addresses -> Contents]
  /\ outstanding = << >>
  /\ call = NoCall
  /\ answer = << >>

Write(w) ==
  /\ call = NoCall
  /\ call' = [op |-> "write", lba |-> w.lba, count |-> Len(w.data)]
  /\ outstanding' = outstanding \o From(w, 0)
  /\ UNCHANGED <<store, answer>>

StoreBlock ==
  /\ outstanding # << >>
  /\ store' = [l \in Addresses |-> IF l = Head(outstanding).lba
                                     THEN Head(outstanding).data ELSE store[l]]
  /\ outstanding' = Tail(outstanding)
  /\ UNCHANGED <<call, answer>>

WriteReturns ==
  /\ call.op = "write"
  /\ Len(outstanding) =< 1
  /\ call' = NoCall
  /\ UNCHANGED <<store, outstanding, answer>>

Read(r) ==
  /\ call = NoCall
  /\ call' = [op |-> "read", lba |-> r.lba, count |-> r.count]
  /\ UNCHANGED <<store, outstanding, answer>>

ReadReturns ==
  /\ call.op = "read"
  /\ outstanding = << >>
  /\ answer' = [i \in 1 .. call.count |-> Fetch(call.lba + i - 1)]
  /\ call' = NoCall
  /\ UNCHANGED <<store, outstanding>>

PowerLoss ==
  /\ outstanding' = << >>
  /\ call' = NoCall
  /\ answer' = << >>
  /\ UNCHANGED store

StoreNext ==
  \/ \E w \in Writes : Write(w)
  \/ StoreBlock
  \/ WriteReturns
  \/ \E r \in Reads : Read(r)
  \/ ReadReturns
  \/ PowerLoss

StoreSpec == StoreInit /\ [][StoreNext]_storeVars
=============================================================================
