-------------------------------- MODULE AtaDisk --------------------------------
(***************************************************************************)
(* read_blocks and write_blocks (disk.c): the registers and the polling of *)
(* an ATA device in PIO mode, and the device.                              *)
(*                                                                         *)
(* The driver runs with interrupts off; what moves meanwhile is the device.*)
(* A block is moved in one step: the device acts on whole blocks only.     *)
(* The device is modelled from how the driver uses it.  It shows BSY from  *)
(* the moment it gets a command, RDY whenever it does not show BSY, takes  *)
(* no command while it is busy, and answers an address behind its end with *)
(* an error: no data request, and RDY all the same.                        *)
(***************************************************************************)
EXTENDS Integers, Sequences

CONSTANTS
  Addresses,      \* the addresses of the blocks on the disk
  Contents,       \* what a block may hold
  Junk,           \* what the data register yields without a data request
  Reads,          \* the calls of read_blocks, [lba, count]
  Writes          \* the calls of write_blocks, [lba, data]

\* The blocks are numbered from 0 on.
ASSUME AtaAssumption ==
  /\ Addresses \subseteq Nat
  /\ \A a \in Addresses : 0 .. a \subseteq Addresses
  /\ << >> \notin Contents /\ Junk \notin Contents
  /\ Reads \subseteq [lba : Nat, count : Nat \ {0}]
  /\ Writes \subseteq [lba : Nat, data : Seq(Contents) \ {<< >>}]

VARIABLES
  \* the driver
  call,           \* arguments of the call in progress
  pc,             \* idle, waiting (before the command), moving (in the loop)
  i,              \* the loop counter
  buffer,         \* what a read has put at ptr so far
  data,           \* what a write takes from ptr
  \* the device
  platter,
  bsy, drq,       \* ATA_STATUS_BSY, ATA_STATUS_DRQ
  command,        \* the command in progress: none, read, write
  address, left,  \* the next block, and how many blocks are to come
  sector,         \* the device's buffer: a block that goes to the platter, or
                  \* comes from it, or << >>
  answer          \* buffer, when the last read returned; not in the code

driver == <<call, pc, i, buffer, data>>
device == <<platter, bsy, drq, command, address, left, sector>>
ataVars == <<driver, device, answer>>

NoCall == [op |-> "none", lba |-> 0, count |-> 0]

AtaInit ==
  /\ call = NoCall /\ pc = "idle" /\ i = 0 /\ buffer = << >> /\ data = << >>
  /\ platter \in [Addresses -> Contents]
  /\ bsy = FALSE /\ drq = FALSE
  /\ command = "none" /\ address = 0 /\ left = 0 /\ sector = << >>
  /\ answer = << >>

-----------------------------------------------------------------------------
(* The driver.                                                             *)

Enter(op, lba, count, d) ==
  /\ pc = "idle"
  /\ call' = [op |-> op, lba |-> lba, count |-> count]
  /\ data' = d
  /\ pc' = "waiting"
  /\ UNCHANGED <<i, buffer, device, answer>>

ReadBlocks(r) == Enter("read", r.lba, r.count, << >>)

WriteBlocks(w) == Enter("write", w.lba, Len(w.data), w.data)

\* A mutation: the registers are written without waiting; a busy device takes
\* no command.
CommandAtOnce ==
  /\ pc = "waiting"
  /\ pc' = "moving" /\ i' = 0 /\ buffer' = << >>
  /\ IF bsy THEN UNCHANGED device
     ELSE /\ bsy' = TRUE /\ drq' = FALSE
          /\ command' = call.op /\ address' = call.lba /\ left' = call.count
          /\ sector' = << >>
          /\ UNCHANGED platter
  /\ UNCHANGED <<call, data, answer>>

\* ATA_busy_wait, and the registers.
Command ==
  /\ pc = "waiting"
  /\ ~bsy
  /\ bsy' = TRUE /\ drq' = FALSE
  /\ command' = call.op /\ address' = call.lba /\ left' = call.count
  /\ sector' = << >>
  /\ pc' = "moving" /\ i' = 0 /\ buffer' = << >>
  /\ UNCHANGED <<call, data, platter, answer>>

\* The device gave its block away: it fetches the next one, if there is any.
BlockTaken ==
  /\ drq' = FALSE
  /\ sector' = << >>
  /\ bsy' = (left > 1)
  /\ left' = left - 1 /\ address' = address + 1
  /\ command' = IF left > 1 THEN command ELSE "none"
  /\ UNCHANGED platter

\* A mutation: one block more than was asked for.
MoveInOneMore ==
  /\ pc = "moving" /\ call.op = "read" /\ i =< call.count
  /\ ~bsy
  /\ IF drq THEN buffer' = Append(buffer, sector) /\ BlockTaken
     ELSE buffer' = Append(buffer, Junk) /\ UNCHANGED device
  /\ i' = i + 1
  /\ UNCHANGED <<call, pc, data, answer>>

\* One turn of the loop of read_blocks, both waits included.
MoveIn ==
  /\ pc = "moving" /\ call.op = "read" /\ i < call.count
  /\ ~bsy
  /\ IF drq THEN buffer' = Append(buffer, sector) /\ BlockTaken
     ELSE buffer' = Append(buffer, Junk) /\ UNCHANGED device
  /\ i' = i + 1
  /\ UNCHANGED <<call, pc, data, answer>>

\* A mutation: the loop waits for a data request.
MoveOutOnRequest ==
  /\ pc = "moving" /\ call.op = "write" /\ i < call.count
  /\ ~bsy /\ drq
  /\ sector' = data[i + 1]
  /\ bsy' = TRUE /\ drq' = FALSE
  /\ i' = i + 1
  /\ UNCHANGED <<call, pc, buffer, data, platter, command, address, left, answer>>

\* One turn of the loop of write_blocks.
MoveOut ==
  /\ pc = "moving" /\ call.op = "write" /\ i < call.count
  /\ ~bsy
  /\ IF drq THEN /\ sector' = data[i + 1]
                 /\ bsy' = TRUE /\ drq' = FALSE
                 /\ UNCHANGED <<platter, command, address, left>>
     ELSE UNCHANGED device
  /\ i' = i + 1
  /\ UNCHANGED <<call, pc, buffer, data, answer>>

\* Nothing is waited for after the last block.
Leave ==
  /\ pc = "moving" /\ i = call.count
  /\ answer' = IF call.op = "read" THEN buffer ELSE answer
  /\ pc' = "idle" /\ call' = NoCall /\ data' = << >> /\ buffer' = << >>
  /\ i' = 0
  /\ UNCHANGED device

-----------------------------------------------------------------------------
(* The device.                                                             *)

\* The block is there, or the device is ready for one.
DataRequest ==
  /\ bsy /\ sector = << >> /\ address \in Addresses
  /\ drq' = TRUE /\ bsy' = FALSE
  /\ sector' = IF command = "read" THEN platter[address] ELSE << >>
  /\ UNCHANGED <<driver, platter, command, address, left, answer>>

\* An address behind the end of the disk.
DeviceError ==
  /\ bsy /\ sector = << >> /\ address \notin Addresses
  /\ bsy' = FALSE /\ command' = "none" /\ left' = 0
  /\ UNCHANGED <<driver, platter, drq, address, sector, answer>>

\* The block that was moved out reaches the platter.
StoreSector ==
  /\ bsy /\ sector # << >>
  /\ platter' = [platter EXCEPT ![address] = sector]
  /\ sector' = << >>
  /\ bsy' = (left > 1)
  /\ left' = left - 1 /\ address' = address + 1
  /\ command' = IF left > 1 THEN command ELSE "none"
  /\ UNCHANGED <<driver, drq, answer>>

PowerLoss ==
  /\ call' = NoCall /\ pc' = "idle" /\ i' = 0 /\ buffer' = << >>
  /\ data' = << >>
  /\ bsy' = FALSE /\ drq' = FALSE /\ command' = "none"
  /\ address' = 0 /\ left' = 0 /\ sector' = << >>
  /\ answer' = << >>
  /\ UNCHANGED platter

-----------------------------------------------------------------------------
Driver == Command \/ MoveIn \/ MoveOut \/ Leave
Device == DataRequest \/ DeviceError \/ StoreSector

AtaNext ==
  \/ \E r \in Reads : ReadBlocks(r)
  \/ \E w \in Writes : WriteBlocks(w)
  \/ Driver
  \/ Device
  \/ PowerLoss

AtaSpec == AtaInit /\ [][AtaNext]_ataVars

\* The processor runs, and the device answers.
FairAtaSpec == AtaSpec /\ WF_ataVars(Driver) /\ WF_ataVars(Device)

-----------------------------------------------------------------------------
(* Properties.                                                             *)

AtaTypeOK ==
  /\ call \in [op : {"none", "read", "write"}, lba : Nat, count : Nat]
  /\ pc \in {"idle", "waiting", "moving"}
  /\ i \in 0 .. call.count
  /\ buffer \in Seq(Contents \cup {Junk}) /\ answer \in Seq(Contents \cup {Junk})
  /\ data \in Seq(Contents)
  /\ platter \in [Addresses -> Contents]
  /\ bsy \in BOOLEAN /\ drq \in BOOLEAN
  /\ command \in {"none", "read", "write"}
  /\ address \in Nat /\ left \in Nat
  /\ sector \in Contents \cup {<< >>}

\* What a write has still to move out.
ToMove ==
  IF call.op # "write" THEN << >>
  ELSE [k \in 1 .. (call.count - i) |->
          [lba |-> call.lba + i + k - 1, data |-> data[i + k]]]

\* What the device has still to store.
ToStore ==
  IF bsy /\ command = "write" /\ sector # << >>
    THEN <<[lba |-> address, data |-> sector]>> ELSE << >>

Store == INSTANCE BlockStore WITH
  store <- platter, outstanding <- ToStore \o ToMove

\* disk.h, "Will blocking until read is completed" and what the file system
\* builds on: a read returns what the writes before it left, also the block
\* that the last write did not wait for, the blocks of a write reach the disk
\* one by one in order, and a loss of power leaves a prefix of them.
StoreImplemented == Store!StoreSpec

\* Neither loop of disk.c:4-14 waits for ever, for an address behind the end
\* of the disk included.
AtaCallsReturn == pc # "idle" ~> pc = "idle"
=============================================================================
