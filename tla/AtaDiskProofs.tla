----------------------------- MODULE AtaDiskProofs -----------------------------
(***************************************************************************)
(* AtaDisk, for every disk and every set of calls: the types, and that it  *)
(* implements BlockStore.                                                  *)
(*                                                                         *)
(* The inductive invariant says, for each place the driver can be at, how  *)
(* far the device has come: a read and the device agree on the next block, *)
(* a write is at most one block ahead, and when no call is in progress at  *)
(* most the last block of a write is still on its way.                     *)
(***************************************************************************)
EXTENDS AtaDisk, SequenceTheorems, TLAPS

\* No block at this address or behind it.
Behind(l) == \A a \in Addresses : a < l

\* The device has nothing to do but to wait for a command.
Ready == ~bsy /\ ~drq

\* The next block of the call in progress is the next block of the device.
InStep(op) ==
  /\ command = op /\ i < call.count
  /\ address = call.lba + i /\ left = call.count - i

\* The device ran out of blocks, or has come to the end of the call.
Done == Ready /\ (i = call.count \/ Behind(call.lba + i))

CallInv ==
  /\ pc = "idle" <=> call.op = "none"
  /\ pc = "idle" => call = NoCall
  /\ pc # "idle" => call.count > 0
  /\ pc # "moving" => i = 0
  /\ call.op = "write" => Len(data) = call.count

\* Between the calls.
RestInv ==
  pc # "moving" =>
    \/ Ready
    \/ bsy /\ ~drq /\ command = "write" /\ sector # << >> /\ left = 1

ReadInv ==
  pc = "moving" /\ call.op = "read" =>
    /\ Len(buffer) = i
    /\ \A k \in 1 .. i :
         buffer[k] = IF call.lba + k - 1 \in Addresses
                       THEN platter[call.lba + k - 1] ELSE Junk
    /\ \/ bsy /\ ~drq /\ sector = << >> /\ InStep("read")
       \/ /\ ~bsy /\ drq /\ InStep("read")
          /\ address \in Addresses /\ sector = platter[address]
       \/ Done

WriteInv ==
  pc = "moving" /\ call.op = "write" =>
    \/ /\ bsy /\ ~drq /\ command = "write" /\ sector # << >>
       /\ address = call.lba + i - 1 /\ left = call.count - i + 1
    \/ bsy /\ ~drq /\ sector = << >> /\ InStep("write")
    \/ ~bsy /\ drq /\ sector = << >> /\ InStep("write")
    \/ Done

IInv == AtaTypeOK /\ CallInv /\ RestInv /\ ReadInv /\ WriteInv

-----------------------------------------------------------------------------
(* The invariant is inductive.                                             *)

LEMMA InvInit == AtaInit => IInv
<1>. SUFFICES ASSUME AtaInit PROVE IInv
  OBVIOUS
<1>1. AtaTypeOK
  <2>1. /\ call \in [op : {"none", "read", "write"}, lba : Nat, count : Nat]
        /\ i \in 0 .. call.count
    BY DEF AtaInit, NoCall
  <2>2. /\ buffer \in Seq(Contents \cup {Junk})
        /\ answer \in Seq(Contents \cup {Junk})
        /\ data \in Seq(Contents)
    BY DEF AtaInit
  <2>. QED  BY <2>1, <2>2 DEF AtaInit, AtaTypeOK
<1>2. CallInv /\ RestInv
  BY DEF AtaInit, CallInv, RestInv, Ready, NoCall
<1>3. ReadInv /\ WriteInv
  BY DEF AtaInit, ReadInv, WriteInv
<1>. QED  BY <1>1, <1>2, <1>3 DEF IInv

LEMMA EnterInv ==
  ASSUME IInv, NEW op \in {"read", "write"},
         NEW lba \in Nat, NEW count \in Nat \ {0},
         NEW d \in Seq(Contents), op = "write" => Len(d) = count,
         Enter(op, lba, count, d)
  PROVE  IInv'
<1>1. AtaTypeOK'
  BY DEF IInv, AtaTypeOK, CallInv, Enter, device
<1>2. CallInv'
  BY DEF IInv, AtaTypeOK, CallInv, Enter, device, NoCall
<1>3. RestInv'
  BY DEF IInv, RestInv, Ready, Enter, device
<1>4. ReadInv' /\ WriteInv'
  BY DEF Enter, ReadInv, WriteInv
<1>. QED  BY <1>1, <1>2, <1>3, <1>4 DEF IInv

LEMMA ReadBlocksInv ==
  ASSUME IInv, NEW r \in Reads, ReadBlocks(r)
  PROVE  IInv'
<1>1. r.lba \in Nat /\ r.count \in Nat \ {0} /\ << >> \in Seq(Contents)
  BY AtaAssumption
<1>2. Enter("read", r.lba, r.count, << >>)
  BY DEF ReadBlocks
<1>. QED  BY <1>1, <1>2, EnterInv

LEMMA WriteBlocksInv ==
  ASSUME IInv, NEW w \in Writes, WriteBlocks(w)
  PROVE  IInv'
<1>1. w.lba \in Nat /\ w.data \in Seq(Contents) /\ w.data # << >>
  BY AtaAssumption
<1>2. Len(w.data) \in Nat \ {0}
  BY <1>1
<1>3. Enter("write", w.lba, Len(w.data), w.data)
  BY DEF WriteBlocks
<1>. QED  BY <1>1, <1>2, <1>3, EnterInv

LEMMA CommandInv == IInv /\ Command => IInv'
<1>. SUFFICES ASSUME IInv, Command PROVE IInv'
  OBVIOUS
<1>0. call.op \in {"read", "write"} /\ call.lba \in Nat /\ call.count \in Nat
  BY DEF IInv, AtaTypeOK, CallInv, Command
<1>1. AtaTypeOK'
  <2>1. buffer' \in Seq(Contents \cup {Junk})
    BY DEF Command
  <2>2. i' \in 0 .. call'.count
    BY <1>0 DEF Command
  <2>. QED  BY <1>0, <2>1, <2>2 DEF IInv, AtaTypeOK, Command
<1>2. CallInv' /\ RestInv'
  BY <1>0 DEF IInv, CallInv, RestInv, Command
<1>3. /\ bsy' /\ ~drq' /\ sector' = << >>
      /\ buffer' = << >> /\ i' = 0 /\ call' = call
  BY DEF Command
<1>4. InStep(call.op)'
  BY <1>0 DEF IInv, CallInv, Command, InStep
<1>5. ReadInv'
  BY <1>3, <1>4 DEF ReadInv
<1>6. WriteInv'
  BY <1>3, <1>4 DEF WriteInv
<1>. QED  BY <1>1, <1>2, <1>5, <1>6 DEF IInv

\* The types of what the steps of the loops use.
LEMMA Types ==
  ASSUME AtaTypeOK
  PROVE  /\ call.op \in {"none", "read", "write"}
         /\ call.lba \in Nat /\ call.count \in Nat /\ i \in Nat
         /\ i =< call.count /\ address \in Nat /\ left \in Nat
BY DEF AtaTypeOK

\* What read_blocks puts at ptr in one turn.
LEMMA BlockMovedIn ==
  ASSUME AtaTypeOK, ReadInv, pc = "moving", call.op = "read", i < call.count,
         NEW e \in Contents \cup {Junk},
         e = IF call.lba + i \in Addresses THEN platter[call.lba + i] ELSE Junk
  PROVE  /\ Append(buffer, e) \in Seq(Contents \cup {Junk})
         /\ Len(Append(buffer, e)) = i + 1
         /\ \A k \in 1 .. (i + 1) :
              Append(buffer, e)[k] = IF call.lba + k - 1 \in Addresses
                                       THEN platter[call.lba + k - 1] ELSE Junk
<1>1. buffer \in Seq(Contents \cup {Junk}) /\ Len(buffer) = i
  BY DEF AtaTypeOK, ReadInv
<1>2. /\ Append(buffer, e) \in Seq(Contents \cup {Junk})
      /\ Len(Append(buffer, e)) = i + 1
      /\ Append(buffer, e)[i + 1] = e
      /\ \A k \in 1 .. i : Append(buffer, e)[k] = buffer[k]
  BY <1>1
<1>3. call.lba \in Nat /\ i \in Nat
  BY Types
<1>4. ASSUME NEW k \in 1 .. (i + 1)
      PROVE  Append(buffer, e)[k] = IF call.lba + k - 1 \in Addresses
                                      THEN platter[call.lba + k - 1] ELSE Junk
  <2>1. CASE k \in 1 .. i
    BY <1>2, <2>1 DEF ReadInv
  <2>2. CASE k = i + 1
    <3>1. call.lba + k - 1 = call.lba + i
      BY <1>3, <2>2
    <3>. QED  BY <1>2, <2>2, <3>1
  <2>3. k \in 1 .. i \/ k = i + 1
    BY <1>3
  <2>. QED  BY <2>1, <2>2, <2>3
<1>. QED  BY <1>2, <1>4

LEMMA MoveInInv == IInv /\ MoveIn => IInv'
<1>. SUFFICES ASSUME IInv, MoveIn PROVE IInv'
  OBVIOUS
<1>0. AtaTypeOK /\ ReadInv /\ CallInv
  BY DEF IInv
<1>1. /\ pc = "moving" /\ call.op = "read" /\ i < call.count /\ ~bsy
      /\ i' = i + 1 /\ UNCHANGED <<call, pc, data, platter, answer>>
  BY DEF MoveIn, device, BlockTaken
<1>2. /\ call.lba \in Nat /\ call.count \in Nat /\ i \in Nat
      /\ left \in Nat /\ address \in Nat
  BY <1>0, Types
<1>3. CallInv' /\ RestInv' /\ WriteInv'
  BY <1>0, <1>1 DEF CallInv, RestInv, WriteInv
<1>4. i' \in 0 .. call'.count
  BY <1>1, <1>2
<1>5. CASE drq
  <2>1. /\ InStep("read") /\ address \in Addresses /\ sector = platter[address]
    BY <1>0, <1>1, <1>5 DEF ReadInv, Done, Ready
  <2>2. /\ buffer' = Append(buffer, sector) /\ BlockTaken
    BY <1>5 DEF MoveIn
  <2>3. sector = platter[call.lba + i] /\ call.lba + i \in Addresses
    BY <2>1 DEF InStep
  <2>4. sector \in Contents \cup {Junk}
    BY <1>0, <2>1 DEF AtaTypeOK
  <2>5. /\ buffer' \in Seq(Contents \cup {Junk}) /\ Len(buffer') = i + 1
        /\ \A k \in 1 .. (i + 1) :
             buffer'[k] = IF call.lba + k - 1 \in Addresses
                            THEN platter[call.lba + k - 1] ELSE Junk
    BY <1>0, <1>1, <2>2, <2>3, <2>4, BlockMovedIn
  <2>6. /\ drq' = FALSE /\ sector' = << >> /\ bsy' = (left > 1)
        /\ left' = left - 1 /\ address' = address + 1
        /\ command' = IF left > 1 THEN command ELSE "none"
    BY <2>2 DEF BlockTaken
  <2>7. left = call.count - i /\ address = call.lba + i /\ command = "read"
    BY <2>1 DEF InStep
  <2>a. /\ left - 1 \in Nat /\ address + 1 \in Nat
        /\ left > 1 => i + 1 < call.count
        /\ left - 1 = call.count - (i + 1)
        /\ address + 1 = call.lba + (i + 1)
    BY <1>1, <1>2, <2>7
  <2>8. left > 1 => InStep("read")'
    BY <1>1, <2>6, <2>7, <2>a DEF InStep
  <2>9. ~(left > 1) => Done'
    <3>1. ~(left > 1) => i' = call'.count
      BY <1>1, <1>2, <2>7
    <3>2. ~(left > 1) => ~bsy'
      BY <2>6
    <3>. QED  BY <2>6, <3>1, <3>2 DEF Done, Ready
  <2>10. ReadInv'
    BY <1>1, <2>5, <2>6, <2>8, <2>9 DEF ReadInv
  <2>11. AtaTypeOK'
    <3>1. left' \in Nat /\ address' \in Nat /\ bsy' \in BOOLEAN
      BY <2>6, <2>a
    <3>2. command' \in {"none", "read", "write"} /\ drq' \in BOOLEAN
      BY <2>6, <2>7
    <3>3. platter' = platter /\ sector' = << >> /\ i' \in 0 .. call'.count
      BY <1>1, <1>4, <2>6
    <3>. QED  BY <1>0, <1>1, <2>5, <3>1, <3>2, <3>3 DEF AtaTypeOK
  <2>. QED  BY <1>3, <2>10, <2>11 DEF IInv
<1>6. CASE ~drq
  <2>1. Behind(call.lba + i)
    BY <1>0, <1>1, <1>2, <1>6 DEF ReadInv, Done
  <2>2. buffer' = Append(buffer, Junk) /\ UNCHANGED device
    BY <1>6 DEF MoveIn
  <2>3. call.lba + i \notin Addresses
    BY <1>2, <2>1 DEF Behind
  <2>5. /\ buffer' \in Seq(Contents \cup {Junk}) /\ Len(buffer') = i + 1
        /\ \A k \in 1 .. (i + 1) :
             buffer'[k] = IF call.lba + k - 1 \in Addresses
                            THEN platter[call.lba + k - 1] ELSE Junk
    BY <1>0, <1>1, <2>2, <2>3, BlockMovedIn
  <2>6. Behind(call.lba + i + 1)
    <3>1. ASSUME NEW a \in Addresses PROVE a < call.lba + i + 1
      <4>1. a \in Nat /\ a < call.lba + i
        BY <2>1, AtaAssumption DEF Behind
      <4>. QED  BY <1>2, <4>1
    <3>. QED  BY <3>1 DEF Behind
  <2>7. Done'
    BY <1>1, <1>2, <1>6, <2>2, <2>6 DEF Done, Ready, device, Behind
  <2>8. ReadInv'
    BY <1>1, <2>5, <2>7 DEF ReadInv
  <2>9. AtaTypeOK'
    BY <1>0, <1>1, <1>4, <2>2, <2>5 DEF AtaTypeOK, device
  <2>. QED  BY <1>3, <2>8, <2>9 DEF IInv
<1>. QED  BY <1>5, <1>6

LEMMA MoveOutInv == IInv /\ MoveOut => IInv'
<1>. SUFFICES ASSUME IInv, MoveOut PROVE IInv'
  OBVIOUS
<1>0. AtaTypeOK /\ WriteInv /\ CallInv
  BY DEF IInv
<1>1. /\ pc = "moving" /\ call.op = "write" /\ i < call.count /\ ~bsy
      /\ i' = i + 1
      /\ UNCHANGED <<call, pc, buffer, data, answer>>
      /\ UNCHANGED <<platter, command, address, left>>
  BY DEF MoveOut, device
<1>2. /\ call.lba \in Nat /\ call.count \in Nat /\ i \in Nat
      /\ left \in Nat /\ address \in Nat
  BY <1>0, Types
<1>3. CallInv' /\ RestInv' /\ ReadInv'
  BY <1>0, <1>1 DEF CallInv, RestInv, ReadInv
<1>4. i' \in 0 .. call'.count
  BY <1>1, <1>2
<1>5. CASE drq
  <2>1. InStep("write")
    BY <1>0, <1>1, <1>5 DEF WriteInv, Done, Ready
  <2>2. sector' = data[i + 1] /\ bsy' = TRUE /\ drq' = FALSE
    BY <1>5 DEF MoveOut
  <2>3. data[i + 1] \in Contents
    <3>1. data \in Seq(Contents) /\ i + 1 \in 1 .. Len(data)
      BY <1>0, <1>1, <1>2 DEF AtaTypeOK, CallInv
    <3>. QED  BY <3>1
  <2>4. sector' # << >>
    BY <2>2, <2>3, AtaAssumption
  <2>5. address' = call'.lba + i' - 1 /\ left' = call'.count - i' + 1
    BY <1>1, <1>2, <2>1 DEF InStep
  <2>6. WriteInv'
    BY <1>1, <2>1, <2>2, <2>4, <2>5 DEF WriteInv, InStep
  <2>7. AtaTypeOK'
    BY <1>0, <1>1, <1>4, <2>2, <2>3 DEF AtaTypeOK
  <2>. QED  BY <1>3, <2>6, <2>7 DEF IInv
<1>6. CASE ~drq
  <2>1. Behind(call.lba + i)
    BY <1>0, <1>1, <1>2, <1>6 DEF WriteInv, Done
  <2>2. UNCHANGED device
    BY <1>6 DEF MoveOut
  <2>3. Behind(call.lba + i + 1)
    <3>1. ASSUME NEW a \in Addresses PROVE a < call.lba + i + 1
      <4>1. a \in Nat /\ a < call.lba + i
        BY <2>1, AtaAssumption DEF Behind
      <4>. QED  BY <1>2, <4>1
    <3>. QED  BY <3>1 DEF Behind
  <2>4. call'.lba + i' = call.lba + i + 1
    BY <1>1, <1>2
  <2>5. Done'
    BY <1>1, <1>6, <2>2, <2>3, <2>4 DEF Done, Ready, device, Behind
  <2>6. WriteInv'
    BY <2>5 DEF WriteInv
  <2>7. AtaTypeOK'
    BY <1>0, <1>1, <1>4, <2>2 DEF AtaTypeOK, device
  <2>. QED  BY <1>3, <2>6, <2>7 DEF IInv
<1>. QED  BY <1>5, <1>6

LEMMA LeaveInv == IInv /\ Leave => IInv'
<1>. SUFFICES ASSUME IInv, Leave PROVE IInv'
  OBVIOUS
<1>0. AtaTypeOK /\ ReadInv /\ WriteInv /\ CallInv
  BY DEF IInv
<1>1. /\ pc = "moving" /\ i = call.count /\ UNCHANGED device
      /\ answer' \in Seq(Contents \cup {Junk})
      /\ pc' = "idle" /\ call' = NoCall /\ i' = 0
      /\ data' = << >> /\ buffer' = << >>
  BY <1>0 DEF Leave, AtaTypeOK
<1>2. call.op \in {"read", "write"} /\ call.count \in Nat
  BY <1>0, <1>1 DEF AtaTypeOK, CallInv
<1>3. Ready \/ (bsy /\ ~drq /\ command = "write" /\ sector # << >> /\ left = 1)
  BY <1>0, <1>1, <1>2 DEF ReadInv, WriteInv, InStep, Done
<1>4. AtaTypeOK'
  <2>1. /\ call' \in [op : {"none", "read", "write"}, lba : Nat, count : Nat]
        /\ i' \in 0 .. call'.count
    BY <1>1 DEF NoCall
  <2>2. data' \in Seq(Contents) /\ buffer' \in Seq(Contents \cup {Junk})
    BY <1>1
  <2>. QED  BY <1>0, <1>1, <2>1, <2>2 DEF AtaTypeOK, device
<1>5. CallInv' /\ RestInv' /\ ReadInv' /\ WriteInv'
  BY <1>1, <1>3 DEF CallInv, RestInv, ReadInv, WriteInv, NoCall, Ready, device
<1>. QED  BY <1>4, <1>5 DEF IInv

\* When the device has no block to store, it works for a call in the loop.
LEMMA WorksForCall ==
  ASSUME IInv, bsy, sector = << >>
  PROVE  /\ pc = "moving" /\ ~drq /\ call.op \in {"read", "write"}
         /\ InStep(call.op)
<1>1. pc = "moving"
  BY DEF IInv, RestInv, Ready
<1>2. call.op \in {"read", "write"}
  BY <1>1 DEF IInv, AtaTypeOK, CallInv
<1>. QED  BY <1>1, <1>2 DEF IInv, ReadInv, WriteInv, Done, Ready

LEMMA DataRequestInv == IInv /\ DataRequest => IInv'
<1>. SUFFICES ASSUME IInv, DataRequest PROVE IInv'
  OBVIOUS
<1>0. AtaTypeOK /\ ReadInv /\ WriteInv /\ CallInv
  BY DEF IInv
<1>1. /\ bsy /\ sector = << >> /\ address \in Addresses
      /\ drq' = TRUE /\ bsy' = FALSE
      /\ sector' = IF command = "read" THEN platter[address] ELSE << >>
      /\ UNCHANGED <<call, pc, i, buffer, data, answer>>
      /\ UNCHANGED <<platter, command, address, left>>
  BY DEF DataRequest, driver
<1>2. pc = "moving" /\ InStep(call.op)
  BY <1>1, WorksForCall
<1>3. AtaTypeOK'
  <2>1. sector' \in Contents \cup {<< >>}
    BY <1>0, <1>1 DEF AtaTypeOK
  <2>. QED  BY <1>0, <1>1, <2>1 DEF AtaTypeOK
<1>4. CallInv' /\ RestInv'
  BY <1>0, <1>1, <1>2 DEF CallInv, RestInv
<1>5. InStep(call.op)'
  BY <1>1, <1>2 DEF InStep
<1>6. ReadInv'
  BY <1>0, <1>1, <1>2, <1>5 DEF ReadInv, InStep
<1>7. WriteInv'
  BY <1>1, <1>2, <1>5 DEF WriteInv, InStep
<1>. QED  BY <1>3, <1>4, <1>6, <1>7 DEF IInv

LEMMA DeviceErrorInv == IInv /\ DeviceError => IInv'
<1>. SUFFICES ASSUME IInv, DeviceError PROVE IInv'
  OBVIOUS
<1>0. AtaTypeOK /\ ReadInv /\ WriteInv /\ CallInv
  BY DEF IInv
<1>1. /\ bsy /\ sector = << >> /\ address \notin Addresses
      /\ bsy' = FALSE /\ command' = "none" /\ left' = 0
      /\ UNCHANGED <<call, pc, i, buffer, data, answer>>
      /\ UNCHANGED <<platter, drq, address, sector>>
  BY DEF DeviceError, driver
<1>2. pc = "moving" /\ ~drq /\ InStep(call.op)
  BY <1>1, WorksForCall
<1>3. AtaTypeOK'
  BY <1>0, <1>1 DEF AtaTypeOK
<1>4. CallInv' /\ RestInv'
  BY <1>0, <1>1, <1>2 DEF CallInv, RestInv
<1>5. Behind(address)
  <2>1. ASSUME NEW a \in Addresses, ~(a < address) PROVE FALSE
    <3>1. a \in Nat /\ address \in Nat
      BY <1>0, Types, AtaAssumption
    <3>2. address \in 0 .. a
      BY <2>1, <3>1
    <3>. QED  BY <1>1, <3>2, AtaAssumption
  <2>. QED  BY <2>1 DEF Behind
<1>6. Done'
  BY <1>1, <1>2, <1>5 DEF Done, Ready, InStep, Behind
<1>7. ReadInv'
  BY <1>0, <1>1, <1>2, <1>6 DEF ReadInv
<1>8. WriteInv'
  BY <1>6 DEF WriteInv
<1>. QED  BY <1>3, <1>4, <1>7, <1>8 DEF IInv

\* A block that waits to be stored belongs to a write: the one in progress, or
\* the last one, of which no other block is left.
LEMMA StoresForWrite ==
  ASSUME IInv, bsy, sector # << >>
  PROVE  /\ command = "write" /\ ~drq /\ sector \in Contents
         /\ pc # "moving" => left = 1
         /\ pc = "moving" => /\ call.op = "write" /\ left = call.count - i + 1
                             /\ address = call.lba + i - 1
<1>1. sector \in Contents
  BY DEF IInv, AtaTypeOK
<1>2. pc = "moving" => call.op \in {"read", "write"}
  BY DEF IInv, AtaTypeOK, CallInv
<1>. QED  BY <1>1, <1>2 DEF IInv, RestInv, ReadInv, WriteInv, Done, Ready

LEMMA StoreSectorInv == IInv /\ StoreSector => IInv'
<1>. SUFFICES ASSUME IInv, StoreSector PROVE IInv'
  OBVIOUS
<1>0. AtaTypeOK /\ ReadInv /\ WriteInv /\ CallInv
  BY DEF IInv
<1>1. /\ bsy /\ sector # << >>
      /\ platter' = [platter EXCEPT ![address] = sector]
      /\ sector' = << >> /\ bsy' = (left > 1)
      /\ left' = left - 1 /\ address' = address + 1
      /\ command' = IF left > 1 THEN command ELSE "none"
      /\ UNCHANGED <<call, pc, i, buffer, data, drq, answer>>
  BY DEF StoreSector, driver
<1>2. /\ command = "write" /\ ~drq /\ sector \in Contents
      /\ pc # "moving" => left = 1
      /\ pc = "moving" => /\ call.op = "write" /\ left = call.count - i + 1
                          /\ address = call.lba + i - 1
  BY <1>1, StoresForWrite
<1>3. /\ call.lba \in Nat /\ call.count \in Nat /\ i \in Nat /\ i =< call.count
      /\ left \in Nat /\ address \in Nat
  BY <1>0, Types
<1>4. left' \in Nat
  BY <1>1, <1>2, <1>3
<1>5. AtaTypeOK'
  <2>1. platter' \in [Addresses -> Contents]
    BY <1>0, <1>1, <1>2 DEF AtaTypeOK
  <2>2. /\ bsy' \in BOOLEAN /\ address' \in Nat
        /\ command' \in {"none", "read", "write"}
    BY <1>1, <1>2, <1>3
  <2>. QED  BY <1>0, <1>1, <1>4, <2>1, <2>2 DEF AtaTypeOK
<1>6. CallInv'
  BY <1>0, <1>1 DEF CallInv
<1>7. RestInv'
  <2>1. pc # "moving" => ~(left > 1)
    BY <1>2
  <2>2. pc # "moving" => ~bsy'
    BY <1>1, <2>1
  <2>. QED  BY <1>1, <1>2, <2>2 DEF RestInv, Ready
<1>8. ReadInv'
  BY <1>1, <1>2 DEF ReadInv
<1>9. pc = "moving" /\ left > 1 => InStep("write")'
  BY <1>1, <1>2, <1>3 DEF InStep
<1>10. pc = "moving" /\ ~(left > 1) => Done'
  <2>1. pc = "moving" /\ ~(left > 1) => i' = call'.count
    BY <1>1, <1>2, <1>3
  <2>. QED  BY <1>1, <1>2, <2>1 DEF Done, Ready
<1>11. WriteInv'
  BY <1>1, <1>2, <1>9, <1>10 DEF WriteInv
<1>. QED  BY <1>5, <1>6, <1>7, <1>8, <1>11 DEF IInv

LEMMA PowerLossInv == IInv /\ PowerLoss => IInv'
<1>. SUFFICES ASSUME IInv, PowerLoss PROVE IInv'
  OBVIOUS
<1>1. AtaTypeOK'
  <2>1. /\ call' \in [op : {"none", "read", "write"}, lba : Nat, count : Nat]
        /\ i' \in 0 .. call'.count
    BY DEF PowerLoss, NoCall
  <2>2. /\ data' \in Seq(Contents) /\ buffer' \in Seq(Contents \cup {Junk})
        /\ answer' \in Seq(Contents \cup {Junk})
    BY DEF PowerLoss
  <2>. QED  BY <2>1, <2>2 DEF IInv, AtaTypeOK, PowerLoss
<1>2. CallInv' /\ RestInv' /\ ReadInv' /\ WriteInv'
  BY DEF PowerLoss, CallInv, RestInv, ReadInv, WriteInv, Ready, NoCall
<1>. QED  BY <1>1, <1>2 DEF IInv

LEMMA InvStep == IInv /\ [AtaNext]_ataVars => IInv'
<1>. SUFFICES ASSUME IInv, [AtaNext]_ataVars PROVE IInv'
  OBVIOUS
<1>1. CASE \E r \in Reads : ReadBlocks(r)
  BY <1>1, ReadBlocksInv
<1>2. CASE \E w \in Writes : WriteBlocks(w)
  BY <1>2, WriteBlocksInv
<1>3. CASE Driver
  BY <1>3, CommandInv, MoveInInv, MoveOutInv, LeaveInv DEF Driver
<1>4. CASE Device
  BY <1>4, DataRequestInv, DeviceErrorInv, StoreSectorInv DEF Device
<1>5. CASE PowerLoss
  BY <1>5, PowerLossInv
<1>6. CASE UNCHANGED ataVars
  BY <1>6 DEF ataVars, driver, device, IInv, AtaTypeOK, CallInv, RestInv,
              ReadInv, WriteInv, InStep, Done, Ready
<1>. QED  BY <1>1, <1>2, <1>3, <1>4, <1>5, <1>6 DEF AtaNext

LEMMA Invariant == AtaSpec => []IInv
BY InvInit, InvStep, PTL DEF AtaSpec

\* The registers, the counter of the loops and the buffers keep their types,
\* whatever the device does and however often the power goes (disk.c).
THEOREM AtaTypeCorrect == AtaSpec => []AtaTypeOK
<1>1. IInv => AtaTypeOK
  BY DEF IInv
<1>. QED  BY <1>1, Invariant, PTL

-----------------------------------------------------------------------------
(* Every step of the driver and of the device is a step of BlockStore, or  *)
(* changes nothing that it shows.                                          *)

Blocks == [lba : Nat, data : Contents]

\* The blocks d that are moved out to address l, from number j on.
LEMMA FromType ==
  ASSUME NEW l \in Nat, NEW d \in Seq(Contents), NEW j \in 0 .. Len(d)
  PROVE  /\ Store!From([lba |-> l, data |-> d], j) \in Seq(Blocks)
         /\ Len(Store!From([lba |-> l, data |-> d], j)) = Len(d) - j
         /\ \A k \in 1 .. (Len(d) - j) :
              Store!From([lba |-> l, data |-> d], j)[k]
                = [lba |-> l + j + k - 1, data |-> d[j + k]]
<1>. DEFINE n == Len(d) - j
            from == Store!From([lba |-> l, data |-> d], j)
<1>1. n \in Nat /\ j \in Nat /\ Len(d) \in Nat
  OBVIOUS
<1>2. ASSUME NEW k \in 1 .. n
      PROVE  [lba |-> l + j + k - 1, data |-> d[j + k]] \in Blocks
  <2>1. j + k \in 1 .. Len(d) /\ l + j + k - 1 \in Nat
    BY <1>1
  <2>2. d[j + k] \in Contents
    BY <2>1, ElementOfSeq
  <2>. QED  BY <2>1, <2>2 DEF Blocks
<1>3. from = [k \in 1 .. n |-> [lba |-> l + j + k - 1, data |-> d[j + k]]]
  BY DEF Store!From
<1>. HIDE DEF n, from
<1>4. from \in [1 .. n -> Blocks]
  BY <1>2, <1>3
<1>5. from \in Seq(Blocks) /\ Len(from) = n
  BY <1>1, <1>4
<1>6. \A k \in 1 .. n : from[k] = [lba |-> l + j + k - 1, data |-> d[j + k]]
  BY <1>3
<1>. QED  BY <1>5, <1>6 DEF n, from

LEMMA FromShrinks ==
  ASSUME NEW l \in Nat, NEW d \in Seq(Contents), NEW j \in 0 .. Len(d),
         j < Len(d)
  PROVE  /\ Store!From([lba |-> l, data |-> d], j) # << >>
         /\ Head(Store!From([lba |-> l, data |-> d], j))
              = [lba |-> l + j, data |-> d[j + 1]]
         /\ Tail(Store!From([lba |-> l, data |-> d], j))
              = Store!From([lba |-> l, data |-> d], j + 1)
<1>. DEFINE n == Len(d) - j
            from == Store!From([lba |-> l, data |-> d], j)
            next == Store!From([lba |-> l, data |-> d], j + 1)
<1>1. n \in Nat \ {0} /\ j \in Nat /\ Len(d) \in Nat /\ j + 1 \in 0 .. Len(d)
  OBVIOUS
<1>2. /\ from \in Seq(Blocks) /\ Len(from) = n
      /\ \A k \in 1 .. n : from[k] = [lba |-> l + j + k - 1, data |-> d[j + k]]
  BY FromType
<1>3. /\ next \in Seq(Blocks) /\ Len(next) = Len(d) - (j + 1)
      /\ \A k \in 1 .. (Len(d) - (j + 1)) :
           next[k] = [lba |-> l + (j + 1) + k - 1, data |-> d[(j + 1) + k]]
  BY <1>1, FromType
<1>. HIDE DEF from, next
<1>4. from # << >>
  BY <1>1, <1>2, EmptySeq
<1>5. Head(from) = [lba |-> l + j, data |-> d[j + 1]]
  <2>1. Head(from) = from[1] /\ 1 \in 1 .. n
    BY <1>1, <1>2, <1>4
  <2>2. l + j + 1 - 1 = l + j
    BY <1>1
  <2>. QED  BY <1>2, <2>1, <2>2
<1>6. /\ Tail(from) \in Seq(Blocks) /\ Len(Tail(from)) = n - 1
      /\ \A k \in 1 .. (n - 1) : Tail(from)[k] = from[k + 1]
  BY <1>2, <1>4, HeadTailProperties
<1>7. ASSUME NEW k \in 1 .. (n - 1)
      PROVE  Tail(from)[k] = next[k]
  <2>1. /\ k + 1 \in 1 .. n /\ k \in 1 .. (Len(d) - (j + 1))
        /\ l + j + (k + 1) - 1 = l + (j + 1) + k - 1
        /\ j + (k + 1) = (j + 1) + k
    BY <1>1
  <2>2. next[k] = [lba |-> l + (j + 1) + k - 1, data |-> d[(j + 1) + k]]
    BY <1>3, <2>1
  <2>3. from[k + 1] = [lba |-> l + j + (k + 1) - 1, data |-> d[j + (k + 1)]]
    BY <1>2, <2>1
  <2>4. Tail(from)[k] = from[k + 1]
    BY <1>6
  <2>. QED  BY <2>1, <2>2, <2>3, <2>4, Zenon
<1>8. Len(next) = n - 1
  BY <1>1, <1>3
<1>. HIDE DEF n
<1>9. next = Tail(from)
  BY <1>3, <1>6, <1>7, <1>8, SeqEqual
<1>. QED  BY <1>4, <1>5, <1>9 DEF from, next

LEMMA ToMoveIsFrom ==
  ASSUME AtaTypeOK, CallInv, call.op = "write"
  PROVE  /\ call.lba \in Nat /\ data \in Seq(Contents) /\ i \in 0 .. Len(data)
         /\ Len(data) = call.count
         /\ ToMove = Store!From([lba |-> call.lba, data |-> data], i)
BY DEF AtaTypeOK, CallInv, ToMove, Store!From

LEMMA ToMoveIsSeq == IInv => ToMove \in Seq(Blocks)
<1>1. CASE call.op = "write"
  BY <1>1, ToMoveIsFrom, FromType DEF IInv
<1>2. CASE call.op # "write"
  BY <1>2, EmptySeq DEF ToMove
<1>. QED  BY <1>1, <1>2

LEMMA NothingToMove ==
  ASSUME IInv, i = call.count
  PROVE  ToMove = << >>
<1>1. CASE call.op = "write"
  <2>1. /\ ToMove \in Seq(Blocks) /\ Len(ToMove) = Len(data) - i
        /\ Len(data) = i /\ i \in Nat
    BY <1>1, ToMoveIsFrom, FromType, Types DEF IInv
  <2>. QED  BY <2>1, EmptySeq
<1>2. CASE call.op # "write"
  BY <1>2 DEF ToMove
<1>. QED  BY <1>1, <1>2

LEMMA ToStoreType ==
  ASSUME IInv
  PROVE  ToStore \in Seq(Blocks) /\ Len(ToStore) =< 1
<1>1. CASE bsy /\ command = "write" /\ sector # << >>
  <2>1. [lba |-> address, data |-> sector] \in Blocks
    BY <1>1 DEF IInv, AtaTypeOK, Blocks
  <2>2. ToStore = << [lba |-> address, data |-> sector] >>
    BY <1>1 DEF ToStore
  <2>. HIDE DEF Blocks
  <2>. QED  BY <2>1, <2>2
<1>2. CASE ~(bsy /\ command = "write" /\ sector # << >>)
  BY <1>2, EmptySeq DEF ToStore
<1>. QED  BY <1>1, <1>2

\* What stays outstanding when the driver or the device does something else.
LEMMA SameToMove == UNCHANGED <<call, i, data>> => UNCHANGED ToMove
BY DEF ToMove

LEMMA ReadBlocksStep ==
  ASSUME IInv, NEW r \in Reads, ReadBlocks(r)
  PROVE  Store!Read(r)
<1>1. /\ pc = "idle"
      /\ call' = [op |-> "read", lba |-> r.lba, count |-> r.count]
      /\ UNCHANGED <<platter, bsy, command, address, sector, answer>>
  BY DEF ReadBlocks, Enter, device
<1>2. call = NoCall
  BY <1>1 DEF IInv, CallInv
<1>3. ToMove = << >> /\ ToMove' = << >>
  BY <1>1, <1>2 DEF ToMove, NoCall
<1>4. ToStore' = ToStore
  BY <1>1 DEF ToStore
<1>. QED  BY <1>1, <1>2, <1>3, <1>4 DEF Store!Read, NoCall, Store!NoCall

LEMMA WriteBlocksStep ==
  ASSUME IInv, NEW w \in Writes, WriteBlocks(w)
  PROVE  Store!Write(w)
<1>1. /\ pc = "idle"
      /\ call' = [op |-> "write", lba |-> w.lba, count |-> Len(w.data)]
      /\ data' = w.data /\ i' = i
      /\ UNCHANGED <<platter, bsy, command, address, sector, answer>>
  BY DEF WriteBlocks, Enter, device
<1>2. call = NoCall /\ i = 0
  BY <1>1 DEF IInv, CallInv
<1>3. ToMove = << >>
  BY <1>2 DEF ToMove, NoCall
<1>4. ToStore' = ToStore
  BY <1>1 DEF ToStore
<1>5. ToMove' = Store!From(w, 0)
  BY <1>1, <1>2 DEF ToMove, Store!From
<1>6. ToStore \o << >> = ToStore
  BY ToStoreType, ConcatEmptySeq
<1>. QED  BY <1>1, <1>2, <1>3, <1>4, <1>5, <1>6
          DEF Store!Write, NoCall, Store!NoCall

LEMMA CommandStep ==
  ASSUME IInv, Command
  PROVE  UNCHANGED <<platter, ToStore \o ToMove, call, answer>>
<1>1. /\ pc = "waiting" /\ ~bsy /\ sector' = << >> /\ i' = 0
      /\ UNCHANGED <<call, data, platter, answer>>
  BY DEF Command
<1>2. i = 0
  BY <1>1 DEF IInv, CallInv
<1>3. ToMove' = ToMove
  BY <1>1, <1>2, SameToMove
<1>4. ToStore = << >> /\ ToStore' = << >>
  BY <1>1 DEF ToStore
<1>. QED  BY <1>1, <1>3, <1>4

LEMMA MoveInStep ==
  ASSUME IInv, MoveIn
  PROVE  UNCHANGED <<platter, ToStore \o ToMove, call, answer>>
<1>1. /\ call.op = "read" /\ ~bsy /\ UNCHANGED <<call, platter, answer>>
      /\ sector' = << >> \/ bsy' = bsy
  BY DEF MoveIn, BlockTaken, device
<1>2. ToMove = << >> /\ ToMove' = << >>
  BY <1>1 DEF ToMove
<1>3. ToStore = << >> /\ ToStore' = << >>
  BY <1>1 DEF ToStore
<1>. QED  BY <1>1, <1>2, <1>3

LEMMA MoveOutStep ==
  ASSUME IInv, MoveOut
  PROVE  \/ UNCHANGED <<platter, ToStore \o ToMove, call, answer>>
         \/ Store!StoreBlock
<1>1. /\ pc = "moving" /\ call.op = "write" /\ i < call.count
      /\ ~bsy /\ i' = i + 1
      /\ UNCHANGED <<call, data, platter, answer>>
  BY DEF MoveOut, device
<1>2. /\ call.lba \in Nat /\ data \in Seq(Contents) /\ i \in 0 .. Len(data)
      /\ Len(data) = call.count
      /\ ToMove = Store!From([lba |-> call.lba, data |-> data], i)
  BY <1>1, ToMoveIsFrom DEF IInv
<1>3. /\ ToMove # << >> /\ ToMove \in Seq(Blocks)
      /\ Head(ToMove) = [lba |-> call.lba + i, data |-> data[i + 1]]
      /\ Tail(ToMove) = Store!From([lba |-> call.lba, data |-> data], i + 1)
  BY <1>1, <1>2, FromShrinks, FromType
<1>4. ToMove' = Tail(ToMove)
  <2>1. ToMove' = Store!From([lba |-> call.lba, data |-> data], i + 1)
    BY <1>1, <1>2 DEF ToMove, Store!From
  <2>. QED  BY <1>3, <2>1
<1>5. ToStore = << >>
  BY <1>1 DEF ToStore
<1>6. << >> \o ToMove = ToMove /\ << >> \o Tail(ToMove) = Tail(ToMove)
  BY <1>3, HeadTailProperties, ConcatEmptySeq
<1>7. CASE drq
  <2>1. /\ sector' = data[i + 1] /\ bsy' = TRUE
        /\ UNCHANGED <<command, address>>
    BY <1>7 DEF MoveOut
  <2>2. InStep("write")
    BY <1>1, <1>7 DEF IInv, WriteInv, Done, Ready
  <2>3. sector' # << >>
    <3>1. i + 1 \in 1 .. Len(data)
      BY <1>1, <1>2
    <3>2. data[i + 1] \in Contents
      BY <1>2, <3>1, ElementOfSeq
    <3>. QED  BY <2>1, <3>2, AtaAssumption
  <2>4. ToStore' = << Head(ToMove) >>
    BY <1>3, <2>1, <2>2, <2>3 DEF ToStore, InStep
  <2>5. << Head(ToMove) >> \o Tail(ToMove) = ToMove
    BY <1>3
  <2>. QED  BY <1>1, <1>4, <1>5, <1>6, <2>4, <2>5
<1>8. CASE ~drq
  <2>1. UNCHANGED device
    BY <1>8 DEF MoveOut
  <2>2. ToStore' = << >>
    BY <1>1, <2>1 DEF ToStore, device
  <2>3. Behind(call.lba + i)
    BY <1>1, <1>2, <1>8 DEF IInv, WriteInv, Done
  <2>4. Head(ToMove).lba \notin Addresses
    <3>1. ~(call.lba + i < call.lba + i)
      BY <1>2
    <3>. QED  BY <1>3, <2>3, <3>1 DEF Behind
  <2>5. platter' = [l \in Addresses |->
                      IF l = Head(ToMove).lba
                        THEN Head(ToMove).data ELSE platter[l]]
    BY <1>1, <2>4 DEF IInv, AtaTypeOK
  <2>. QED  BY <1>1, <1>3, <1>4, <1>5, <1>6, <2>2, <2>5 DEF Store!StoreBlock
<1>. QED  BY <1>7, <1>8

LEMMA LeaveStep ==
  ASSUME IInv, Leave
  PROVE  Store!WriteReturns \/ Store!ReadReturns
<1>1. /\ pc = "moving" /\ i = call.count /\ call' = NoCall
      /\ answer' = IF call.op = "read" THEN buffer ELSE answer
      /\ UNCHANGED device
  BY DEF Leave
<1>2. ToMove = << >> /\ ToMove' = << >>
  BY <1>1, NothingToMove DEF ToMove, NoCall
<1>3. ToStore' = ToStore /\ platter' = platter
  BY <1>1 DEF ToStore, device
<1>4. call.op \in {"read", "write"}
  BY <1>1 DEF IInv, AtaTypeOK, CallInv
<1>5. ToStore \o << >> = ToStore /\ Len(ToStore) =< 1
  BY ToStoreType, ConcatEmptySeq
<1>6. CASE call.op = "write"
  BY <1>1, <1>2, <1>3, <1>5, <1>6 DEF Store!WriteReturns, NoCall, Store!NoCall
<1>7. CASE call.op = "read"
  <2>1. Done
    BY <1>1, <1>7 DEF IInv, ReadInv, InStep
  <2>2. ToStore = << >>
    BY <2>1 DEF ToStore, Done, Ready
  <2>3. /\ buffer \in Seq(Contents \cup {Junk}) /\ Len(buffer) = call.count
        /\ \A k \in 1 .. call.count : buffer[k] = Store!Fetch(call.lba + k - 1)
    BY <1>1, <1>7 DEF IInv, AtaTypeOK, ReadInv, Store!Fetch
  <2>4. buffer = [k \in 1 .. call.count |-> Store!Fetch(call.lba + k - 1)]
    BY <2>3, LenProperties
  <2>. QED  BY <1>1, <1>2, <1>3, <1>5, <1>7, <2>2, <2>4
             DEF Store!ReadReturns, NoCall, Store!NoCall
<1>. QED  BY <1>4, <1>6, <1>7

LEMMA DeviceStep ==
  ASSUME IInv, DataRequest \/ DeviceError
  PROVE  UNCHANGED <<platter, ToStore \o ToMove, call, answer>>
<1>1. /\ sector = << >> /\ bsy' = FALSE
      /\ UNCHANGED <<call, i, data, platter, answer>>
  BY DEF DataRequest, DeviceError, driver
<1>2. ToStore = << >> /\ ToStore' = << >>
  BY <1>1 DEF ToStore
<1>3. ToMove' = ToMove
  BY <1>1, SameToMove
<1>. QED  BY <1>1, <1>2, <1>3

LEMMA StoreSectorStep ==
  ASSUME IInv, StoreSector
  PROVE  Store!StoreBlock
<1>1. /\ bsy /\ sector # << >> /\ sector' = << >>
      /\ platter' = [platter EXCEPT ![address] = sector]
      /\ UNCHANGED <<call, i, data, answer>>
  BY DEF StoreSector, driver
<1>2. command = "write" /\ sector \in Contents
  BY <1>1, StoresForWrite
<1>. DEFINE e == [lba |-> address, data |-> sector]
<1>3. ToStore = << e >> /\ ToStore' = << >>
  BY <1>1, <1>2 DEF ToStore
<1>4. e \in Blocks
  BY <1>2 DEF IInv, AtaTypeOK, Blocks
<1>5. ToMove' = ToMove /\ ToMove \in Seq(Blocks)
  BY <1>1, SameToMove, ToMoveIsSeq
<1>6. platter' = [l \in Addresses |-> IF l = e.lba THEN e.data ELSE platter[l]]
  BY <1>1 DEF IInv, AtaTypeOK
<1>. HIDE DEF e
<1>7. /\ << e >> \o ToMove # << >> /\ Head(<< e >> \o ToMove) = e
      /\ Tail(<< e >> \o ToMove) = ToMove /\ << >> \o ToMove = ToMove
  BY <1>4, <1>5
<1>8. /\ ToStore \o ToMove # << >> /\ Head(ToStore \o ToMove) = e
      /\ Tail(ToStore \o ToMove) = ToMove /\ (ToStore \o ToMove)' = ToMove
  BY <1>3, <1>5, <1>7
<1>9. platter' = [l \in Addresses |->
                    IF l = Head(ToStore \o ToMove).lba
                      THEN Head(ToStore \o ToMove).data ELSE platter[l]]
  BY <1>6, <1>8
<1>. QED  BY <1>1, <1>8, <1>9 DEF Store!StoreBlock

LEMMA PowerLossStep ==
  ASSUME IInv, PowerLoss
  PROVE  Store!PowerLoss
<1>1. /\ call' = NoCall /\ bsy' = FALSE /\ answer' = << >> /\ platter' = platter
  BY DEF PowerLoss
<1>2. ToStore' = << >> /\ ToMove' = << >>
  BY <1>1 DEF ToStore, ToMove, NoCall
<1>. QED  BY <1>1, <1>2 DEF Store!PowerLoss, NoCall, Store!NoCall

LEMMA ImplementsInit == AtaInit => Store!StoreInit
<1>. SUFFICES ASSUME AtaInit PROVE Store!StoreInit
  OBVIOUS
<1>1. ToStore = << >> /\ ToMove = << >>
  BY DEF AtaInit, ToStore, ToMove, NoCall
<1>. QED  BY <1>1 DEF AtaInit, Store!StoreInit, NoCall, Store!NoCall

LEMMA ImplementsStep ==
  IInv /\ [AtaNext]_ataVars => [Store!StoreNext]_(Store!storeVars)
<1>. SUFFICES ASSUME IInv, [AtaNext]_ataVars
              PROVE  Store!StoreNext \/ UNCHANGED Store!storeVars
  OBVIOUS
<1>1. CASE \E r \in Reads : ReadBlocks(r)
  BY <1>1, ReadBlocksStep DEF Store!StoreNext
<1>2. CASE \E w \in Writes : WriteBlocks(w)
  BY <1>2, WriteBlocksStep DEF Store!StoreNext
<1>3. CASE Driver
  BY <1>3, CommandStep, MoveInStep, MoveOutStep, LeaveStep
     DEF Driver, Store!StoreNext, Store!storeVars
<1>4. CASE Device
  BY <1>4, DeviceStep, StoreSectorStep
     DEF Device, Store!StoreNext, Store!storeVars
<1>5. CASE PowerLoss
  BY <1>5, PowerLossStep DEF Store!StoreNext
<1>6. CASE UNCHANGED ataVars
  BY <1>6 DEF ataVars, driver, device, ToStore, ToMove, Store!storeVars
<1>. QED  BY <1>1, <1>2, <1>3, <1>4, <1>5, <1>6 DEF AtaNext

\* read_blocks and write_blocks, with the device they poll, are a store of
\* blocks: a read returns what the writes before it left, the block that the
\* last write did not wait for included, blocks reach the disk one by one in
\* their order, and a loss of power leaves a prefix of them (disk.c).
THEOREM AtaImplementsStore == AtaSpec => StoreImplemented
<1>1. AtaInit => Store!StoreInit
  BY ImplementsInit
<1>2. IInv /\ [AtaNext]_ataVars => [Store!StoreNext]_(Store!storeVars)
  BY ImplementsStep
<1>. QED  BY <1>1, <1>2, Invariant, PTL
          DEF AtaSpec, StoreImplemented, Store!StoreSpec

-----------------------------------------------------------------------------
(* How long a call can last.  AtaCallsReturn says under fairness that a call *)
(* ends; what it rests on is that a number falls with every step of the      *)
(* driver and of the device.                                                 *)

\* What the device does before it is ready: it stores a block and fetches or
\* asks for the next one.
BusySteps == IF ~bsy THEN 0 ELSE IF sector # << >> THEN 2 ELSE 1

\* The steps that are left of a call, at most.
CallDelay ==
  CASE pc = "idle"    -> 0
    [] pc = "waiting" -> 3 * (call.count + 2) + BusySteps
    [] OTHER          -> 3 * (call.count - i + 1) + BusySteps

\* There is a next step: of the driver when the device is ready, of the device
\* when it is busy.
CallGuard ==
  /\ pc = "moving" /\ ~bsy => \/ i = call.count
                              \/ i < call.count /\ call.op \in {"read", "write"}
  /\ bsy => \/ sector = << >> /\ address \in Addresses
            \/ sector = << >> /\ address \notin Addresses
            \/ sector # << >>

CallCloser == CallDelay # 0 => CallDelay' < CallDelay

LEMMA DelayTypes ==
  ASSUME IInv
  PROVE  /\ BusySteps \in 0 .. 2
         /\ call.count \in Nat /\ i \in Nat /\ i =< call.count
         /\ pc \in {"idle", "waiting", "moving"}
         /\ CallDelay \in Nat /\ (pc # "idle" => CallDelay >= 3)
<1>1. BusySteps \in 0 .. 2
  BY DEF BusySteps
<1>2. /\ call.count \in Nat /\ i \in Nat /\ i =< call.count
      /\ pc \in {"idle", "waiting", "moving"}
  BY DEF IInv, AtaTypeOK
<1> HIDE DEF BusySteps
<1>3. CallDelay \in Nat /\ (pc # "idle" => CallDelay >= 3)
  BY <1>1, <1>2 DEF CallDelay
<1>. QED  BY <1>1, <1>2, <1>3

LEMMA DriverCloser ==
  ASSUME IInv, IInv', Driver
  PROVE  CallDelay' < CallDelay
<1>1. /\ BusySteps \in 0 .. 2 /\ BusySteps' \in 0 .. 2
      /\ call.count \in Nat /\ i \in Nat
  <2>1. BusySteps' \in 0 .. 2
    BY DEF BusySteps
  <2>. QED  BY <2>1, DelayTypes
<1>2. CASE Command
  <2>1. /\ pc = "waiting" /\ pc' = "moving" /\ i' = 0 /\ call' = call
        /\ BusySteps = 0
    BY <1>2 DEF Command, BusySteps
  <2> HIDE DEF BusySteps
  <2>. QED  BY <1>1, <2>1 DEF CallDelay
<1>3. CASE MoveIn \/ MoveOut
  <2>1. /\ pc = "moving" /\ pc' = "moving" /\ i' = i + 1 /\ call' = call
        /\ BusySteps = 0
    BY <1>3 DEF MoveIn, MoveOut, BusySteps
  <2> HIDE DEF BusySteps
  <2>. QED  BY <1>1, <2>1 DEF CallDelay
<1>4. CASE Leave
  <2>1. pc # "idle" /\ pc' = "idle"
    BY <1>4 DEF Leave
  <2>2. CallDelay \in Nat /\ CallDelay >= 3 /\ CallDelay' = 0
    BY <2>1, DelayTypes DEF CallDelay
  <2>. QED  BY <2>2
<1>. QED  BY <1>2, <1>3, <1>4 DEF Driver

LEMMA DeviceCloser ==
  ASSUME IInv, IInv', Device
  PROVE  CallDelay # 0 => CallDelay' < CallDelay
<1>1. /\ BusySteps \in 0 .. 2 /\ BusySteps' \in 0 .. 2
      /\ call.count \in Nat /\ i \in Nat /\ pc \in {"idle", "waiting", "moving"}
  <2>1. BusySteps' \in 0 .. 2
    BY DEF BusySteps
  <2>. QED  BY <2>1, DelayTypes
<1>2. pc' = pc /\ i' = i /\ call' = call
  BY DEF Device, DataRequest, DeviceError, StoreSector, driver
<1>3. BusySteps' < BusySteps
  BY DEF Device, DataRequest, DeviceError, StoreSector, BusySteps
<1> HIDE DEF BusySteps
<1>. QED  BY <1>1, <1>2, <1>3 DEF CallDelay

LEMMA CloserStep ==
  ASSUME IInv, IInv', [AtaNext]_ataVars
  PROVE  [CallCloser]_ataVars
<1>1. CASE (\E r \in Reads : ReadBlocks(r)) \/ (\E w \in Writes : WriteBlocks(w))
  BY <1>1 DEF ReadBlocks, WriteBlocks, Enter, CallDelay, CallCloser
<1>2. CASE Driver
  BY <1>2, DriverCloser DEF CallCloser
<1>3. CASE Device
  BY <1>3, DeviceCloser DEF CallCloser
<1>4. CASE PowerLoss
  <2>1. CallDelay' = 0 /\ CallDelay \in Nat
    BY <1>4, DelayTypes DEF PowerLoss, CallDelay
  <2>. QED  BY <2>1 DEF CallCloser
<1>. QED  BY <1>1, <1>2, <1>3, <1>4 DEF AtaNext

\* A call of read_blocks or write_blocks always has a next step, of the driver
\* or of the device it polls, and at most about three for each block left;
\* every step makes it fewer, an error of the device included (disk.c:4-14).
THEOREM AtaCallsComeCloser ==
  AtaSpec => /\ [](CallDelay \in Nat /\ CallGuard)
             /\ [][CallCloser]_ataVars
<1>1. IInv => CallDelay \in Nat /\ CallGuard
  BY DelayTypes DEF CallGuard, IInv, CallInv, AtaTypeOK
<1>2. IInv /\ IInv' /\ [AtaNext]_ataVars => [CallCloser]_ataVars
  BY CloserStep
<1>. QED  BY <1>1, <1>2, Invariant, PTL DEF AtaSpec
=============================================================================
