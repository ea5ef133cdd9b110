----------------------------- MODULE ConsoleProofs -----------------------------
(***************************************************************************)
(* Theorems about Console, for every screen, buffer and text:              *)
(*   TypeCorrect         Spec => []TypeOK                                  *)
(*   LineDelivered       Spec => ShownIsDelivered, the refinement          *)
(*   PromptNeverErased   Spec => PromptKept                                *)
(* and about Interrupts, for every set of keys, masks and devices:         *)
(*   SystemTypeCorrect        SystemSpec => []SystemTypeOK                 *)
(*   SystemImplementsConsole  SystemSpec => Spec                           *)
(*   SystemDeliversLine       SystemSpec => ShownIsDelivered, PromptKept   *)
(*                                                                         *)
(* The argument is in LineInv: while a line is read, the length the driver *)
(* counts and the length the screen shows are equal, or the buffer was     *)
(* full and neither can come back under the size of the reader's buffer,   *)
(* because Backspace does not leave the row. Interrupts adds devices and a *)
(* processor that the driver does not see: each of its steps is a step of  *)
(* Console or leaves it alone, so that what holds of Console holds of it.  *)
(***************************************************************************)
EXTENDS Interrupts, FiniteSetTheorems, SequenceTheorems, TLAPS

-----------------------------------------------------------------------------
(* Constants and cells.                                                    *)

LEMMA Sizes ==
  /\ VGA_WIDTH \in Nat /\ VGA_WIDTH > 0 /\ VGA_WIDTH < UINT8
  /\ VGA_HEIGHT \in Nat /\ VGA_HEIGHT > 0 /\ VGA_HEIGHT < UINT8
  /\ KEYBOARD_BUFFER_SIZE \in Nat /\ KEYBOARD_BUFFER_SIZE > 0
  /\ InputSize \in Nat /\ InputSize > 0
  /\ InputSize + VGA_WIDTH =< KEYBOARD_BUFFER_SIZE
  /\ UINT8 \in Nat
  BY ConsoleAssumption

LEMMA KeysDiffer ==
  /\ Unmapped # Backspace /\ Unmapped # Newline /\ Backspace # Newline
  /\ \A ch \in Chars : ch \notin {Unmapped, Backspace, Newline, Nul}
  /\ Blank \in Chars
  BY ConsoleAssumption
     DEF Chars, Blank, Unmapped, Backspace, Newline, Nul

\* The arithmetic of Cell, so that no later proof needs products.
LEMMA CellFacts ==
  ASSUME NEW row \in Nat, NEW col \in Nat
  PROVE  /\ Cell(row, col) \in Nat
         /\ Cell(row + 1, col) = Cell(row, col) + VGA_WIDTH
         /\ \A other \in Nat : Cell(row, other) = Cell(row, col) + other - col
  <1>1. VGA_WIDTH \in Nat BY ConsoleAssumption
  <1>2. row * VGA_WIDTH \in Nat BY <1>1
  <1>3. (row + 1) * VGA_WIDTH = row * VGA_WIDTH + VGA_WIDTH BY <1>1
  <1> QED BY <1>1, <1>2, <1>3 DEF Cell

\* Positions made of bytes are cells.
LEMMA CellOfBytes ==
  ASSUME NEW row \in Bytes, NEW col \in Bytes
  PROVE  Cell(row, col) \in Cells
  BY DEF Cells

LEMMA CellsAreNat == Cells \subseteq Nat
  <1> SUFFICES ASSUME NEW row \in Bytes, NEW col \in Bytes
               PROVE  Cell(row, col) \in Nat
    BY DEF Cells
  <1> QED BY CellFacts, Sizes DEF Bytes

LEMMA IncIsByte ==
  ASSUME NEW b \in Nat
  PROVE  b % UINT8 \in Bytes
  BY ConsoleAssumption DEF Bytes

\* A byte counter that does not wrap.
LEMMA SmallMod ==
  ASSUME NEW n \in Nat, NEW b \in 0..(n - 1)
  PROVE  b % n = b
  OBVIOUS

-----------------------------------------------------------------------------
(* Types.                                                                  *)

LEMMA TypeInit == Init => TypeOK
  <1> SUFFICES ASSUME Init PROVE TypeOK OBVIOUS
  <1>1. 0 \in Bytes BY ConsoleAssumption DEF Bytes
  <1>2. Cell(0, 0) = 0 BY ConsoleAssumption DEF Cell
  <1>3. 0 \in Cells BY <1>1, <1>2, CellOfBytes
  <1>4. Blank \in Chars BY DEF Chars
  <1> QED BY <1>1, <1>3, <1>4, ConsoleAssumption DEF Init, TypeOK

LEMMA TypePress ==
  ASSUME TypeOK, NEW key \in Keys, Press(key)
  PROVE  /\ keyboard_input_on' \in BOOLEAN
         /\ buffer_index' \in 0..(KEYBOARD_BUFFER_SIZE - 1)
         /\ keyboard_buffer' \in [0..(KEYBOARD_BUFFER_SIZE - 1) -> Chars \cup {Nul}]
         /\ cursor_row' \in Bytes /\ cursor_col' \in Bytes
         /\ framebuffer' \in [Cells -> Chars]
  <1> USE DEF TypeOK, driver, cursor
  <1>1. Blank \in Chars BY KeysDiffer
  <1>2. \A ch \in Chars : Echo(ch) => framebuffer' \in [Cells -> Chars]
    BY DEF Echo
  <1>3. CASE key = Unmapped
    <2>1. PressUnmapped BY <1>3, KeysDiffer DEF Press
    <2> QED BY <2>1, <1>1, <1>2 DEF PressUnmapped
  <1>4. CASE key = Backspace
    <2>1. PressBackspace BY <1>4, KeysDiffer DEF Press
    <2>2. CASE cursor_col > cursor_col_threshold
      <3>1. cursor_col' \in Bytes /\ buffer_index' \in 0..(KEYBOARD_BUFFER_SIZE - 1)
        BY <2>1, <2>2, Sizes DEF PressBackspace, Bytes
      <3> QED BY <1>1, <1>2, <2>1, <2>2, <3>1 DEF PressBackspace
    <2>3. CASE ~(cursor_col > cursor_col_threshold)
      BY <2>1, <2>3 DEF PressBackspace
    <2> QED BY <2>2, <2>3
  <1>5. CASE key = Newline
    <2>1. PressEnter BY <1>5, KeysDiffer DEF Press
    <2>2. CASE cursor_row < VGA_HEIGHT - 1
      <3>1. cursor_row' = cursor_row + 1 /\ cursor_col' = 0
        BY <2>1, <2>2 DEF PressEnter
      <3>2. cursor_row' \in Bytes /\ cursor_col' \in Bytes
        BY <2>2, <3>1, Sizes DEF Bytes
      <3>3. keyboard_buffer' = [keyboard_buffer EXCEPT ![buffer_index] = Nul]
        BY <2>1, <2>2 DEF PressEnter
      <3>4. keyboard_buffer' \in [0..(KEYBOARD_BUFFER_SIZE - 1) -> Chars \cup {Nul}]
        BY <3>3
      <3>5. /\ buffer_index' = 0 /\ keyboard_input_on' = FALSE
            /\ framebuffer' = framebuffer
        BY <2>1, <2>2 DEF PressEnter
      <3>6. 0 \in 0..(KEYBOARD_BUFFER_SIZE - 1) BY Sizes
      <3> QED BY <3>2, <3>4, <3>5, <3>6
    <2>3. CASE ~(cursor_row < VGA_HEIGHT - 1)
      BY <2>1, <2>3 DEF PressEnter
    <2> QED BY <2>2, <2>3
  <1>6. CASE key \in Chars
    <2>1. key \notin {Unmapped, Backspace, Newline}
      BY <1>6, KeysDiffer
    <2>2. PressChar(key) BY <2>1 DEF Press
    <2>3. cursor_row' \in Bytes /\ cursor_col' \in Bytes
      <3>1. Advance BY <2>2 DEF PressChar
      <3>2. cursor_row \in Nat /\ cursor_col \in Nat BY Sizes DEF Bytes
      <3>3. Inc(cursor_col) \in Bytes BY <3>2, IncIsByte DEF Inc
      <3>4. CASE cursor_col # VGA_WIDTH - 1
        BY <3>1, <3>3, <3>4 DEF Advance
      <3>5. CASE cursor_col = VGA_WIDTH - 1 /\ cursor_row < VGA_HEIGHT - 1
        <4>1. cursor_row' = cursor_row + 1 /\ cursor_col' = 0
          BY <3>1, <3>5 DEF Advance
        <4> QED BY <3>2, <3>5, <4>1, Sizes DEF Bytes
      <3>6. CASE cursor_col = VGA_WIDTH - 1 /\ ~(cursor_row < VGA_HEIGHT - 1)
        BY <3>1, <3>6 DEF Advance
      <3> QED BY <3>4, <3>5, <3>6
    <2> QED BY <1>2, <1>6, <2>2, <2>3, Sizes DEF PressChar, StoreChar
  <1> QED BY <1>3, <1>4, <1>5, <1>6 DEF Keys

LEMMA TypeIsr ==
  ASSUME TypeOK, NEW key \in Keys, KeyboardIsr(key)
  PROVE  TypeOK'
  <1>1. CASE keyboard_input_on
    <2>1. Press(key) BY <1>1 DEF KeyboardIsr
    <2> QED BY <2>1, TypePress DEF KeyboardIsr, TypeOK
  <1>2. CASE ~keyboard_input_on
    BY <1>2, Sizes DEF KeyboardIsr, TypeOK, cursor
  <1> QED BY <1>1, <1>2

LEMMA TypePuts ==
  ASSUME TypeOK, NEW text \in Texts, Puts(text)
  PROVE  TypeOK'
  <1>1. text \in Seq(Chars \cup {Newline}) BY ConsoleAssumption
  <1>2. Len(text) \in Nat BY <1>1
  <1>3. \A i \in Nat : Cardinality(Newlines(text, i)) \in Nat
    <2> TAKE i \in Nat
    <2>1. IsFiniteSet(1..(i - 1)) BY FS_Interval
    <2>2. Newlines(text, i) \subseteq 1..(i - 1) BY DEF Newlines
    <2> QED BY <2>1, <2>2, FS_Subset, FS_CardinalityType
  <1>4. cursor_row' \in Bytes
    <2>1. Cardinality(Newlines(text, Len(text) + 1)) \in Nat BY <1>2, <1>3
    <2>2. cursor_row + Cardinality(Newlines(text, Len(text) + 1)) \in Nat
      BY <2>1 DEF TypeOK, Bytes
    <2> QED BY <2>2, IncIsByte DEF Puts
  <1>5. cursor_col' \in Bytes
    <2>1. 0 \in Bytes BY Sizes DEF Bytes
    <2>2. Column(text, Len(text)) + Len(text) \in Nat
      BY <1>2 DEF Column, TypeOK, Bytes
    <2> QED BY <2>1, <2>2, IncIsByte DEF Puts, TypeOK
  <1>6. framebuffer' \in [Cells -> Chars]
    <2> SUFFICES ASSUME NEW c \in Cells,
                        \E i \in 1..Len(text) : IsLastPutAt(text, c, i)
                 PROVE  text[CHOOSE i \in 1..Len(text) : IsLastPutAt(text, c, i)] \in Chars
      BY DEF Puts, TypeOK
    <2> DEFINE i == CHOOSE j \in 1..Len(text) : IsLastPutAt(text, c, j)
    <2>1. i \in 1..Len(text) /\ IsLastPutAt(text, c, i) OBVIOUS
    <2>2. text[i] # Newline BY <2>1 DEF IsLastPutAt
    <2>3. text[i] \in Chars \cup {Newline} BY <2>1, <1>1
    <2> QED BY <2>2, <2>3
  <1>7. cursor_col_threshold' = cursor_col' BY DEF Puts
  <1> QED BY <1>4, <1>5, <1>6, <1>7 DEF Puts, TypeOK, driver

LEMMA TypeNext == TypeOK /\ [Next]_vars => TypeOK'
  <1> SUFFICES ASSUME TypeOK, [Next]_vars PROVE TypeOK' OBVIOUS
  <1>1. CASE \E key \in Keys : KeyboardIsr(key) BY <1>1, TypeIsr
  <1>2. CASE \E text \in Texts : Puts(text) BY <1>2, TypePuts
  <1>3. CASE Fgets
    <2>1. start' \in Cells BY <1>3, CellOfBytes DEF Fgets, TypeOK
    <2> QED BY <1>3, <2>1 DEF Fgets, TypeOK, cursor
  <1>4. CASE LeaveLoop
    BY <1>4 DEF LeaveLoop, TypeOK, driver, cursor
  <1>5. CASE CopyLine
    <2>1. \A i \in 1..InputSize : i - 1 \in 0..(KEYBOARD_BUFFER_SIZE - 1)
      BY Sizes
    <2> QED BY <1>5, <2>1 DEF CopyLine, TypeOK, driver, cursor
  <1>6. CASE UNCHANGED vars
    BY <1>6 DEF vars, TypeOK, driver, cursor
  <1> QED BY <1>1, <1>2, <1>3, <1>4, <1>5, <1>6 DEF Next

\* Every variable keeps its type; the index of the line buffer stays inside
\* it, with the last place for the terminator (keyboard.c:342).
THEOREM TypeCorrect == Spec => []TypeOK
  <1> QED BY TypeInit, TypeNext, PTL DEF Spec

-----------------------------------------------------------------------------
(* The line.                                                               *)

\* While no line is read the length is 0 and the cursor is not behind the
\* limit of Backspace, which Enter does not reset.
Quiet ==
  ~keyboard_input_on =>
    /\ buffer_index = 0
    /\ cursor_col =< cursor_col_threshold
    /\ cursor_col = cursor_col_threshold \/ cursor_col_threshold < VGA_WIDTH

\* While one is read, it lies between start and the cursor, and the limit of
\* Backspace does not lie in front of start.
Place ==
  keyboard_input_on =>
    /\ call = "waiting"
    /\ cursor_col < VGA_WIDTH
    /\ cursor_col_threshold < VGA_WIDTH
    /\ start =< Here
    /\ start =< Cell(cursor_row, cursor_col_threshold)
    /\ \A x \in start..(Here - 1) : x \in Cells

\* Above the last row the driver has what the screen shows, as far as the
\* reader has room; it has fewer characters only if its buffer was full, and
\* then it keeps as many as Backspace can not take away within the row.
Agreement ==
  keyboard_input_on /\ cursor_row < VGA_HEIGHT - 1 =>
    /\ buffer_index =< Here - start
    /\ buffer_index < Here - start =>
         buffer_index >= KEYBOARD_BUFFER_SIZE - VGA_WIDTH + cursor_col
    /\ \A i \in 0..(buffer_index - 1) :
         i < InputSize => keyboard_buffer[i] = framebuffer[start + i]

\* The terminator is the first one.
Unterminated ==
  keyboard_input_on =>
    \A i \in 0..(buffer_index - 1) : keyboard_buffer[i] \in Chars

Terminated ==
  call # "user" /\ ~keyboard_input_on =>
    \E n \in 0..(KEYBOARD_BUFFER_SIZE - 1) : IsEnd(keyboard_buffer, n)

Copying == call = "copying" => ~keyboard_input_on

LineInv ==
  Quiet /\ Place /\ Agreement /\ Unterminated /\ Terminated /\ Copying

LEMMA LineInit == Init => LineInv
  BY DEF Init, LineInv, Quiet, Place, Agreement, Unterminated, Terminated, Copying

\* What the cursor and the limit of Backspace are, as numbers.
LEMMA CursorFacts ==
  ASSUME TypeOK
  PROVE  /\ cursor_row \in Nat /\ cursor_col \in Nat
         /\ cursor_col_threshold \in Nat
         /\ start \in Nat
         /\ Here \in Nat /\ Here \in Cells
         /\ Cell(cursor_row, cursor_col_threshold)
              = Here + cursor_col_threshold - cursor_col
  <1>1. cursor_row \in Nat /\ cursor_col \in Nat /\ cursor_col_threshold \in Nat
    BY Sizes DEF TypeOK, Bytes
  <1>2. start \in Nat BY CellsAreNat DEF TypeOK
  <1>3. Here \in Cells BY CellOfBytes DEF TypeOK, Here
  <1> QED BY <1>1, <1>2, <1>3, CellFacts DEF Here

\* An echo changes the cell under the cursor and no other.
LEMMA EchoFacts ==
  ASSUME TypeOK, NEW ch, Echo(ch)
  PROVE  /\ framebuffer'[Here] = ch
         /\ \A x \in Cells : x # Here => framebuffer'[x] = framebuffer[x]
  BY CursorFacts DEF Echo, Here, TypeOK

\* The line on the screen is a sequence as long as the cursor is away.
LEMMA ShownFacts ==
  ASSUME TypeOK, LineInv, keyboard_input_on
  PROVE  /\ Here - start \in Nat
         /\ Shown \in Seq(Chars)
         /\ Len(Shown) = Here - start
         /\ \A i \in 1..(Here - start) : Shown[i] = framebuffer[start + i - 1]
  <1>1. Here - start \in Nat BY CursorFacts DEF LineInv, Place
  <1>2. \A i \in 1..(Here - start) : start + i - 1 \in Cells
    <2> TAKE i \in 1..(Here - start)
    <2>1. start + i - 1 \in start..(Here - 1) BY <1>1, CursorFacts
    <2> QED BY <2>1 DEF LineInv, Place
  <1>3. \A i \in 1..(Here - start) : framebuffer[start + i - 1] \in Chars
    BY <1>2 DEF TypeOK
  <1> QED BY <1>1, <1>3 DEF Shown

LEMMA AppendFacts ==
  ASSUME NEW S, NEW s \in Seq(S), NEW e \in S
  PROVE  Append(s, e)
           = [i \in 1..(Len(s) + 1) |-> IF i = Len(s) + 1 THEN e ELSE s[i]]
  <1> DEFINE a == Append(s, e)
  <1>1. a \in Seq(S) /\ Len(a) = Len(s) + 1 BY AppendProperties
  <1>2. a \in [1..(Len(s) + 1) -> S] BY <1>1, LenProperties
  <1>3. Len(s) \in Nat BY LenProperties
  <1>4. a[Len(s) + 1] = e /\ \A i \in 1..Len(s) : a[i] = s[i] BY AppendProperties
  <1> HIDE DEF a
  <1>5. \A i \in 1..(Len(s) + 1) : a[i] = IF i = Len(s) + 1 THEN e ELSE s[i]
    BY <1>3, <1>4
  <1>6. a = [i \in 1..(Len(s) + 1) |-> IF i = Len(s) + 1 THEN e ELSE s[i]]
    BY <1>2, <1>5
  <1> QED BY <1>6 DEF a

-----------------------------------------------------------------------------
(* What each key does to the line.                                         *)

Rest == UNCHANGED <<cursor_col_threshold, call, input, start>>

LEMMA LineUnmapped ==
  ASSUME TypeOK, LineInv, keyboard_input_on, PressUnmapped, Rest
  PROVE  LineInv' /\ keyboard_input_on' /\ Shown' = Shown
  <1>1. /\ UNCHANGED <<keyboard_input_on, buffer_index, keyboard_buffer>>
        /\ UNCHANGED <<cursor_row, cursor_col>>
        /\ UNCHANGED <<cursor_col_threshold, call, input, start>>
    BY DEF PressUnmapped, Rest, driver, cursor
  <1>2. Here' = Here BY <1>1 DEF Here
  <1>3. \A x \in start..(Here - 1) : framebuffer'[x] = framebuffer[x]
    <2> TAKE x \in start..(Here - 1)
    <2>1. x \in Cells /\ x # Here BY CursorFacts DEF LineInv, Place
    <2> QED BY <2>1, EchoFacts DEF PressUnmapped
  <1>4. Shown' = Shown
    <2>1. \A i \in 1..(Here - start) : start + i - 1 \in start..(Here - 1)
      BY CursorFacts
    <2> QED BY <1>1, <1>2, <1>3, <2>1 DEF Shown
  <1>5. Agreement'
    <2> SUFFICES ASSUME cursor_row < VGA_HEIGHT - 1,
                        NEW i \in 0..(buffer_index - 1), i < InputSize
                 PROVE  keyboard_buffer[i] = framebuffer'[start + i]
      BY <1>1, <1>2 DEF Agreement, LineInv
    <2>1. start + i \in start..(Here - 1)
      BY CursorFacts DEF LineInv, Agreement, TypeOK
    <2> QED BY <2>1, <1>3 DEF LineInv, Agreement
  <1>6. Place' BY <1>1, <1>2 DEF LineInv, Place
  <1> QED BY <1>1, <1>4, <1>5, <1>6
          DEF LineInv, Quiet, Unterminated, Terminated, Copying

LEMMA LineBackspace ==
  ASSUME TypeOK, LineInv, keyboard_input_on, PressBackspace, Rest
  PROVE  /\ LineInv' /\ keyboard_input_on'
         /\ \/ Shown' = Shown
            \/ /\ Shown # << >>
               /\ Shown' = SubSeq(Shown, 1, Len(Shown) - 1)
  <1>1. CASE ~(cursor_col > cursor_col_threshold)
    <2>1. /\ UNCHANGED <<keyboard_input_on, buffer_index, keyboard_buffer>>
          /\ UNCHANGED <<cursor_row, cursor_col, framebuffer>>
          /\ UNCHANGED <<cursor_col_threshold, call, input, start>>
      BY <1>1 DEF PressBackspace, Rest, driver, cursor
    <2> QED BY <2>1 DEF LineInv, Quiet, Place, Agreement, Unterminated,
                        Terminated, Copying, Here, Shown
  <1>2. CASE cursor_col > cursor_col_threshold
    <2>1. /\ UNCHANGED <<keyboard_input_on, keyboard_buffer, cursor_row>>
          /\ UNCHANGED <<cursor_col_threshold, call, input, start>>
          /\ cursor_col' = cursor_col - 1
          /\ buffer_index' = IF buffer_index > 0 THEN buffer_index - 1 ELSE 0
          /\ Echo(Blank)
      BY <1>2 DEF PressBackspace, Rest
    <2>2. cursor_col - 1 \in Nat BY <1>2, CursorFacts
    <2>3. Here' = Here - 1
      <3>1. Cell(cursor_row, cursor_col - 1) = Here - 1
        BY <2>2, CursorFacts, CellFacts DEF Here
      <3> QED BY <3>1, <2>1 DEF Here
    <2>4. start =< Here - 1 BY <1>2, CursorFacts DEF LineInv, Place
    <2>5. \A x \in start..(Here - 1) : framebuffer'[x] = framebuffer[x]
      <3> TAKE x \in start..(Here - 1)
      <3>1. x \in Cells /\ x # Here BY CursorFacts DEF LineInv, Place
      <3> QED BY <2>1, <3>1, EchoFacts
    <2>6. Shown # << >> /\ Shown' = SubSeq(Shown, 1, Len(Shown) - 1)
      <3> DEFINE n == Here - start
      <3>1. n \in Nat /\ n > 0 BY <2>4, CursorFacts
      <3>2. Shown' = [i \in 1..(n - 1) |-> framebuffer'[start + i - 1]]
        <4>1. Here' - start' = n - 1 BY <2>1, <2>3, CursorFacts
        <4> QED BY <4>1, <2>1 DEF Shown
      <3>3. \A i \in 1..(n - 1) : framebuffer'[start + i - 1] = Shown[i]
        <4> TAKE i \in 1..(n - 1)
        <4>1. start + i - 1 \in start..(Here - 1) BY <3>1, CursorFacts
        <4>2. i \in 1..(Here - start) BY <3>1
        <4> QED BY <4>1, <4>2, <2>5, ShownFacts
      <3>4. Shown' = [i \in 1..(n - 1) |-> Shown[i]] BY <3>2, <3>3
      <3>5. Shown \in Seq(Chars) /\ Len(Shown) = n BY ShownFacts
      <3>6. Shown # << >> BY <3>1, <3>5
      <3> HIDE DEF n
      <3> QED BY <3>1, <3>4, <3>5, <3>6
    <2>7. Place'
      <3>1. Cell(cursor_row, cursor_col_threshold)' =
              Cell(cursor_row, cursor_col_threshold)
        BY <2>1
      <3>2. start' =< Here' BY <2>1, <2>3, <2>4
      <3>3. \A x \in start'..(Here' - 1) : x \in Cells
        <4> SUFFICES ASSUME NEW x \in start..(Here - 1 - 1) PROVE x \in Cells
          BY <2>1, <2>3
        <4>1. x \in start..(Here - 1) BY CursorFacts
        <4> QED BY <4>1 DEF LineInv, Place
      <3>4. cursor_col' < VGA_WIDTH /\ cursor_col_threshold' < VGA_WIDTH
        BY <2>1, CursorFacts, Sizes DEF LineInv, Place
      <3> QED BY <2>1, <3>1, <3>2, <3>3, <3>4 DEF LineInv, Place
    <2>8. Agreement'
      <3> SUFFICES ASSUME cursor_row < VGA_HEIGHT - 1 PROVE Agreement'
        BY <2>1 DEF Agreement
      <3>1. /\ buffer_index \in Nat /\ buffer_index =< Here - start
            /\ buffer_index < Here - start =>
                 buffer_index >= KEYBOARD_BUFFER_SIZE - VGA_WIDTH + cursor_col
        BY Sizes DEF LineInv, Agreement, TypeOK
      <3>2. buffer_index > 0
        BY <1>2, <2>4, <3>1, CursorFacts, Sizes
      <3>3. buffer_index' = buffer_index - 1 BY <2>1, <3>2
      <3>4. buffer_index' =< Here' - start'
        BY <2>1, <2>3, <3>1, <3>3, CursorFacts
      <3>5. buffer_index' < Here' - start' =>
              buffer_index' >= KEYBOARD_BUFFER_SIZE - VGA_WIDTH + cursor_col'
        BY <2>1, <2>3, <3>1, <3>3, CursorFacts, Sizes
      <3>6. \A i \in 0..(buffer_index' - 1) :
              i < InputSize => keyboard_buffer'[i] = framebuffer'[start' + i]
        <4> SUFFICES ASSUME NEW i \in 0..(buffer_index - 1 - 1), i < InputSize
                     PROVE  keyboard_buffer[i] = framebuffer'[start + i]
          BY <2>1, <3>3
        <4>1. i \in 0..(buffer_index - 1) /\ start + i \in start..(Here - 1)
          BY <3>1, CursorFacts
        <4> QED BY <4>1, <2>5 DEF LineInv, Agreement
      <3> QED BY <3>4, <3>5, <3>6 DEF Agreement
    <2>9. Unterminated'
      <3>1. \A i \in 0..(buffer_index' - 1) : i \in 0..(buffer_index - 1)
        BY <2>1, Sizes DEF TypeOK
      <3> QED BY <2>1, <3>1 DEF LineInv, Unterminated
    <2> QED BY <2>1, <2>6, <2>7, <2>8, <2>9
            DEF LineInv, Quiet, Place, Terminated, Copying
  <1> QED BY <1>1, <1>2

\* Where the terminator was put is the only end of the line.
LEMMA EndIsUnique ==
  ASSUME NEW n \in 0..(KEYBOARD_BUFFER_SIZE - 1),
         NEW buffer, DOMAIN buffer = 0..(KEYBOARD_BUFFER_SIZE - 1),
         IsEnd(buffer, n)
  PROVE  LineIn(buffer) = [i \in 1..(IF n < InputSize THEN n ELSE InputSize)
                             |-> buffer[i - 1]]
  <1> DEFINE m == CHOOSE k \in DOMAIN buffer : IsEnd(buffer, k)
  <1>1. m \in DOMAIN buffer /\ IsEnd(buffer, m) OBVIOUS
  <1>2. m = n
    <2>1. m \in Nat /\ n \in Nat BY <1>1, Sizes
    <2>2. ~(m < n)
      <3> SUFFICES ASSUME m < n PROVE FALSE OBVIOUS
      <3>1. m \in 0..(n - 1) BY <2>1
      <3> QED BY <1>1, <3>1 DEF IsEnd
    <2>3. ~(n < m)
      <3> SUFFICES ASSUME n < m PROVE FALSE OBVIOUS
      <3>1. n \in 0..(m - 1) BY <2>1
      <3> QED BY <1>1, <3>1 DEF IsEnd
    <2> QED BY <2>1, <2>2, <2>3
  <1> QED BY <1>2 DEF LineIn

LEMMA LineEnter ==
  ASSUME TypeOK, TypeOK', LineInv, keyboard_input_on, PressEnter, Rest
  PROVE  /\ LineInv'
         /\ \/ keyboard_input_on' /\ Shown' = Shown
            \/ /\ ~keyboard_input_on'
               /\ Stored' = SubSeq(Shown, 1, IF Len(Shown) < InputSize
                                             THEN Len(Shown) ELSE InputSize)
  <1>1. CASE ~(cursor_row < VGA_HEIGHT - 1)
    <2>1. /\ UNCHANGED <<keyboard_input_on, buffer_index, keyboard_buffer>>
          /\ UNCHANGED <<cursor_row, cursor_col, framebuffer>>
          /\ UNCHANGED <<cursor_col_threshold, call, input, start>>
      BY <1>1 DEF PressEnter, Rest, driver, cursor
    <2> QED BY <2>1 DEF LineInv, Quiet, Place, Agreement, Unterminated,
                        Terminated, Copying, Here, Shown
  <1>2. CASE cursor_row < VGA_HEIGHT - 1
    <2> PICK n \in 0..(KEYBOARD_BUFFER_SIZE - 1) : n = buffer_index BY DEF TypeOK
    <2>1. /\ UNCHANGED <<cursor_col_threshold, call, input, start>>
          /\ cursor_col' = 0
          /\ keyboard_buffer' = [keyboard_buffer EXCEPT ![n] = Nul]
          /\ buffer_index' = 0
          /\ keyboard_input_on' = FALSE
          /\ framebuffer' = framebuffer
      BY <1>2 DEF PressEnter, Rest
    <2>2. n \in Nat /\ n \in 0..(KEYBOARD_BUFFER_SIZE - 1) BY Sizes
    <2>3. keyboard_buffer'[n] = Nul BY <2>1, <2>2 DEF TypeOK
    <2>4. \A i \in 0..(n - 1) : keyboard_buffer'[i] = keyboard_buffer[i]
      <3> TAKE i \in 0..(n - 1)
      <3>1. i \in 0..(KEYBOARD_BUFFER_SIZE - 1) /\ i # n BY <2>2, Sizes
      <3> QED BY <2>1, <3>1 DEF TypeOK
    <2>5. IsEnd(keyboard_buffer', n)
      <3>1. \A i \in 0..(n - 1) : keyboard_buffer'[i] # Nul
        BY <2>4, KeysDiffer DEF LineInv, Unterminated
      <3> QED BY <2>3, <3>1 DEF IsEnd
    <2> DEFINE k == IF n < InputSize THEN n ELSE InputSize
    <2>6. Stored' = [i \in 1..k |-> keyboard_buffer'[i - 1]]
      <3>1. DOMAIN keyboard_buffer' = 0..(KEYBOARD_BUFFER_SIZE - 1) BY DEF TypeOK
      <3> QED BY <2>5, <3>1, EndIsUnique DEF Stored
    <2>7. /\ n =< Here - start
          /\ n < Here - start => n >= KEYBOARD_BUFFER_SIZE - VGA_WIDTH + cursor_col
          /\ \A i \in 0..(n - 1) :
               i < InputSize => keyboard_buffer[i] = framebuffer[start + i]
      BY <1>2 DEF LineInv, Agreement
    <2>8. k = IF Here - start < InputSize THEN Here - start ELSE InputSize
      BY <2>2, <2>7, CursorFacts, Sizes
    <2>9. \A i \in 1..k : keyboard_buffer'[i - 1] = Shown[i]
      <3> TAKE i \in 1..k
      <3>1. i - 1 \in 0..(n - 1) /\ i - 1 < InputSize BY <2>2, Sizes
      <3>2. i \in 1..(Here - start) BY <2>2, <2>7, CursorFacts, Sizes
      <3>3. start + (i - 1) = start + i - 1 BY <3>1, CursorFacts
      <3>4. keyboard_buffer[i - 1] = framebuffer[start + (i - 1)]
        BY <2>7, <3>1
      <3>5. Shown[i] = framebuffer[start + i - 1] BY <3>2, ShownFacts
      <3> QED BY <2>4, <3>1, <3>3, <3>4, <3>5
    <2>10. Stored' = SubSeq(Shown, 1, k)
      <3>1. Stored' = [i \in 1..k |-> Shown[i]] BY <2>6, <2>9
      <3>2. k \in Nat /\ k =< Len(Shown) BY <2>2, <2>8, ShownFacts, Sizes
      <3>3. Shown \in Seq(Chars) BY ShownFacts
      <3> HIDE DEF k
      <3> QED BY <3>1, <3>2, <3>3
    <2>11. LineInv'
      <3>1. Quiet'
        BY <2>1, CursorFacts DEF LineInv, Quiet, Place
      <3>2. Terminated'
        BY <2>2, <2>5 DEF Terminated
      <3> QED BY <2>1, <3>1, <3>2
              DEF LineInv, Place, Agreement, Unterminated, Copying
    <2>12. k = IF Len(Shown) < InputSize THEN Len(Shown) ELSE InputSize
      BY <2>8, ShownFacts
    <2> HIDE DEF k
    <2> QED BY <2>1, <2>10, <2>11, <2>12
  <1> QED BY <1>1, <1>2

\* In the corner of the screen the cursor stays; elsewhere it moves on by one.
LEMMA AdvanceFacts ==
  ASSUME TypeOK, LineInv, keyboard_input_on, Advance, UNCHANGED start
  PROVE  \/ /\ UNCHANGED <<cursor_row, cursor_col>>
            /\ ~(cursor_row < VGA_HEIGHT - 1)
         \/ /\ Here' = Here + 1
            /\ \/ cursor_row' = cursor_row /\ cursor_col' = cursor_col + 1
               \/ /\ cursor_row' = cursor_row + 1 /\ cursor_col' = 0
                  /\ cursor_col = VGA_WIDTH - 1
            /\ cursor_col' < VGA_WIDTH
  <1>1. cursor_col < VGA_WIDTH BY DEF LineInv, Place
  <1>2. CASE cursor_col # VGA_WIDTH - 1
    <2>1. cursor_row' = cursor_row /\ cursor_col' = Inc(cursor_col)
      BY <1>2 DEF Advance
    <2>2. Inc(cursor_col) = cursor_col + 1
      <3>1. cursor_col + 1 \in 0..(UINT8 - 1) BY <1>1, CursorFacts, Sizes
      <3> QED BY <3>1, SmallMod, Sizes DEF Inc
    <2>3. Cell(cursor_row, cursor_col + 1) = Here + 1
      BY CursorFacts, CellFacts DEF Here
    <2>4. cursor_col + 1 < VGA_WIDTH BY <1>1, <1>2, CursorFacts, Sizes
    <2> QED BY <2>1, <2>2, <2>3, <2>4 DEF Here
  <1>3. CASE cursor_col = VGA_WIDTH - 1 /\ cursor_row < VGA_HEIGHT - 1
    <2>1. cursor_row' = cursor_row + 1 /\ cursor_col' = 0
      BY <1>3 DEF Advance
    <2>2. Cell(cursor_row + 1, 0) = Cell(cursor_row, 0) + VGA_WIDTH
      BY CursorFacts, CellFacts
    <2>3. Cell(cursor_row, 0) = Here - cursor_col
      BY CursorFacts, CellFacts DEF Here
    <2>4. Cell(cursor_row + 1, 0) = Here + 1
      BY <1>3, <2>2, <2>3, CursorFacts, Sizes
    <2> QED BY <1>3, <2>1, <2>4, Sizes DEF Here
  <1>4. CASE cursor_col = VGA_WIDTH - 1 /\ ~(cursor_row < VGA_HEIGHT - 1)
    BY <1>4 DEF Advance, cursor
  <1> QED BY <1>2, <1>3, <1>4

LEMMA LineChar ==
  ASSUME TypeOK, LineInv, keyboard_input_on, Rest,
         NEW ch \in Chars, PressChar(ch)
  PROVE  /\ LineInv' /\ keyboard_input_on'
         /\ Shown' = Shown \/ Shown' = Append(Shown, ch)
  <1>1. /\ UNCHANGED <<cursor_col_threshold, call, input, start>>
        /\ UNCHANGED keyboard_input_on
        /\ StoreChar(ch) /\ Echo(ch) /\ Advance
    BY DEF PressChar, Rest, StoreChar
  <1>2. \A x \in start..(Here - 1) : framebuffer'[x] = framebuffer[x]
    <2> TAKE x \in start..(Here - 1)
    <2>1. x \in Cells /\ x # Here BY CursorFacts DEF LineInv, Place
    <2> QED BY <1>1, <2>1, EchoFacts
  <1>3. Unterminated'
    <2>1. \A i \in 0..(buffer_index - 1) : keyboard_buffer[i] \in Chars
      BY DEF LineInv, Unterminated
    <2> SUFFICES ASSUME NEW i \in 0..(buffer_index' - 1)
                 PROVE  keyboard_buffer'[i] \in Chars
      BY DEF Unterminated
    <2>2. CASE buffer_index < KEYBOARD_BUFFER_SIZE - 1
      <3>1. /\ keyboard_buffer' = [keyboard_buffer EXCEPT ![buffer_index] = ch]
            /\ buffer_index' = buffer_index + 1
        BY <1>1, <2>2 DEF StoreChar
      <3>2. i \in 0..(KEYBOARD_BUFFER_SIZE - 1) BY <2>2, <3>1, Sizes DEF TypeOK
      <3>3. i # buffer_index => i \in 0..(buffer_index - 1)
        BY <3>1, Sizes DEF TypeOK
      <3> QED BY <2>1, <3>1, <3>2, <3>3 DEF TypeOK
    <2>3. CASE ~(buffer_index < KEYBOARD_BUFFER_SIZE - 1)
      BY <1>1, <2>1, <2>3 DEF StoreChar
    <2> QED BY <2>2, <2>3
  <1>4. CASE UNCHANGED <<cursor_row, cursor_col>> /\ ~(cursor_row < VGA_HEIGHT - 1)
    <2>1. Here' = Here BY <1>4 DEF Here
    <2>2. Shown' = Shown
      <3>1. \A i \in 1..(Here - start) : start + i - 1 \in start..(Here - 1)
        BY CursorFacts
      <3> QED BY <1>1, <1>2, <2>1, <3>1 DEF Shown
    <2>3. Place' BY <1>1, <1>4, <2>1 DEF LineInv, Place
    <2>4. Agreement' BY <1>4 DEF Agreement
    <2> QED BY <1>1, <1>3, <2>2, <2>3, <2>4
            DEF LineInv, Quiet, Place, Terminated, Copying
  <1>5. CASE /\ Here' = Here + 1
             /\ \/ cursor_row' = cursor_row /\ cursor_col' = cursor_col + 1
                \/ /\ cursor_row' = cursor_row + 1 /\ cursor_col' = 0
                   /\ cursor_col = VGA_WIDTH - 1
             /\ cursor_col' < VGA_WIDTH
    <2> DEFINE n == Here - start
    <2>1. n \in Nat BY ShownFacts
    <2>2. start + n = Here /\ Here' - start' = n + 1
      BY <1>1, <1>5, CursorFacts
    <2>3. framebuffer'[Here] = ch BY <1>1, EchoFacts
    <2>4. Shown' = Append(Shown, ch)
      <3>1. Shown \in Seq(Chars) /\ Len(Shown) = n BY ShownFacts
      <3>2. Shown' = [i \in 1..(n + 1) |-> framebuffer'[start + i - 1]]
        BY <1>1, <2>2 DEF Shown
      <3>3. \A i \in 1..n : framebuffer'[start + i - 1] = Shown[i]
        <4> TAKE i \in 1..n
        <4>1. start + i - 1 \in start..(Here - 1) BY <2>1, CursorFacts
        <4> QED BY <4>1, <1>2, ShownFacts
      <3>4. start + (n + 1) - 1 = Here BY <2>1, <2>2, CursorFacts
      <3>5. framebuffer'[start + (n + 1) - 1] = ch BY <2>3, <3>4
      <3>6. Append(Shown, ch) = [i \in 1..(n + 1) |-> IF i = n + 1 THEN ch ELSE Shown[i]]
        <4> HIDE DEF n
        <4> QED BY <3>1, AppendFacts
      <3>7. \A i \in 1..(n + 1) :
              framebuffer'[start + i - 1] = IF i = n + 1 THEN ch ELSE Shown[i]
        <4> TAKE i \in 1..(n + 1)
        <4>1. i = n + 1 \/ i \in 1..n BY <2>1
        <4> QED BY <4>1, <3>3, <3>5, <2>1
      <3> QED BY <3>2, <3>6, <3>7
    <2>5. Place'
      <3>1. start' =< Here' BY <1>1, <1>5, CursorFacts DEF LineInv, Place
      <3>2. start' =< Cell(cursor_row', cursor_col_threshold')
        <4>1. start =< Cell(cursor_row, cursor_col_threshold)
          BY DEF LineInv, Place
        <4>2. /\ Cell(cursor_row + 1, cursor_col_threshold)
                   = Cell(cursor_row, cursor_col_threshold) + VGA_WIDTH
              /\ Cell(cursor_row, cursor_col_threshold) \in Nat
          BY CursorFacts, CellFacts
        <4> QED BY <1>1, <1>5, <4>1, <4>2, CursorFacts, Sizes
      <3>3. \A x \in start'..(Here' - 1) : x \in Cells
        <4>1. start' = start /\ Here' = Here + 1 BY <1>1, <1>5
        <4>2. \A x \in start..(Here + 1 - 1) : x = Here \/ x \in start..(Here - 1)
          BY CursorFacts
        <4>3. \A x \in start..(Here - 1) : x \in Cells BY DEF LineInv, Place
        <4>4. Here \in Cells BY CursorFacts
        <4>5. \A x \in start..(Here + 1 - 1) : x \in Cells BY <4>2, <4>3, <4>4
        <4>6. start'..(Here' - 1) = start..(Here + 1 - 1) BY <4>1, CursorFacts
        <4> QED BY <4>5, <4>6
      <3> QED BY <1>1, <1>5, <3>1, <3>2, <3>3 DEF LineInv, Place
    <2>6. Agreement'
      <3> SUFFICES ASSUME cursor_row' < VGA_HEIGHT - 1 PROVE Agreement'
        BY DEF Agreement
      <3>1. cursor_row < VGA_HEIGHT - 1
        BY <1>5, CursorFacts, Sizes
      <3>2. /\ buffer_index \in Nat /\ buffer_index =< n
            /\ buffer_index < n =>
                 buffer_index >= KEYBOARD_BUFFER_SIZE - VGA_WIDTH + cursor_col
            /\ \A i \in 0..(buffer_index - 1) :
                 i < InputSize => keyboard_buffer[i] = framebuffer[start + i]
        BY <3>1, Sizes DEF LineInv, Agreement, TypeOK
      <3>3. \A i \in 0..(buffer_index - 1) :
              i < InputSize => keyboard_buffer[i] = framebuffer'[start + i]
        <4> TAKE i \in 0..(buffer_index - 1)
        <4>1. start + i \in start..(Here - 1) BY <2>1, <3>2, CursorFacts
        <4> QED BY <4>1, <3>2, <1>2
      <3>4. CASE buffer_index < KEYBOARD_BUFFER_SIZE - 1
        <4>1. /\ keyboard_buffer' = [keyboard_buffer EXCEPT ![buffer_index] = ch]
              /\ buffer_index' = buffer_index + 1
          BY <1>1, <3>4 DEF StoreChar
        <4>2. buffer_index' =< Here' - start' BY <2>1, <2>2, <3>2, <4>1
        <4>3. buffer_index' < Here' - start' =>
                buffer_index' >= KEYBOARD_BUFFER_SIZE - VGA_WIDTH + cursor_col'
          BY <1>5, <2>1, <2>2, <3>2, <4>1, CursorFacts, Sizes
        <4>4. \A i \in 0..(buffer_index' - 1) :
                i < InputSize => keyboard_buffer'[i] = framebuffer'[start' + i]
          <5> SUFFICES ASSUME NEW i \in 0..buffer_index, i < InputSize
                       PROVE  keyboard_buffer'[i] = framebuffer'[start + i]
            BY <1>1, <3>2, <4>1
          <5>1. CASE i = buffer_index
            <6>1. keyboard_buffer'[i] = ch BY <4>1, <5>1 DEF TypeOK
            <6>2. buffer_index = n
              BY <3>2, <5>1, CursorFacts, Sizes
            <6> QED BY <2>2, <2>3, <5>1, <6>1, <6>2
          <5>2. CASE i # buffer_index
            <6>1. i \in 0..(buffer_index - 1) BY <3>2, <5>2
            <6>2. i \in 0..(KEYBOARD_BUFFER_SIZE - 1) BY <3>2, <3>4, <5>2, Sizes
            <6> QED BY <3>3, <4>1, <6>1, <6>2 DEF TypeOK
          <5> QED BY <5>1, <5>2
        <4> QED BY <4>2, <4>3, <4>4 DEF Agreement
      <3>5. CASE ~(buffer_index < KEYBOARD_BUFFER_SIZE - 1)
        <4>1. UNCHANGED <<keyboard_buffer, buffer_index>>
          BY <1>1, <3>5 DEF StoreChar
        <4>2. buffer_index = KEYBOARD_BUFFER_SIZE - 1 BY <3>5, Sizes DEF TypeOK
        <4>3. buffer_index' >= KEYBOARD_BUFFER_SIZE - VGA_WIDTH + cursor_col'
          BY <1>5, <4>1, <4>2, CursorFacts, Sizes
        <4>4. buffer_index' =< Here' - start' BY <2>1, <2>2, <3>2, <4>1
        <4> QED BY <1>1, <3>3, <4>1, <4>3, <4>4 DEF Agreement
      <3> QED BY <3>4, <3>5
    <2> QED BY <1>1, <1>3, <2>4, <2>5, <2>6
            DEF LineInv, Quiet, Place, Terminated, Copying
  <1> QED BY <1>1, <1>4, <1>5, AdvanceFacts

\* What one key can do to a line that is being read.
Edited ==
  \/ keyboard_input_on' /\ Shown' = Shown
  \/ keyboard_input_on' /\ \E ch \in Chars : Shown' = Append(Shown, ch)
  \/ /\ keyboard_input_on' /\ Shown # << >>
     /\ Shown' = SubSeq(Shown, 1, Len(Shown) - 1)
  \/ /\ ~keyboard_input_on'
     /\ Stored' = SubSeq(Shown, 1, IF Len(Shown) < InputSize
                                   THEN Len(Shown) ELSE InputSize)

LEMMA LineIsr ==
  ASSUME TypeOK, TypeOK', LineInv, NEW key \in Keys, KeyboardIsr(key)
  PROVE  /\ LineInv'
         /\ keyboard_input_on => Edited
  <1>1. CASE keyboard_input_on
    <2>1. Press(key) /\ Rest BY <1>1 DEF KeyboardIsr, Rest
    <2>2. CASE key = Unmapped
      <3>1. PressUnmapped BY <2>1, <2>2, KeysDiffer DEF Press
      <3> QED BY <1>1, <2>1, <3>1, LineUnmapped DEF Edited
    <2>3. CASE key = Backspace
      <3>1. PressBackspace BY <2>1, <2>3, KeysDiffer DEF Press
      <3> QED BY <1>1, <2>1, <3>1, LineBackspace DEF Edited
    <2>4. CASE key = Newline
      <3>1. PressEnter BY <2>1, <2>4, KeysDiffer DEF Press
      <3> QED BY <1>1, <2>1, <3>1, LineEnter DEF Edited
    <2>5. CASE key \in Chars
      <3>1. PressChar(key) BY <2>1, <2>5, KeysDiffer DEF Press
      <3> QED BY <1>1, <2>1, <2>5, <3>1, LineChar DEF Edited
    <2> QED BY <2>2, <2>3, <2>4, <2>5 DEF Keys
  <1>2. CASE ~keyboard_input_on
    <2>1. /\ buffer_index' = 0
          /\ UNCHANGED <<keyboard_input_on, keyboard_buffer, cursor_row, cursor_col>>
          /\ UNCHANGED <<cursor_col_threshold, call, input, start>>
      BY <1>2 DEF KeyboardIsr, cursor
    <2> QED BY <1>2, <2>1 DEF LineInv, Quiet, Place, Agreement, Unterminated,
                              Terminated, Copying
  <1> QED BY <1>1, <1>2

-----------------------------------------------------------------------------
(* The other actions.                                                      *)

LEMMA LinePuts ==
  ASSUME TypeOK, TypeOK', LineInv, NEW text \in Texts, Puts(text)
  PROVE  LineInv'
  <1>1. call = "user" /\ UNCHANGED <<keyboard_input_on, buffer_index, call>>
    BY DEF Puts, driver
  <1>2. ~keyboard_input_on BY <1>1 DEF LineInv, Place
  <1>3. cursor_col' = cursor_col_threshold' /\ cursor_col' \in Nat
    BY Sizes DEF Puts, TypeOK, Bytes
  <1> QED BY <1>1, <1>2, <1>3 DEF LineInv, Quiet, Place, Agreement, Unterminated,
                                  Terminated, Copying

LEMMA LineFgets ==
  ASSUME TypeOK, LineInv, Fgets
  PROVE  LineInv' /\ ~keyboard_input_on /\ keyboard_input_on' /\ Shown' = << >>
  <1>1. /\ call = "user" /\ cursor_col < VGA_WIDTH
        /\ call' = "waiting" /\ keyboard_input_on' /\ start' = Here
        /\ UNCHANGED <<buffer_index, keyboard_buffer, cursor_row, cursor_col>>
        /\ UNCHANGED <<cursor_col_threshold, framebuffer, input>>
    BY DEF Fgets, PromptFits, Here, cursor
  <1>2. ~keyboard_input_on BY <1>1 DEF LineInv, Place
  <1>3. /\ buffer_index = 0 /\ cursor_col =< cursor_col_threshold
        /\ cursor_col_threshold < VGA_WIDTH
    BY <1>1, <1>2 DEF LineInv, Quiet
  <1>4. Here' = Here BY <1>1 DEF Here
  <1>5. Place'
    <2>1. Cell(cursor_row, cursor_col_threshold)'
            = Cell(cursor_row, cursor_col_threshold) BY <1>1
    <2>2. Here =< Cell(cursor_row, cursor_col_threshold)
      BY <1>3, CursorFacts, Sizes
    <2>3. start' =< Here' BY <1>1, <1>4, CursorFacts
    <2>4. \A x \in Here..(Here - 1) : x \in Cells BY CursorFacts
    <2>5. start'..(Here' - 1) = Here..(Here - 1) BY <1>1, <1>4, CursorFacts
    <2> QED BY <1>1, <1>3, <2>1, <2>2, <2>3, <2>4, <2>5 DEF Place
  <1>6. Agreement' BY <1>1, <1>3, <1>4, CursorFacts DEF Agreement
  <1>7. Shown' = << >>
    <2>1. Here' - start' = 0 BY <1>1, <1>4, CursorFacts
    <2> QED BY <2>1 DEF Shown
  <1> QED BY <1>1, <1>2, <1>3, <1>5, <1>6, <1>7
          DEF LineInv, Quiet, Unterminated, Terminated, Copying

LEMMA LineNext == TypeOK /\ TypeOK' /\ LineInv /\ [Next]_vars => LineInv'
  <1> SUFFICES ASSUME TypeOK, TypeOK', LineInv, [Next]_vars PROVE LineInv'
    OBVIOUS
  <1> USE DEF LineInv, Quiet, Place, Agreement, Unterminated, Terminated, Copying,
              Here, driver, cursor
  <1>1. CASE \E key \in Keys : KeyboardIsr(key) BY <1>1, LineIsr
  <1>2. CASE \E text \in Texts : Puts(text) BY <1>2, LinePuts
  <1>3. CASE Fgets BY <1>3, LineFgets
  <1>4. CASE LeaveLoop BY <1>4 DEF LeaveLoop
  <1>5. CASE CopyLine BY <1>5 DEF CopyLine
  <1>6. CASE UNCHANGED vars BY <1>6 DEF vars
  <1> QED BY <1>1, <1>2, <1>3, <1>4, <1>5, <1>6 DEF Next

LEMMA LineInvariant == Spec => [](TypeOK /\ LineInv)
  <1> QED BY TypeInit, TypeNext, LineInit, LineNext, PTL DEF Spec

-----------------------------------------------------------------------------
(* The refinement.                                                         *)

\* What Phase and Line are, seen from the driver.
LEMMA MappingFacts ==
  /\ call = "user" => Phase = "idle" /\ Line = << >>
  /\ call # "user" /\ keyboard_input_on => Phase = "reading" /\ Line = Shown
  /\ call # "user" /\ ~keyboard_input_on => Phase = "ended" /\ Line = Stored
  BY DEF Phase, Line

LEMMA MappingFactsPrime ==
  /\ call' = "user" => Phase' = "idle" /\ Line' = << >>
  /\ call' # "user" /\ keyboard_input_on' => Phase' = "reading" /\ Line' = Shown'
  /\ call' # "user" /\ ~keyboard_input_on' => Phase' = "ended" /\ Line' = Stored'
  BY DEF Phase, Line

LEMMA IsrRefines ==
  ASSUME TypeOK, TypeOK', LineInv, NEW key \in Keys, KeyboardIsr(key)
  PROVE  [Reader!Next]_Reader!vars
  <1>1. call' = call /\ input' = input BY DEF KeyboardIsr
  <1>2. CASE keyboard_input_on
    <2>1. call # "user" BY <1>2 DEF LineInv, Place
    <2>2. Phase = "reading" /\ Line = Shown BY <1>2, <2>1, MappingFacts
    <2>3. CASE keyboard_input_on' /\ Shown' = Shown
      BY <1>1, <2>1, <2>2, <2>3, MappingFactsPrime DEF Reader!vars
    <2>4. CASE keyboard_input_on' /\ \E ch \in Chars : Shown' = Append(Shown, ch)
      <3>1. Reader!Type
        BY <1>1, <2>1, <2>2, <2>4, MappingFactsPrime DEF Reader!Type
      <3> QED BY <3>1 DEF Reader!Next
    <2>5. CASE /\ keyboard_input_on' /\ Shown # << >>
               /\ Shown' = SubSeq(Shown, 1, Len(Shown) - 1)
      <3>1. Reader!Erase
        BY <1>1, <2>1, <2>2, <2>5, MappingFactsPrime DEF Reader!Erase
      <3> QED BY <3>1 DEF Reader!Next
    <2>6. CASE /\ ~keyboard_input_on'
               /\ Stored' = SubSeq(Shown, 1, IF Len(Shown) < InputSize
                                             THEN Len(Shown) ELSE InputSize)
      <3>1. Reader!Enter
        BY <1>1, <2>1, <2>2, <2>6, MappingFactsPrime DEF Reader!Enter, Reader!Least
      <3> QED BY <3>1 DEF Reader!Next
    <2> QED BY <1>2, <2>3, <2>4, <2>5, <2>6, LineIsr DEF Edited
  <1>3. CASE ~keyboard_input_on
    <2>1. UNCHANGED <<keyboard_input_on, keyboard_buffer>>
      BY <1>3 DEF KeyboardIsr
    <2>2. Stored' = Stored BY <2>1 DEF Stored
    <2> QED BY <1>1, <1>3, <2>1, <2>2, MappingFacts, MappingFactsPrime
            DEF Reader!vars
  <1> QED BY <1>2, <1>3

\* The copy gives the line, and its terminator if there is room for it.
LEMMA CopyRefines ==
  ASSUME TypeOK, TypeOK', LineInv, CopyLine
  PROVE  Reader!Return
  <1>1. /\ call = "copying" /\ call' = "user" /\ ~keyboard_input_on
        /\ input' = [i \in 1..InputSize |-> keyboard_buffer[i - 1]]
    BY DEF CopyLine, LineInv, Copying
  <1>2. Phase = "ended" /\ Line = Stored /\ Phase' = "idle" /\ Line' = << >>
    BY <1>1, MappingFacts, MappingFactsPrime
  <1>3. PICK n \in 0..(KEYBOARD_BUFFER_SIZE - 1) : IsEnd(keyboard_buffer, n)
    BY <1>1 DEF LineInv, Terminated
  <1> DEFINE k == IF n < InputSize THEN n ELSE InputSize
  <1>4. n \in Nat /\ k \in Nat /\ k =< InputSize BY Sizes
  <1>5. Stored = [i \in 1..k |-> keyboard_buffer[i - 1]]
    <2>1. DOMAIN keyboard_buffer = 0..(KEYBOARD_BUFFER_SIZE - 1) BY DEF TypeOK
    <2> QED BY <1>3, <2>1, EndIsUnique DEF Stored
  <1>6. \A i \in 1..k : keyboard_buffer[i - 1] \in Chars \cup {Nul}
    <2> TAKE i \in 1..k
    <2>1. i - 1 \in 0..(KEYBOARD_BUFFER_SIZE - 1) BY <1>4, Sizes
    <2> QED BY <2>1 DEF TypeOK
  <1> HIDE DEF k
  <1>7. Stored \in Seq(Chars \cup {Nul}) /\ Len(Stored) = k
    BY <1>4, <1>5, <1>6
  <1>8. \A i \in 1..k : input'[i] = Stored[i]
    <2> TAKE i \in 1..k
    <2>1. i \in 1..InputSize BY <1>4, Sizes
    <2> QED BY <1>1, <1>5, <2>1
  <1>9. SubSeq(input', 1, Len(Stored)) = Stored
    <2>1. \A i \in 1..k : input'[i] \in Chars \cup {Nul} BY <1>5, <1>6, <1>8
    <2>2. /\ SubSeq(input', 1, k) \in Seq(Chars \cup {Nul})
          /\ Len(SubSeq(input', 1, k)) = IF 1 =< k THEN k - 1 + 1 ELSE 0
          /\ \A i \in 1..(k - 1 + 1) : SubSeq(input', 1, k)[i] = input'[1 + i - 1]
      BY <1>4, <2>1, SubSeqProperties
    <2>3. Len(SubSeq(input', 1, k)) = k BY <1>4, <2>2
    <2>4. \A i \in 1..k : SubSeq(input', 1, k)[i] = Stored[i]
      <3> TAKE i \in 1..k
      <3>1. i \in 1..(k - 1 + 1) /\ 1 + i - 1 = i BY <1>4
      <3> QED BY <1>8, <2>2, <3>1
    <2> QED BY <1>7, <2>2, <2>3, <2>4, SeqEqual
  <1>10. Len(Stored) < InputSize => input'[Len(Stored) + 1] = Nul
    <2> SUFFICES ASSUME k < InputSize PROVE input'[k + 1] = Nul BY <1>7
    <2>1. k = n BY <1>4, Sizes DEF k
    <2>2. n + 1 \in 1..InputSize /\ n + 1 - 1 = n BY <1>4, <2>1, Sizes
    <2>3. keyboard_buffer[n] = Nul BY <1>3 DEF IsEnd
    <2>4. \A i \in 1..InputSize : input'[i] = keyboard_buffer[i - 1] BY <1>1
    <2>5. input'[n + 1] = keyboard_buffer[n] BY <2>2, <2>4
    <2> QED BY <2>1, <2>3, <2>5
  <1>11. input' \in [1..InputSize -> Chars \cup {Nul}] BY DEF TypeOK
  <1> QED BY <1>2, <1>9, <1>10, <1>11 DEF Reader!Return

LEMMA NextRefines ==
  TypeOK /\ TypeOK' /\ LineInv /\ [Next]_vars => [Reader!Next]_Reader!vars
  <1> SUFFICES ASSUME TypeOK, TypeOK', LineInv, [Next]_vars
               PROVE  [Reader!Next]_Reader!vars
    OBVIOUS
  <1>1. CASE \E key \in Keys : KeyboardIsr(key) BY <1>1, IsrRefines
  <1>2. CASE \E text \in Texts : Puts(text)
    <2>1. call = "user" /\ call' = "user" /\ input' = input BY <1>2 DEF Puts
    <2> QED BY <2>1, MappingFacts, MappingFactsPrime DEF Reader!vars
  <1>3. CASE Fgets
    <2>1. call = "user" /\ call' = "waiting" /\ input' = input BY <1>3 DEF Fgets
    <2>2. keyboard_input_on' /\ Shown' = << >> BY <1>3, LineFgets
    <2>3. Reader!Begin
      BY <2>1, <2>2, MappingFacts, MappingFactsPrime DEF Reader!Begin
    <2> QED BY <2>3 DEF Reader!Next
  <1>4. CASE LeaveLoop
    <2>1. /\ call = "waiting" /\ call' = "copying" /\ ~keyboard_input_on
          /\ UNCHANGED <<keyboard_input_on, keyboard_buffer, input>>
      BY <1>4 DEF LeaveLoop, driver
    <2>2. Stored' = Stored BY <2>1 DEF Stored
    <2> QED BY <2>1, <2>2, MappingFacts, MappingFactsPrime DEF Reader!vars
  <1>5. CASE CopyLine BY <1>5, CopyRefines DEF Reader!Next
  <1>6. CASE UNCHANGED vars
    <2>1. /\ UNCHANGED <<keyboard_input_on, keyboard_buffer, call, input, start>>
          /\ UNCHANGED <<cursor_row, cursor_col, framebuffer>>
      BY <1>6 DEF vars, driver, cursor
    <2> QED BY <2>1 DEF Reader!vars, Phase, Line, Shown, Stored, Here
  <1> QED BY <1>1, <1>2, <1>3, <1>4, <1>5, <1>6 DEF Next

LEMMA InitRefines == Init => Reader!Init
  BY DEF Init, Reader!Init, Phase, Line

\* What the shell gets from system call 4 is what the screen showed when Enter
\* was pressed: keyboard_isr and the copy implement the abstract line reader.
THEOREM LineDelivered == Spec => ShownIsDelivered
  <1> QED BY LineInvariant, InitRefines, NextRefines, TypeNext, PTL
          DEF Spec, ShownIsDelivered, Reader!Spec

LEMMA PromptNext ==
  TypeOK /\ LineInv /\ [Next]_vars =>
    [call = "waiting" =>
       \A c \in Cells : c < start => framebuffer'[c] = framebuffer[c]]_vars
  <1> SUFFICES ASSUME TypeOK, LineInv, Next, call = "waiting",
                      NEW c \in Cells, c < start
               PROVE  framebuffer'[c] = framebuffer[c]
    OBVIOUS
  <1>1. CASE \E key \in Keys : KeyboardIsr(key)
    <2> PICK key \in Keys : KeyboardIsr(key) BY <1>1
    <2>1. CASE keyboard_input_on
      <3>1. c # Here BY <2>1, CellsAreNat, CursorFacts DEF LineInv, Place
      <3>2. (\E ch : Echo(ch)) \/ framebuffer' = framebuffer
        BY <2>1 DEF KeyboardIsr, Press, PressUnmapped, PressBackspace, PressEnter,
                    PressChar
      <3> QED BY <3>1, <3>2, EchoFacts
    <2>2. CASE ~keyboard_input_on BY <2>2 DEF KeyboardIsr
    <2> QED BY <2>1, <2>2
  <1>2. CASE \E text \in Texts : Puts(text) BY <1>2 DEF Puts
  <1>3. CASE Fgets BY <1>3 DEF Fgets
  <1>4. CASE LeaveLoop BY <1>4 DEF LeaveLoop
  <1>5. CASE CopyLine BY <1>5 DEF CopyLine
  <1> QED BY <1>1, <1>2, <1>3, <1>4, <1>5 DEF Next

\* While a line is read, Backspace and echo do not reach the prompt or any
\* other cell in front of the line (keyboard.c:311, 343-358).
THEOREM PromptNeverErased == Spec => PromptKept
  <1> QED BY LineInvariant, PromptNext, PTL DEF Spec, PromptKept

-----------------------------------------------------------------------------
(* The system of module Interrupts: the devices, the interrupt controller  *)
(* and the shell take the steps of Console, in their order and with theirs *)
(* in between, so that what holds of Console holds of them.                *)

LEMMA SystemTypeInit == SystemInit => SystemTypeOK
  <1> SUFFICES ASSUME SystemInit PROVE SystemTypeOK OBVIOUS
  <1>1. irr \subseteq Irqs /\ isr \subseteq Irqs /\ imr \subseteq Irqs
    BY SystemAssumption DEF SystemInit
  <1>2. {irr, isr, imr} \subseteq SUBSET Irqs BY <1>1
  <1>3. scancodes \in Seq(Keys) BY DEF SystemInit
  <1> QED BY <1>2, <1>3, TypeInit DEF SystemInit, SystemTypeOK, CpuSteps

LEMMA ConsoleStep ==
  ASSUME SystemTypeOK, [SystemNext]_systemVars
  PROVE  [Next]_vars
  <1>1. CASE KeyboardInterrupt
    <2>1. PICK key \in IF output_buffer = NoKey THEN Keys ELSE {output_buffer} :
            KeyboardIsr(key)
      BY <1>1 DEF KeyboardInterrupt
    <2>2. key \in Keys BY <2>1 DEF SystemTypeOK
    <2> QED BY <2>1, <2>2 DEF Next
  <1>2. CASE ConsoleCall BY <1>2 DEF ConsoleCall, Next
  <1>3. CASE TakeInterrupt \/ OtherInterrupt
    BY <1>3 DEF TakeInterrupt, OtherInterrupt
  <1>4. CASE Boot
    BY <1>4 DEF Boot, PicRemap, InitializeIdt, ActivateKeyboardInterrupt,
                StartShell
  <1>5. CASE Devices
    BY <1>5 DEF Devices, KeyEvent, FillOutputBuffer, Tick
  <1>6. CASE FileSystemCall \/ FileSystemReturn
    BY <1>6 DEF FileSystemCall, FileSystemReturn
  <1>7. CASE UNCHANGED systemVars BY <1>7 DEF systemVars
  <1> QED BY <1>1, <1>2, <1>3, <1>4, <1>5, <1>6, <1>7 DEF SystemNext, Interrupt

\* What the devices, the controller and the processor keep.
LEMMA SystemTypeStep ==
  ASSUME SystemTypeOK, [SystemNext]_systemVars
  PROVE  SystemTypeOK'
  <1> DEFINE PicOK == irr \subseteq Irqs /\ isr \subseteq Irqs /\ imr \subseteq Irqs
             DeviceOK == scancodes \in Seq(Keys) /\ output_buffer \in Keys \cup {NoKey}
             CpuOK == /\ iflag \in BOOLEAN /\ handler \in Irqs \cup {NoIrq}
                      /\ cpu \in CpuSteps
  <1>1. PicOK /\ DeviceOK /\ CpuOK BY DEF SystemTypeOK
  <1>2. TypeOK' BY ConsoleStep, TypeNext DEF SystemTypeOK
  <1>3. IRQ_KEYBOARD \in Irqs /\ IRQ_TIMER \in Irqs BY DEF Irqs
  <1>4. PicOK' /\ DeviceOK' /\ CpuOK'
    <2>1. ASSUME NEW key \in Keys, KeyEvent(key)
          PROVE  PicOK' /\ DeviceOK' /\ CpuOK'
      BY <1>1, <2>1 DEF KeyEvent, pic
    <2>2. CASE FillOutputBuffer
      <3>1. scancodes # << >> BY <2>2 DEF FillOutputBuffer
      <3>2. Head(scancodes) \in Keys /\ Tail(scancodes) \in Seq(Keys)
        BY <1>1, <3>1, HeadTailProperties
      <3> QED BY <1>1, <1>3, <2>2, <3>2 DEF FillOutputBuffer
    <2>3. CASE Tick BY <1>1, <1>3, <2>3 DEF Tick, device
    <2>4. CASE TakeInterrupt BY <1>1, <2>4 DEF TakeInterrupt, device
    <2>5. CASE KeyboardInterrupt
      BY <1>1, <2>5 DEF KeyboardInterrupt, pic_ack, ReturnFromInterrupt
    <2>6. CASE OtherInterrupt
      BY <1>1, <2>6 DEF OtherInterrupt, ReturnFromInterrupt, pic, device
    <2>7. CASE Boot
      BY <1>1, <1>3, <2>7 DEF Boot, PicRemap, InitializeIdt,
         ActivateKeyboardInterrupt, StartShell, Goes, pic, device, CpuSteps
    <2>8. CASE ConsoleCall BY <1>1, <2>8 DEF ConsoleCall, pic, device
    <2>9. CASE FileSystemCall \/ FileSystemReturn
      BY <1>1, <2>9 DEF FileSystemCall, FileSystemReturn, pic, device, CpuSteps
    <2>10. CASE UNCHANGED systemVars
      BY <1>1, <2>10 DEF systemVars, pic, device
    <2> QED BY <2>1, <2>2, <2>3, <2>4, <2>5, <2>6, <2>7, <2>8, <2>9, <2>10
            DEF SystemNext, Interrupt, Devices
  <1>5. ({irr, isr, imr} \subseteq SUBSET Irqs)' BY <1>4
  <1> QED BY <1>2, <1>4, <1>5 DEF SystemTypeOK

\* The keyboard, the interrupt controller and the boot sequence keep their
\* types: the index of the line buffer stays inside it whenever an interrupt
\* comes, and no other byte than a key is ever handed to keyboard_isr.
THEOREM SystemTypeCorrect == SystemSpec => []SystemTypeOK
  <1> QED BY SystemTypeInit, SystemTypeStep, PTL DEF SystemSpec

\* Interrupts refines Console: whatever the order of ticks, keys, the steps of
\* kernel_setup and system calls, the driver only ever does what Console has
\* it do.
THEOREM SystemImplementsConsole == SystemSpec => Spec
  <1>1. SystemInit => Init BY DEF SystemInit
  <1> QED BY <1>1, SystemTypeInit, SystemTypeStep, ConsoleStep, PTL
          DEF SystemSpec, Spec

\* With interrupts from the devices, the shell still gets the line that the
\* screen showed, and its prompt stays on the screen while it reads
\* (keyboard.c:311-358, interrupt.c:110-119).
THEOREM SystemDeliversLine == SystemSpec => ShownIsDelivered /\ PromptKept
  <1> QED BY SystemImplementsConsole, LineDelivered, PromptNeverErased, PTL

-----------------------------------------------------------------------------
(* A key on its way.  Under fairness KeysServed says that it is read or     *)
(* that the keyboard is blocked; what follows is what that rests on, without *)
(* the fairness and whenever keys come: where the keyboard gets blocked, and *)
(* that otherwise each interrupt brings the key closer.                      *)

\* What the interrupt routines leave behind: only a tick stays in service.
HandlerInv ==
  /\ cpu \in {"masked", "run", "filesystem"} => imr = {IRQ_TIMER}
  /\ iflag <=> handler = NoIrq /\ cpu \in {"idt", "masked", "run"}
  /\ handler # NoIrq => cpu \in {"idt", "masked", "run"}
  /\ isr \in {{}, {IRQ_TIMER}, {IRQ_KEYBOARD}}
  /\ IRQ_KEYBOARD \in isr <=> handler = IRQ_KEYBOARD
  /\ handler = IRQ_TIMER => IRQ_TIMER \in isr
  /\ cpu \in {"loader", "remapped"} => isr = {}
  /\ IRQ_KEYBOARD \in irr \/ handler = IRQ_KEYBOARD => output_buffer # NoKey
  /\ ~(IRQ_KEYBOARD \in irr /\ handler = IRQ_KEYBOARD)

LEMMA IrqFacts ==
  /\ IRQ_TIMER = 0 /\ IRQ_KEYBOARD = 1 /\ NoIrq = -1
  /\ Irqs = {0, 1} /\ Irqs \ {IRQ_KEYBOARD} = {IRQ_TIMER}
  /\ \A key \in Keys : key # NoKey
  <1>1. IRQ_TIMER = 0 /\ IRQ_KEYBOARD = 1 /\ NoIrq = -1 /\ Irqs = {0, 1}
    BY DEF IRQ_TIMER, IRQ_KEYBOARD, NoIrq, Irqs
  <1>2. \A key \in Keys : key # NoKey
    BY SystemAssumption DEF Keys, Chars, Blank, Newline, Backspace, Unmapped, NoKey
  <1> QED BY <1>1, <1>2

LEMMA HandlerInit == SystemInit => HandlerInv
  BY IrqFacts DEF SystemInit, HandlerInv

LEMMA HandlerStep ==
  ASSUME SystemTypeOK, HandlerInv, [SystemNext]_systemVars
  PROVE  HandlerInv'
  <1> USE IrqFacts
  <1>1. CASE TakeInterrupt
    <2>1. PICK irq \in Irqs : /\ Pending(irq) /\ isr' = isr \cup {irq}
                              /\ handler' = irq
      BY <1>1 DEF TakeInterrupt
    <2>2. isr = {} \/ (isr = {IRQ_TIMER} /\ FALSE)
      BY <1>1, <2>1 DEF HandlerInv, TakeInterrupt, Pending
    <2> QED BY <1>1, <2>1, <2>2 DEF HandlerInv, TakeInterrupt, Pending, device
  <1>2. CASE KeyboardInterrupt
    BY <1>2 DEF HandlerInv, KeyboardInterrupt, pic_ack, ReturnFromInterrupt
  <1>3. CASE OtherInterrupt
    BY <1>3 DEF HandlerInv, OtherInterrupt, ReturnFromInterrupt, pic, device,
                SystemTypeOK
  <1>4. CASE Boot
    BY <1>4 DEF HandlerInv, Boot, PicRemap, InitializeIdt,
                ActivateKeyboardInterrupt, StartShell, Goes, pic, device
  <1>5. CASE Devices
    <2>1. ASSUME NEW key \in Keys, KeyEvent(key) PROVE HandlerInv'
      BY <2>1 DEF HandlerInv, KeyEvent, pic
    <2>2. CASE FillOutputBuffer
      <3>1. scancodes # << >> /\ output_buffer = NoKey
        BY <2>2 DEF FillOutputBuffer
      <3>2. Head(scancodes) \in Keys
        BY <3>1, HeadTailProperties DEF SystemTypeOK
      <3>3. output_buffer' # NoKey BY <2>2, <3>2 DEF FillOutputBuffer
      <3>4. handler # IRQ_KEYBOARD BY <3>1 DEF HandlerInv
      <3> QED BY <2>2, <3>3, <3>4 DEF HandlerInv, FillOutputBuffer
    <2>3. CASE Tick BY <2>3 DEF HandlerInv, Tick, device
    <2> QED BY <1>5, <2>1, <2>2, <2>3 DEF Devices
  <1>6. CASE ConsoleCall \/ FileSystemCall \/ FileSystemReturn
    BY <1>6 DEF HandlerInv, ConsoleCall, FileSystemCall, FileSystemReturn,
                Goes, pic, device
  <1>7. CASE UNCHANGED systemVars BY <1>7 DEF HandlerInv, systemVars, pic, device
  <1> QED BY <1>1, <1>2, <1>3, <1>4, <1>5, <1>6, <1>7 DEF SystemNext, Interrupt

\* The steps that have nothing to do with a key in the controller.
LEMMA OtherSteps ==
  ASSUME output_buffer # NoKey,
         \/ Devices \/ ConsoleCall \/ FileSystemCall \/ FileSystemReturn
         \/ InitializeIdt \/ ActivateKeyboardInterrupt \/ StartShell
         \/ UNCHANGED systemVars
  PROVE  /\ UNCHANGED <<output_buffer, isr, handler>>
         /\ irr' = irr \/ irr' = irr \cup {IRQ_TIMER}
  BY DEF Devices, KeyEvent, FillOutputBuffer, Tick, ConsoleCall, FileSystemCall,
         FileSystemReturn, InitializeIdt, ActivateKeyboardInterrupt, StartShell,
         systemVars, device, pic

\* The interrupts that are left until a key is read from the controller; none
\* when there is no key, and none when the keyboard is blocked.
KeyDelay ==
  IF output_buffer = NoKey \/ Blocked THEN 0
  ELSE IF handler = IRQ_KEYBOARD THEN 1 ELSE 2

\* Once the controller is set up, and but for a file system call, the interrupt
\* that is left can be taken.
KeyGuard ==
  KeyDelay = 2 /\ cpu \in {"masked", "run"} =>
    iflag /\ handler = NoIrq /\ Pending(IRQ_KEYBOARD)

KeyCloser ==
  KeyDelay # 0 => KeyDelay' =< KeyDelay /\ (Interrupt => KeyDelay' < KeyDelay)

LEMMA KeyGuarded == SystemTypeOK /\ HandlerInv => KeyGuard
  <1> SUFFICES ASSUME SystemTypeOK, HandlerInv, KeyDelay = 2,
                      cpu \in {"masked", "run"}
               PROVE  iflag /\ handler = NoIrq /\ Pending(IRQ_KEYBOARD)
    BY DEF KeyGuard
  <1> USE IrqFacts
  <1>1. output_buffer # NoKey /\ ~Lost /\ IRQ_TIMER \notin isr /\ handler # IRQ_KEYBOARD
    BY DEF KeyDelay, Blocked
  <1>2. handler = NoIrq
    BY <1>1 DEF HandlerInv, SystemTypeOK
  <1>3. imr = {IRQ_TIMER} /\ iflag /\ isr = {}
    BY <1>1, <1>2 DEF HandlerInv
  <1>4. irr \subseteq Irqs /\ IRQ_KEYBOARD \in irr
    BY <1>1 DEF SystemTypeOK, Lost
  <1> QED BY <1>2, <1>3, <1>4 DEF Pending

\* What a tick needs to get into service.
LEMMA TickTaken ==
  ASSUME HandlerInv, TakeInterrupt, handler' = IRQ_TIMER
  PROVE  cpu = "idt"
  BY IrqFacts DEF HandlerInv, TakeInterrupt, Pending

LEMMA KeyComesCloser ==
  ASSUME SystemTypeOK, HandlerInv, [SystemNext]_systemVars
  PROVE  KeyCloser
  <1> USE IrqFacts
  <1> SUFFICES ASSUME KeyDelay # 0
               PROVE  KeyDelay' =< KeyDelay /\ (Interrupt => KeyDelay' < KeyDelay)
    BY DEF KeyCloser
  <1>1. output_buffer # NoKey /\ ~Lost /\ IRQ_TIMER \notin isr
    BY DEF KeyDelay, Blocked
  <1>2. CASE TakeInterrupt
    <2>1. /\ handler = NoIrq /\ UNCHANGED device /\ isr' = isr \cup {handler'}
          /\ handler' \in Irqs
      BY <1>2 DEF TakeInterrupt
    <2>2. KeyDelay = 2
      BY <1>1, <2>1 DEF KeyDelay, Blocked
    <2>3. CASE handler' = IRQ_TIMER
      BY <2>1, <2>2, <2>3 DEF KeyDelay, Blocked
    <2>4. CASE handler' = IRQ_KEYBOARD
      BY <1>1, <2>1, <2>2, <2>4 DEF KeyDelay, Blocked, Lost, device
    <2> QED BY <2>1, <2>3, <2>4
  <1>3. CASE KeyboardInterrupt
    <2>1. /\ handler = IRQ_KEYBOARD /\ handler' # IRQ_KEYBOARD
          /\ irr' = irr /\ (output_buffer' = NoKey \/ output_buffer' = output_buffer)
      BY <1>3 DEF KeyboardInterrupt, ReturnFromInterrupt
    <2>2. KeyDelay = 1
      BY <1>1, <2>1 DEF KeyDelay, Blocked
    <2>3. KeyDelay' \in {0, 2}
      BY <2>1 DEF KeyDelay
    <2>4. output_buffer' # NoKey => Lost'
      BY <1>1, <2>1 DEF Lost, HandlerInv
    <2> QED BY <2>2, <2>4 DEF KeyDelay, Blocked
  <1>4. CASE OtherInterrupt
    BY <1>1, <1>4 DEF OtherInterrupt, HandlerInv, SystemTypeOK
  <1>5. CASE PicRemap
    <2>1. UNCHANGED <<output_buffer, handler>> /\ irr' = {} /\ cpu = "loader"
      BY <1>5 DEF PicRemap, Goes, device
    <2>2. handler = NoIrq
      BY <1>5 DEF PicRemap, Goes
    <2>3. KeyDelay' = 0 /\ KeyDelay = 2
      BY <1>1, <2>1, <2>2 DEF KeyDelay, Blocked, Lost
    <2>4. ~Interrupt
      BY <2>1, <2>2 DEF Interrupt, TakeInterrupt, KeyboardInterrupt, OtherInterrupt,
             ReturnFromInterrupt, HandlerInv
    <2> QED BY <2>3, <2>4
  <1>6. CASE \/ Devices \/ ConsoleCall \/ FileSystemCall \/ FileSystemReturn
             \/ InitializeIdt \/ ActivateKeyboardInterrupt \/ StartShell
             \/ UNCHANGED systemVars
    <2>1. /\ UNCHANGED <<output_buffer, isr, handler>>
          /\ irr' = irr \/ irr' = irr \cup {IRQ_TIMER}
      BY <1>1, <1>6, OtherSteps
    <2>2. KeyDelay' = KeyDelay
      BY <2>1 DEF KeyDelay, Blocked, Lost
    <2>3. Interrupt => handler' # handler
      BY DEF Interrupt, TakeInterrupt, KeyboardInterrupt, OtherInterrupt,
             ReturnFromInterrupt
    <2> QED BY <2>1, <2>2, <2>3 DEF KeyDelay
  <1> QED BY <1>2, <1>3, <1>4, <1>5, <1>6 DEF SystemNext, Interrupt, Boot

LEMMA BlockedStep ==
  ASSUME SystemTypeOK, HandlerInv, [SystemNext]_systemVars
  PROVE  /\ Blocked => Blocked'
         /\ ~Blocked /\ Blocked' =>
              \/ cpu = "loader" /\ cpu' = "remapped"
              \/ cpu = "idt" /\ handler' = IRQ_TIMER
              \/ handler = IRQ_KEYBOARD /\ ~keyboard_input_on
  <1> USE IrqFacts
  <1>1. CASE TakeInterrupt
    <2>1. /\ handler = NoIrq /\ UNCHANGED device /\ isr' = isr \cup {handler'}
          /\ handler' \in irr /\ irr' = irr \ {handler'} /\ handler' \in Irqs
      BY <1>1 DEF TakeInterrupt, Pending
    <2>2. CASE handler' = IRQ_TIMER
      BY <1>1, <2>1, <2>2, TickTaken DEF Blocked
    <2>3. CASE handler' = IRQ_KEYBOARD
      BY <2>1, <2>3 DEF Blocked, Lost, device
    <2> QED BY <2>1, <2>2, <2>3
  <1>2. CASE KeyboardInterrupt
    <2>1. /\ handler = IRQ_KEYBOARD /\ irr' = irr
          /\ output_buffer' = IF keyboard_input_on THEN NoKey ELSE output_buffer
      BY <1>2 DEF KeyboardInterrupt
    <2>2. isr = {IRQ_KEYBOARD} /\ isr' = {}
      BY <1>2, <2>1 DEF HandlerInv, KeyboardInterrupt, pic_ack
    <2> QED BY <2>1, <2>2 DEF Blocked, Lost
  <1>3. CASE OtherInterrupt
    BY <1>3 DEF OtherInterrupt, ReturnFromInterrupt, HandlerInv, SystemTypeOK,
                Blocked, Lost, pic, device
  <1>4. CASE PicRemap
    <2>1. /\ cpu = "loader" /\ cpu' = "remapped" /\ isr = {} /\ irr' = {}
          /\ UNCHANGED <<output_buffer, handler>>
      BY <1>4 DEF PicRemap, Goes, HandlerInv, device
    <2> QED BY <2>1 DEF Blocked, Lost
  <1>5. CASE \/ Devices \/ ConsoleCall \/ FileSystemCall \/ FileSystemReturn
             \/ InitializeIdt \/ ActivateKeyboardInterrupt \/ StartShell
             \/ UNCHANGED systemVars
    <2>1. CASE output_buffer # NoKey
      <3>1. /\ UNCHANGED <<output_buffer, isr, handler>>
            /\ irr' = irr \/ irr' = irr \cup {IRQ_TIMER}
        BY <1>5, <2>1, OtherSteps
      <3> QED BY <3>1 DEF Blocked, Lost
    <2>2. CASE output_buffer = NoKey
      <3>1. isr' = isr /\ (output_buffer' = NoKey \/ IRQ_KEYBOARD \in irr')
        BY <1>5, <2>2 DEF Devices, KeyEvent, FillOutputBuffer, Tick, ConsoleCall,
           FileSystemCall, FileSystemReturn, InitializeIdt,
           ActivateKeyboardInterrupt, StartShell, systemVars, device, pic
      <3> QED BY <2>2, <3>1 DEF Blocked, Lost
    <2> QED BY <2>1, <2>2
  <1> QED BY <1>1, <1>2, <1>3, <1>4, <1>5 DEF SystemNext, Interrupt, Boot

LEMMA KeysInvariant == SystemSpec => [](SystemTypeOK /\ HandlerInv)
  <1>1. SystemInit => SystemTypeOK /\ HandlerInv
    BY SystemTypeInit, HandlerInit
  <1>2. SystemTypeOK /\ HandlerInv /\ [SystemNext]_systemVars
          => (SystemTypeOK /\ HandlerInv)'
    BY SystemTypeStep, HandlerStep
  <1> QED BY <1>1, <1>2, PTL DEF SystemSpec

\* Whenever keys come: there are three places where the keyboard gets blocked
\* (pic_remap, a tick between idt.c:24 and kernel.c:16, keyboard.c:298), and
\* then it stays so.
THEOREM KeyboardBlocked == SystemSpec => BlockedOnlyThere
  <1>1. SystemTypeOK /\ HandlerInv /\ [SystemNext]_systemVars
          => [/\ Blocked => Blocked'
              /\ ~Blocked /\ Blocked' =>
                   \/ cpu = "loader" /\ cpu' = "remapped"
                   \/ cpu = "idt" /\ handler' = IRQ_TIMER
                   \/ handler = IRQ_KEYBOARD /\ ~keyboard_input_on]_systemVars
    BY BlockedStep
  <1> QED BY <1>1, KeysInvariant, PTL DEF SystemSpec, BlockedOnlyThere

\* Whenever keys come: a key in the controller is one or two interrupts away
\* from being read or from a keyboard that is blocked, which KeyboardBlocked is
\* about; each interrupt brings it closer, no other step sets it back, and
\* while the shell runs the next one can be taken.
THEOREM KeysComeCloser == SystemSpec => []KeyGuard /\ [][KeyCloser]_systemVars
  <1>1. SystemTypeOK /\ HandlerInv => KeyGuard
    BY KeyGuarded
  <1>2. SystemTypeOK /\ HandlerInv /\ [SystemNext]_systemVars
          => [KeyCloser]_systemVars
    BY KeyComesCloser
  <1> QED BY <1>1, <1>2, KeysInvariant, PTL DEF SystemSpec
=============================================================================
