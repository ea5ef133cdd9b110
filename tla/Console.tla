-------------------------------- MODULE Console --------------------------------
(***************************************************************************)
(* The keyboard driver (keyboard.c), the screen it echoes to               *)
(* (framebuffer.c) and the two system calls that use them: case 4, which   *)
(* waits for a line, and case 5, which prints a text.                      *)
(*                                                                         *)
(* Here a key is an event that reaches keyboard_isr at once; how it gets   *)
(* there is the matter of module Interrupts.  A key is named by what       *)
(* keyboard_scancode_1_to_ascii_map makes of its scancode.                 *)
(*                                                                         *)
(* call: user     the shell runs                                           *)
(*       waiting  in the loop of case 4, interrupts on                     *)
(*       copying  between that loop and the copy to the shell              *)
(***************************************************************************)
EXTENDS Integers, Sequences, FiniteSets

CONSTANTS
  VGA_WIDTH, VGA_HEIGHT, KEYBOARD_BUFFER_SIZE,
  UINT8,        \* the number of values of a uint8_t
  InputSize,    \* the bytes that the shell asks for, user-shell.c:226
  Glyphs,       \* the characters other than blank that keys and texts have
  Texts         \* what the shell prints

Blank == " "
Chars == Glyphs \cup {Blank}
Newline == "newline"
Backspace == "backspace"
Unmapped == "unmapped"      \* releases, and keys without a character
Nul == "nul"
Keys == Chars \cup {Newline, Backspace, Unmapped}

\* The last conjunct holds with 80 columns, 256 and 26 bytes.
ASSUME ConsoleAssumption ==
  /\ {VGA_WIDTH, VGA_HEIGHT, KEYBOARD_BUFFER_SIZE, InputSize} \subseteq Nat \ {0}
  /\ UINT8 \in Nat
  /\ VGA_WIDTH < UINT8 /\ VGA_HEIGHT < UINT8 /\ KEYBOARD_BUFFER_SIZE =< UINT8
  /\ Glyphs \cap {Blank, Newline, Backspace, Unmapped, Nul} = {}
  /\ Texts \subseteq Seq(Chars \cup {Newline})
  /\ InputSize + VGA_WIDTH =< KEYBOARD_BUFFER_SIZE

Bytes == 0..(UINT8 - 1)
Inc(b) == (b + 1) % UINT8

\* The cell that row and col address.  Those past the 80 columns and 25 rows
\* exist as well: the next row, and memory behind the screen.
Cell(row, col) == row * VGA_WIDTH + col
Cells == {Cell(row, col) : row \in Bytes, col \in Bytes}

VARIABLES
  keyboard_input_on, buffer_index, keyboard_buffer,   \* keyboard_state
  cursor_row, cursor_col, cursor_col_threshold,
  framebuffer,
  call,
  input,        \* buf of the shell
  start         \* the cell at which the line being read began; the code
                \* does not have it, it is there for the properties

driver == <<keyboard_input_on, buffer_index, keyboard_buffer>>
cursor == <<cursor_row, cursor_col>>
vars == <<driver, cursor, cursor_col_threshold, framebuffer, call, input, start>>

Init ==
  /\ keyboard_input_on = FALSE
  /\ buffer_index = 0
  /\ keyboard_buffer = [i \in 0..(KEYBOARD_BUFFER_SIZE - 1) |-> Nul]
  /\ cursor_row = 0 /\ cursor_col = 0 /\ cursor_col_threshold = 0
  /\ framebuffer = [c \in Cells |-> Blank]
  /\ call = "user"
  /\ input = [i \in 1..InputSize |-> Nul]
  /\ start = 0

-----------------------------------------------------------------------------
(* keyboard_isr with keyboard_input_on, one action for each case.          *)

Echo(ch) ==
  framebuffer' = [framebuffer EXCEPT ![Cell(cursor_row, cursor_col)] = ch]

PressUnmapped ==
  /\ Echo(Blank)
  /\ UNCHANGED <<driver, cursor>>

\* Mutation: the start of the row is the limit, not the end of the prompt.
BackspaceIgnoresThreshold ==
  IF cursor_col > 0
  THEN /\ Echo(Blank)
       /\ cursor_col' = cursor_col - 1
       /\ buffer_index' = IF buffer_index > 0 THEN buffer_index - 1 ELSE 0
       /\ UNCHANGED <<keyboard_input_on, keyboard_buffer, cursor_row>>
  ELSE UNCHANGED <<driver, cursor, framebuffer>>

\* The test for column 0 that follows in the code never succeeds: the
\* threshold is at least 0.
PressBackspace ==
  IF cursor_col > cursor_col_threshold
  THEN /\ Echo(Blank)
       /\ cursor_col' = cursor_col - 1
       /\ buffer_index' = IF buffer_index > 0 THEN buffer_index - 1 ELSE 0
       /\ UNCHANGED <<keyboard_input_on, keyboard_buffer, cursor_row>>
  ELSE UNCHANGED <<driver, cursor, framebuffer>>

\* Mutation: Enter is taken and the driver goes on listening.
EnterKeepsListening ==
  /\ IF cursor_row < VGA_HEIGHT - 1
     THEN /\ cursor_row' = cursor_row + 1
          /\ cursor_col' = 0
          /\ keyboard_buffer' = [keyboard_buffer EXCEPT ![buffer_index] = Nul]
          /\ buffer_index' = 0
          /\ UNCHANGED keyboard_input_on
     ELSE UNCHANGED <<driver, cursor>>
  /\ UNCHANGED framebuffer

PressEnter ==
  /\ IF cursor_row < VGA_HEIGHT - 1
     THEN /\ cursor_row' = cursor_row + 1
          /\ cursor_col' = 0
          /\ keyboard_buffer' = [keyboard_buffer EXCEPT ![buffer_index] = Nul]
          /\ buffer_index' = 0
          /\ keyboard_input_on' = FALSE
     ELSE UNCHANGED <<driver, cursor>>
  /\ UNCHANGED framebuffer

\* Mutation: the last place is not kept for the terminator.
StoreFillsBuffer(ch) ==
  /\ IF buffer_index < KEYBOARD_BUFFER_SIZE
     THEN /\ keyboard_buffer' = [keyboard_buffer EXCEPT ![buffer_index] = ch]
          /\ buffer_index' = buffer_index + 1
     ELSE UNCHANGED <<keyboard_buffer, buffer_index>>
  /\ UNCHANGED keyboard_input_on

StoreChar(ch) ==
  /\ IF buffer_index < KEYBOARD_BUFFER_SIZE - 1
     THEN /\ keyboard_buffer' = [keyboard_buffer EXCEPT ![buffer_index] = ch]
          /\ buffer_index' = buffer_index + 1
     ELSE UNCHANGED <<keyboard_buffer, buffer_index>>
  /\ UNCHANGED keyboard_input_on

Advance ==
  CASE cursor_col # VGA_WIDTH - 1 ->
         cursor_col' = Inc(cursor_col) /\ UNCHANGED cursor_row
    [] cursor_col = VGA_WIDTH - 1 /\ cursor_row < VGA_HEIGHT - 1 ->
         cursor_row' = cursor_row + 1 /\ cursor_col' = 0
    [] OTHER -> UNCHANGED cursor

PressChar(ch) == StoreChar(ch) /\ Echo(ch) /\ Advance

Press(key) ==
  CASE key = Unmapped  -> PressUnmapped
    [] key = Backspace -> PressBackspace
    [] key = Newline   -> PressEnter
    [] OTHER           -> PressChar(key)

\* Mutation: keys are taken whether or not a line is being read.
IsrAlwaysListens(key) ==
  /\ Press(key)
  /\ UNCHANGED <<cursor_col_threshold, call, input, start>>

\* keyboard_isr, up to the acknowledgement.
KeyboardIsr(key) ==
  /\ IF keyboard_input_on
     THEN Press(key)
     ELSE /\ buffer_index' = 0
          /\ UNCHANGED <<keyboard_input_on, keyboard_buffer, cursor, framebuffer>>
  /\ UNCHANGED <<cursor_col_threshold, call, input, start>>

-----------------------------------------------------------------------------
(* System call 5.                                                          *)

\* The newlines in front of position i, and where the character at i goes:
\* after a newline the column is counted from the start of the text.
Newlines(text, i) == {j \in 1..(i - 1) : text[j] = Newline}
Column(text, i) == IF Newlines(text, i) = {} THEN cursor_col ELSE 0

PutAt(text, i) == Cell((cursor_row + Cardinality(Newlines(text, i))) % UINT8,
                       (Column(text, i) + i - 1) % UINT8)

\* The last of the characters that go to cell c, if any does.
IsLastPutAt(text, c, i) ==
  /\ text[i] # Newline /\ PutAt(text, i) = c
  /\ \A j \in (i + 1)..Len(text) : text[j] # Newline => PutAt(text, j) # c

Puts(text) ==
  LET n == Len(text)
      lastCol == IF n = 0 THEN cursor_col
                 ELSE IF text[n] = Newline THEN 0
                 ELSE (Column(text, n) + n) % UINT8
  IN
  /\ call = "user"
  /\ framebuffer' = [c \in Cells |->
       IF \E i \in 1..n : IsLastPutAt(text, c, i)
       THEN text[CHOOSE i \in 1..n : IsLastPutAt(text, c, i)]
       ELSE framebuffer[c]]
  /\ cursor_row' = (cursor_row + Cardinality(Newlines(text, n + 1))) % UINT8
  /\ cursor_col' = lastCol
  /\ cursor_col_threshold' = lastCol
  /\ UNCHANGED <<driver, call, input, start>>

-----------------------------------------------------------------------------
(* System call 4, as fgets of the shell makes it.                          *)

\* The shell asks for a line behind its prompt, which is printed on a line of
\* its own and shorter than a row.
PromptFits == cursor_col < VGA_WIDTH

Fgets ==
  /\ call = "user" /\ PromptFits
  /\ call' = "waiting"
  /\ keyboard_input_on' = TRUE
  /\ start' = Cell(cursor_row, cursor_col)
  /\ UNCHANGED <<buffer_index, keyboard_buffer, cursor, cursor_col_threshold,
                 framebuffer, input>>

LeaveLoop ==
  /\ call = "waiting" /\ ~keyboard_input_on
  /\ call' = "copying"
  /\ UNCHANGED <<driver, cursor, cursor_col_threshold, framebuffer, input, start>>

\* get_keyboard_buffer and the copy of as many bytes as the shell asked for.
CopyLine ==
  /\ call = "copying"
  /\ call' = "user"
  /\ input' = [i \in 1..InputSize |-> keyboard_buffer[i - 1]]
  /\ UNCHANGED <<driver, cursor, cursor_col_threshold, framebuffer, start>>

Next ==
  \/ \E key \in Keys : KeyboardIsr(key)
  \/ \E text \in Texts : Puts(text)
  \/ Fgets
  \/ LeaveLoop
  \/ CopyLine

Spec == Init /\ [][Next]_vars

-----------------------------------------------------------------------------
(* Properties.                                                             *)

TypeOK ==
  /\ keyboard_input_on \in BOOLEAN
  /\ buffer_index \in 0..(KEYBOARD_BUFFER_SIZE - 1)
  /\ keyboard_buffer \in [0..(KEYBOARD_BUFFER_SIZE - 1) -> Chars \cup {Nul}]
  /\ cursor_row \in Bytes /\ cursor_col \in Bytes
  /\ cursor_col_threshold \in Bytes
  /\ framebuffer \in [Cells -> Chars]
  /\ call \in {"user", "waiting", "copying"}
  /\ input \in [1..InputSize -> Chars \cup {Nul}]
  /\ start \in Cells

\* The line as the screen shows it: from where it began to the cursor.
Here == Cell(cursor_row, cursor_col)
Shown == [i \in 1..(Here - start) |-> framebuffer[start + i - 1]]

\* The line as the driver has it once Enter was pressed: up to the terminator.
IsEnd(buffer, n) == buffer[n] = Nul /\ \A j \in 0..(n - 1) : buffer[j] # Nul
LineIn(buffer) ==
  LET n == CHOOSE m \in DOMAIN buffer : IsEnd(buffer, m)
  IN [i \in 1..(IF n < InputSize THEN n ELSE InputSize) |-> buffer[i - 1]]
Stored == LineIn(keyboard_buffer)

Phase == CASE call = "user" -> "idle"
           [] call # "user" /\ keyboard_input_on -> "reading"
           [] OTHER -> "ended"
Line == CASE call = "user" -> << >>
          [] call # "user" /\ keyboard_input_on -> Shown
          [] OTHER -> Stored

Reader == INSTANCE LineReader WITH phase <- Phase, line <- Line, given <- input

\* What the shell gets is what the screen showed when Enter was pressed, cut
\* to the room the shell has: the driver edits its buffer and the screen with
\* separate counters (buffer_index against cursor and threshold,
\* keyboard.c:310-358), which part when the buffer is full or the screen
\* ends, and keys that come between Enter and the copy must not touch the line.
ShownIsDelivered == Reader!Spec

\* While a line is read, nothing in front of it changes on the screen: the
\* prompt can not be erased (keyboard.c:311), and what is typed never runs
\* into text that was printed before.
PromptKept ==
  [][call = "waiting" =>
       \A c \in Cells : c < start => framebuffer'[c] = framebuffer[c]]_vars
=============================================================================
