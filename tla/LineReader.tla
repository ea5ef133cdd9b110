------------------------------ MODULE LineReader ------------------------------
(***************************************************************************)
(* What the keyboard call promises its caller: the characters that were    *)
(* typed and not erased until Enter, as many as fit, and a terminator      *)
(* behind them if there is room for it.                                    *)
(***************************************************************************)
EXTENDS Integers, Sequences

CONSTANTS Chars,      \* what can be typed
          Nul,        \* the terminator
          InputSize   \* the room the caller has

VARIABLES phase,      \* "idle", "reading", "ended"
          line,       \* what was typed
          given       \* the caller's bytes

vars == <<phase, line, given>>

Least(a, b) == IF a < b THEN a ELSE b

Init == /\ phase = "idle"
        /\ line = << >>
        /\ given \in [1..InputSize -> {Nul}]

Begin == /\ phase = "idle"
         /\ phase' = "reading"
         /\ line' = << >>
         /\ UNCHANGED given

Type == /\ phase = "reading"
        /\ \E ch \in Chars : line' = Append(line, ch)
        /\ UNCHANGED <<phase, given>>

Erase == /\ phase = "reading"
         /\ line # << >>
         /\ line' = SubSeq(line, 1, Len(line) - 1)
         /\ UNCHANGED <<phase, given>>

\* Enter.  Nothing is promised about what does not fit.
Enter == /\ phase = "reading"
         /\ phase' = "ended"
         /\ line' = SubSeq(line, 1, Least(Len(line), InputSize))
         /\ UNCHANGED given

Return == /\ phase = "ended"
          /\ phase' = "idle"
          /\ line' = << >>
          /\ given' \in [1..InputSize -> Chars \cup {Nul}]
          /\ SubSeq(given', 1, Len(line)) = line
          /\ Len(line) < InputSize => given'[Len(line) + 1] = Nul

Next == Begin \/ Type \/ Erase \/ Enter \/ Return

Spec == Init /\ [][Next]_vars
=============================================================================
