----------------------------- MODULE LineInput -----------------------------
(***************************************************************************)
(* What the console promises: the line being edited, and the finished      *)
(* input that read() takes from, in the order it was typed.                *)
(***************************************************************************)
EXTENDS Integers, Sequences

CONSTANTS Char, INPUT_BUF

VARIABLES line, input

vars == <<line, input>>

EndsLine(c) == c \in {"newline", "eof"}

Init == line = <<>> /\ input = <<>>

(* A character goes to the line.  The line goes to the input when it ends, *)
(* or when there is no room for more.                                      *)
Type(c) ==
  /\ Len(line) + Len(input) < INPUT_BUF
  /\ IF EndsLine(c) \/ Len(line) + Len(input) + 1 = INPUT_BUF
     THEN line' = <<>> /\ input' = input \o Append(line, c)
     ELSE line' = Append(line, c) /\ UNCHANGED input

Erase == \E k \in 0..Len(line) : line' = SubSeq(line, 1, k) /\ UNCHANGED input

(* A read takes characters from the front, up to the end of a line.        *)
Read ==
  \E k \in 1..Len(input) :
    /\ \A i \in 1..(k - 1) : ~EndsLine(input[i])
    /\ input' = SubSeq(input, k + 1, Len(input))
    /\ UNCHANGED line

Next == (\E c \in Char : Type(c)) \/ Erase \/ Read

Spec == Init /\ [][Next]_vars
=============================================================================
