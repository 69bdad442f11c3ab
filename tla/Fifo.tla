-------------------------------- MODULE Fifo --------------------------------
(***************************************************************************)
(* What a pipe promises: a bounded first-in first-out queue of bytes.  The *)
(* bytes of a write enter it in order, in one or several runs, and every   *)
(* byte that enters is delivered to exactly one read.                      *)
(***************************************************************************)
EXTENDS Integers, Sequences

CONSTANTS Proc, Byte, Capacity, MaxLen

VARIABLES content,   \* bytes in the pipe, oldest first
          todo,      \* what each process still has to write
          result     \* what the last read returned

vars == <<content, todo, result>>

Strings == UNION {[1..n -> Byte] : n \in 0..MaxLen}

Init ==
  /\ content = << >>
  /\ todo = [p \in Proc |-> << >>]
  /\ result = << >>

Ask(p, s) ==
  /\ todo[p] = << >>
  /\ todo' = [todo EXCEPT ![p] = s]
  /\ UNCHANGED <<content, result>>

Put(p, k) ==
  /\ k <= Len(todo[p]) /\ Len(content) + k <= Capacity
  /\ content' = content \o SubSeq(todo[p], 1, k)
  /\ \/ todo' = [todo EXCEPT ![p] = SubSeq(@, k + 1, Len(@))]
     \/ todo' = [todo EXCEPT ![p] = << >>]
  /\ UNCHANGED result

Get(k) ==
  /\ k <= Len(content)
  /\ result' = SubSeq(content, 1, k)
  /\ content' = SubSeq(content, k + 1, Len(content))
  /\ UNCHANGED todo

Next ==
  \/ \E p \in Proc : \/ \E s \in Strings : Ask(p, s)
                    \/ \E k \in 0..MaxLen : Put(p, k)
  \/ \E k \in 0..MaxLen : Get(k)

Spec == Init /\ [][Next]_vars
=============================================================================
