------------------------------ MODULE Console ------------------------------
(***************************************************************************)
(* Console input (console.c): consoleintr() puts what is typed into the    *)
(* ring input.buf, consoleread() takes finished lines from it.             *)
(*                                                                         *)
(* A section under cons.lock is one action.  The indices r, w and e are    *)
(* unsigned and wrap; MaxUint + 1 is a multiple of INPUT_BUF, as 2^32 is.  *)
(***************************************************************************)
EXTENDS Integers, Sequences, FiniteSets

CONSTANTS Proc,        \* processes that read the console
          Char,        \* "newline", "eof" (control-D) and others, not "nul"
          INPUT_BUF, MaxUint,
          MaxRead      \* bound on n of read()

VARIABLES buf, r, w, e,     \* input
          pc, n, target,    \* of a process in consoleread()
          killed

inputVars == <<buf, r, w, e>>
vars == <<buf, r, w, e, pc, n, target, killed>>

uint(i) == i % (MaxUint + 1)

TypeOK ==
  /\ buf \in [0..(INPUT_BUF - 1) -> Char \cup {"nul"}]
  /\ r \in 0..MaxUint /\ w \in 0..MaxUint /\ e \in 0..MaxUint
  /\ pc \in [Proc -> {"out", "read", "asleep", "gone"}]
  /\ n \in [Proc -> 0..MaxRead] /\ target \in [Proc -> 0..MaxRead]
  /\ \A p \in Proc : n[p] <= target[p]
  /\ killed \in [Proc -> BOOLEAN]

Init ==
  /\ buf = [i \in 0..(INPUT_BUF - 1) |-> "nul"]
  /\ r = 0 /\ w = 0 /\ e = 0
  /\ pc = [p \in Proc |-> "out"]
  /\ n = [p \in Proc |-> 0] /\ target = [p \in Proc |-> 0]
  /\ killed = [p \in Proc |-> FALSE]
-----------------------------------------------------------------------------
(* consoleintr().                                                          *)

EndsLine(c) == c \in {"newline", "eof"}

WakeReaders == pc' = [p \in Proc |-> IF pc[p] = "asleep" THEN "read" ELSE pc[p]]

Room == uint(e - r) < INPUT_BUF

Commits(c) == EndsLine(c) \/ uint(e + 1) = uint(r + INPUT_BUF)

(* A character that is stored ('\r' comes as newline); without room, or    *)
(* when it is 0, it is dropped.                                            *)
Type(c) ==
  /\ Room
  /\ buf' = [buf EXCEPT ![e % INPUT_BUF] = c]
  /\ e' = uint(e + 1)
  /\ IF Commits(c) THEN w' = e' /\ WakeReaders ELSE UNCHANGED <<w, pc>>
  /\ UNCHANGED <<r, n, target, killed>>

(* Faulty: backspace does not stop at the end of the finished input.       *)
BackspaceFar ==
  /\ e # r
  /\ e' = uint(e - 1)
  /\ UNCHANGED <<buf, r, w, pc, n, target, killed>>

Backspace ==
  /\ e # w
  /\ e' = uint(e - 1)
  /\ UNCHANGED <<buf, r, w, pc, n, target, killed>>

(* Control-U erases back to w or a newline: the edited characters it keeps *)
(* have a newline at the end or are none.                                  *)
KillLine ==
  \E k \in 0..uint(e - w) :
    /\ \/ k = 0
       \/ buf[uint(w + k - 1) % INPUT_BUF] = "newline"
    /\ \A i \in (k + 1)..uint(e - w) : buf[uint(w + i - 1) % INPUT_BUF] # "newline"
    /\ e' = uint(w + k)
    /\ UNCHANGED <<buf, r, w, pc, n, target, killed>>
-----------------------------------------------------------------------------
(* consoleread().                                                          *)

(* A process that was killed exits before its next system call.            *)
Enter(p, size) ==
  /\ pc[p] = "out" /\ ~killed[p]
  /\ pc' = [pc EXCEPT ![p] = "read"]
  /\ n' = [n EXCEPT ![p] = size] /\ target' = [target EXCEPT ![p] = size]
  /\ UNCHANGED <<buf, r, w, e, killed>>

At(i) == buf[uint(r + i - 1) % INPUT_BUF]
Available == uint(w - r)
Smaller(a, b) == IF a <= b THEN a ELSE b

(* The number of characters the loop takes before it returns or has to     *)
(* sleep.                                                                  *)
Takes(p) ==
  LET most == Smaller(n[p], Available) IN
  CHOOSE k \in 0..most :
    /\ \A i \in 1..(k - 1) : ~EndsLine(At(i))
    /\ k = most \/ (k > 0 /\ EndsLine(At(k)))

(* Control-D ends a read that has characters already, and is kept for the  *)
(* next one.                                                               *)
KeepsEof(p) == LET k == Takes(p) IN k > 0 /\ At(k) = "eof" /\ n[p] - (k - 1) < target[p]

Returns(p) == LET k == Takes(p) IN k = n[p] \/ (k > 0 /\ EndsLine(At(k)))

(* The loop goes on until the read is finished, or there is nothing more   *)
(* and the process sleeps, or returns -1 because it was killed.            *)
Read(p) ==
  LET k == Takes(p) IN
  /\ pc[p] = "read"
  /\ r' = IF KeepsEof(p) THEN uint(r + k - 1) ELSE uint(r + k)
  /\ n' = [n EXCEPT ![p] = IF Returns(p) THEN 0 ELSE @ - k]
  /\ pc' = [pc EXCEPT ![p] = IF Returns(p) THEN "out"
                             ELSE IF killed[p] THEN "gone" ELSE "asleep"]
  /\ UNCHANGED <<buf, w, e, target, killed>>

(* kill() wakes a sleeping process.                                        *)
Kill(p) ==
  /\ ~killed[p]
  /\ killed' = [killed EXCEPT ![p] = TRUE]
  /\ pc' = [pc EXCEPT ![p] = IF @ = "asleep" THEN "read" ELSE @]
  /\ UNCHANGED <<inputVars, n, target>>

Next ==
  \/ \E c \in Char : Type(c)
  \/ Backspace \/ KillLine
  \/ \E p \in Proc : Read(p) \/ Kill(p) \/ \E size \in 1..MaxRead : Enter(p, size)

Spec == Init /\ [][Next]_vars
-----------------------------------------------------------------------------
(* Properties.                                                             *)

Ring(from, to) == [i \in 1..uint(to - from) |-> buf[uint(from + i - 1) % INPUT_BUF]]

(* A process sleeps in consoleread() only while there is nothing to read   *)
(* and it is not killed, also when several are woken for one line; and a   *)
(* full ring holds finished input only, so that a reader can always make   *)
(* room: typing and reading never wait for each other.                     *)
SleepJustified ==
  /\ \A p \in Proc : pc[p] = "asleep" => r = w /\ ~killed[p]
  /\ ~Room => w = e
=============================================================================
