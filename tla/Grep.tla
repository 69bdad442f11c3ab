-------------------------------- MODULE Grep --------------------------------
(***************************************************************************)
(* The pattern matcher of grep (grep.c), after Kernighan and Pike, and     *)
(* what a pattern means.                                                   *)
(*                                                                         *)
(* Patterns and texts are sequences of characters; the end of the sequence *)
(* is the byte 0 that ends the string in the code.                         *)
(***************************************************************************)
EXTENDS Integers, Sequences

Fits(c, s, i) == c = "." \/ c = s[i]

Starred(re) == Len(re) >= 2 /\ re[2] = "*"

RECURSIVE matchhere(_, _), matchstar(_, _, _)

(* Faulty: * asks for one instance at least.                               *)
matchstarOne(c, re, text) ==
  \E k \in 1 .. Len(text) :
    /\ \A i \in 1 .. k : Fits(c, text, i)
    /\ matchhere(re, SubSeq(text, k + 1, Len(text)))

(* c*re at the beginning of text: after no instance of c, or one more.     *)
matchstar(c, re, text) ==
  \/ matchhere(re, text)
  \/ text # <<>> /\ Fits(c, text, 1) /\ matchstar(c, re, Tail(text))

(* re at the beginning of text.                                            *)
matchhere(re, text) ==
  IF re = <<>> THEN TRUE
  ELSE IF Starred(re) THEN matchstar(re[1], SubSeq(re, 3, Len(re)), text)
  ELSE IF re = <<"$">> THEN text = <<>>
  ELSE text # <<>> /\ Fits(re[1], text, 1) /\ matchhere(Tail(re), Tail(text))

match(re, text) ==
  IF re # <<>> /\ re[1] = "^"
  THEN matchhere(Tail(re), text)
  ELSE \E i \in 1 .. Len(text) + 1 : matchhere(re, SubSeq(text, i, Len(text)))
-----------------------------------------------------------------------------
(* What a pattern means: ^ at the beginning, $ at the end, and between     *)
(* them characters, each alone or with a * after it.                       *)

RECURSIVE Items(_)
Items(re) ==
  IF re = <<>> THEN <<>>
  ELSE IF Starred(re)
       THEN <<[c |-> re[1], kind |-> "many"]>> \o Items(SubSeq(re, 3, Len(re)))
  ELSE IF re = <<"$">> THEN <<[c |-> "$", kind |-> "end"]>>
  ELSE <<[c |-> re[1], kind |-> "one"]>> \o Items(Tail(re))

(* The text can be cut at places cut[0] <= cut[1] <= ... so that each item *)
(* has its own stretch.                                                    *)
Meaning(re, text) ==
  LET anchored == re # <<>> /\ re[1] = "^"
      items == Items(IF anchored THEN Tail(re) ELSE re)
  IN \E cut \in [0 .. Len(items) -> 0 .. Len(text)] :
       /\ anchored => cut[0] = 0
       /\ \A k \in DOMAIN items :
            /\ cut[k - 1] <= cut[k]
            /\ items[k].kind = "end" => cut[k - 1] = Len(text)
            /\ items[k].kind = "one" => cut[k] = cut[k - 1] + 1
            /\ \A i \in cut[k - 1] + 1 .. cut[k] : Fits(items[k].c, text, i)

(* match() finds a pattern where its meaning says, and nowhere else.       *)
Matches(re, text) == match(re, text) <=> Meaning(re, text)
=============================================================================
