----------------------------- MODULE BlockStore -----------------------------
(***************************************************************************)
(* What the buffer cache promises to its callers: every disk block has one *)
(* value, one process at a time may have the block, and only the process   *)
(* that has it changes its value.                                          *)
(***************************************************************************)
CONSTANTS Block, Proc, Value, None

VARIABLES value,    \* value[n]: contents of block n
          holder    \* holder[n]: process that has block n, or None

vars == <<value, holder>>

Init ==
  /\ value \in [Block -> Value]
  /\ holder = [n \in Block |-> None]

Get(p, n) ==
  /\ holder[n] = None
  /\ holder' = [holder EXCEPT ![n] = p]
  /\ UNCHANGED value

Put(p, n, v) ==
  /\ holder[n] = p
  /\ value' = [value EXCEPT ![n] = v]
  /\ UNCHANGED holder

Release(p, n) ==
  /\ holder[n] = p
  /\ holder' = [holder EXCEPT ![n] = None]
  /\ UNCHANGED value

Next ==
  \E p \in Proc, n \in Block :
    Get(p, n) \/ Release(p, n) \/ \E v \in Value : Put(p, n, v)

Spec == Init /\ [][Next]_vars
=============================================================================
