----------------------------- MODULE AtomicDisk -----------------------------
(***************************************************************************)
(* What the redo log of log.c promises to the file system above it: a     *)
(* disk on which the writes of a group of system calls become durable all *)
(* at once, never while one of them is still running, and on which a      *)
(* crash loses exactly the writes since the last such commit.             *)
(***************************************************************************)
CONSTANTS Proc,       \* processes that run file system calls
          Block,      \* home block numbers
          Value       \* contents of a block

VARIABLES durable,    \* what a crash leaves behind
          mem,        \* what a file system call reads
          active      \* processes between begin_op() and end_op()

vars == <<durable, mem, active>>

TypeOK ==
  /\ durable \in [Block -> Value]
  /\ mem \in [Block -> Value]
  /\ active \in SUBSET Proc

Init ==
  /\ durable \in [Block -> Value]
  /\ mem = durable
  /\ active = {}

Begin(p) ==
  /\ p \notin active
  /\ active' = active \cup {p}
  /\ UNCHANGED <<durable, mem>>

Write(p, b, v) ==
  /\ p \in active
  /\ mem' = [mem EXCEPT ![b] = v]
  /\ UNCHANGED <<durable, active>>

End(p) ==
  /\ p \in active
  /\ active' = active \ {p}
  /\ UNCHANGED <<durable, mem>>

Commit ==
  /\ active = {}
  /\ durable' = mem
  /\ UNCHANGED <<mem, active>>

Crash ==
  /\ mem' = durable
  /\ active' = {}
  /\ UNCHANGED durable

Next ==
  \/ \E p \in Proc : Begin(p) \/ End(p) \/ \E b \in Block, v \in Value : Write(p, b, v)
  \/ Commit
  \/ Crash

Spec == Init /\ [][Next]_vars
=============================================================================
