------------------------------ MODULE MlfqRing ------------------------------
(***************************************************************************)
(* The queues of the MLFQ scheduler as types.h declares them: the arrays   *)
(* front, rear, sz and queue, with isEmpty(), isFull(), push() and pop()   *)
(* (proc.c).  Module Mlfq has sequences in their place.                    *)
(***************************************************************************)
EXTENDS Integers, Sequences, FiniteSets

CONSTANTS RingProc,    \* the processes
          RingQueues   \* number of queues

(* NPROC and the number of queues are positive.                            *)
RingConstants == IsFiniteSet(RingProc) /\ RingProc # {} /\ RingQueues \in Nat \ {0}

RingSize == Cardinality(RingProc)    \* NPROC
Queue == 0 .. RingQueues - 1
Index == 0 .. RingSize - 1

VARIABLE r    \* the arrays: r.front[i], r.rear[i], r.sz[i], r.queue[i][j]

(* The null pointer that the array is full of at first.                    *)
Null == "null"

TypeOK ==
  r \in [front : [Queue -> Index \cup {-1}], rear : [Queue -> Index \cup {-1}],
         sz : [Queue -> 0 .. RingSize], queue : [Queue -> [Index -> RingProc \cup {Null}]]]

(* main()                                                                  *)
Init ==
  r = [front |-> [i \in Queue |-> -1], rear |-> [i \in Queue |-> -1], sz |-> [i \in Queue |-> 0],
       queue |-> [i \in Queue |-> [j \in Index |-> Null]]]
-----------------------------------------------------------------------------
isEmpty(i) == r.front[i] = -1

isFull(i) == r.front[i] = r.rear[i] + 1 \/ (r.front[i] = 0 /\ r.rear[i] = RingSize - 1)

(* Faulty: a ring that has wrapped around is searched like one that has    *)
(* not.                                                                    *)
ScannedFlat(i) == {j \in Index : r.front[i] <= j /\ j <= r.rear[i]}

(* The indices at which push() looks for the process.                      *)
Scanned(i) ==
  IF r.front[i] > r.rear[i]
  THEN {j \in Index : j >= r.front[i] \/ j <= r.rear[i]}
  ELSE {j \in Index : r.front[i] # -1 /\ r.front[i] <= j /\ j <= r.rear[i]}

(* The arrays after push(i, p) ...                                         *)
push(i, p) ==
  LET rear == (r.rear[i] + 1) % RingSize
  IN IF (\E k \in Queue : \E j \in Scanned(k) : r.queue[k][j] = p) \/ isFull(i) THEN r
     ELSE [front |-> [r.front EXCEPT ![i] = IF @ = -1 THEN 0 ELSE @],
           rear  |-> [r.rear EXCEPT ![i] = rear],
           sz    |-> [r.sz EXCEPT ![i] = @ + 1],
           queue |-> [r.queue EXCEPT ![i] = [@ EXCEPT ![rear] = p]]]

(* ... and after pop(i), which returns what is at the front.               *)
pop(i) ==
  [front |-> [r.front EXCEPT ![i] = IF @ = r.rear[i] THEN -1 ELSE (@ + 1) % RingSize],
   rear  |-> [r.rear EXCEPT ![i] = IF @ = r.front[i] THEN -1 ELSE @],
   sz    |-> [r.sz EXCEPT ![i] = @ - 1],
   queue |-> r.queue]

(* The callers of pop() look at sz[i] first.                               *)
Next ==
  \/ \E i \in Queue, p \in RingProc : r' = push(i, p)
  \/ \E i \in Queue : r.sz[i] > 0 /\ r' = pop(i)

Spec == Init /\ [][Next]_r
-----------------------------------------------------------------------------
(* The entries of queue i of the arrays a, from the front.                 *)
Entries(a, i) ==
  LET length == IF a.front[i] = -1 THEN 0
                ELSE ((a.rear[i] - a.front[i]) % RingSize) + 1
  IN [j \in 1 .. length |-> a.queue[i][(a.front[i] + j - 1) % RingSize]]

Queued(p) == \E i \in Queue : \E j \in 1 .. Len(Entries(r, i)) : Entries(r, i)[j] = p

Same(a, i) == \A k \in Queue \ {i} : Entries(a, k) = Entries(r, k)

(* push(), pop(): wherever the rings start and wrap, they are the queues   *)
(* of module Mlfq.  push() appends a process that is in none of them, and  *)
(* always has room for it; pop() takes the first; sz counts the entries.   *)
RingsAreQueues ==
  \A i \in Queue :
    /\ r.sz[i] = Len(Entries(r, i)) /\ (isEmpty(i) <=> r.sz[i] = 0)
    /\ \A p \in RingProc :
         /\ Entries(push(i, p), i) = IF Queued(p) THEN Entries(r, i) ELSE Append(Entries(r, i), p)
         /\ Same(push(i, p), i)
    /\ r.sz[i] > 0 => /\ r.queue[i][r.front[i]] = Head(Entries(r, i))
                      /\ Entries(pop(i), i) = Tail(Entries(r, i))
                      /\ Same(pop(i), i)
=============================================================================
