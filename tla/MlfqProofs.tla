----------------------------- MODULE MlfqProofs -----------------------------
(***************************************************************************)
(* Proofs about module Mlfq, for any number of slots, CPUs and queues and *)
(* any slices.                                                             *)
(***************************************************************************)
EXTENDS Mlfq, FiniteSetTheorems, TLAPS

Queues == [Queue -> Seq(Slot)]

(* OneEntry, of any value of the queues.                                   *)
Distinct(q) ==
  \A i, k \in Queue : \A j \in 1..Len(q[i]), m \in 1..Len(q[k]) :
    q[i][j] = q[k][m] => i = k /\ j = m

(* The queue above one that is not the first is a queue: modify_times()    *)
(* ages p into queueNo - 1 only if queueNo is not 0.                       *)
LEMMA QueueAbove ==
  ASSUME NEW q \in Queue, q # 0
  PROVE  q - 1 \in Queue
BY MlfqConstants DEF Queue

(* push() adds at most its argument, and never twice.                      *)
LEMMA PushFacts ==
  ASSUME NEW q \in Queues, NEW i \in Queue, NEW p \in Slot
  PROVE  /\ Push(q, i, p) \in Queues
         /\ Distinct(q) => Distinct(Push(q, i, p))
         /\ \A r \in Slot : Has(Push(q, i, p), r) => Has(q, r) \/ r = p
<1>1. CASE ~Accepts(q, i, p)
  BY <1>1 DEF Push
<1>2. CASE Accepts(q, i, p)
  <2> DEFINE n == Push(q, i, p)
  <2>1. n = [q EXCEPT ![i] = Append(@, p)]
    BY <1>2 DEF Push
  <2>2. /\ n \in Queues
        /\ \A k \in Queue \ {i} : n[k] = q[k]
        /\ n[i] = Append(q[i], p)
    BY <2>1 DEF Queues
  <2>3. /\ Len(n[i]) = Len(q[i]) + 1
        /\ n[i][Len(q[i]) + 1] = p
        /\ \A j \in 1..Len(q[i]) : n[i][j] = q[i][j]
    BY <2>2 DEF Queues
  <2>4. \A k \in Queue : \A j \in 1..Len(q[k]) : q[k][j] # p
    BY <1>2 DEF Accepts, Has
  <2>5. \A k \in Queue : Len(q[k]) \in Nat
    BY DEF Queues
  <2> HIDE DEF n
  <2>6. \A k \in Queue : \A j \in 1..Len(n[k]) :
          \/ j \in 1..Len(q[k]) /\ n[k][j] = q[k][j]
          \/ k = i /\ j = Len(q[i]) + 1 /\ n[k][j] = p
    BY <2>2, <2>3, <2>5
  <2>7. Distinct(q) => Distinct(n)
    BY <2>4, <2>6 DEF Distinct
  <2>8. \A r \in Slot : Has(n, r) => Has(q, r) \/ r = p
    BY <2>6 DEF Has
  <2> QED
    BY <2>2, <2>7, <2>8 DEF n
<1> QED
  BY <1>1, <1>2

(* pop() removes the head, and with distinct entries all of it.            *)
LEMMA PopFacts ==
  ASSUME NEW q \in Queues, NEW i \in Queue, Len(q[i]) > 0
  PROVE  /\ Head(q[i]) \in Slot /\ Has(q, Head(q[i]))
         /\ pop(q, i) \in Queues
         /\ Distinct(q) => Distinct(pop(q, i)) /\ ~Has(pop(q, i), Head(q[i]))
         /\ \A r \in Slot : Has(pop(q, i), r) => Has(q, r)
<1> DEFINE n == pop(q, i)
<1>1. Head(q[i]) = q[i][1] /\ 1 \in 1..Len(q[i]) /\ Head(q[i]) \in Slot
  BY DEF Queues
<1>2. /\ n \in Queues
      /\ \A k \in Queue \ {i} : n[k] = q[k]
      /\ n[i] = Tail(q[i])
  BY DEF pop, Queues
<1>3. /\ Len(n[i]) = Len(q[i]) - 1
      /\ \A j \in 1..Len(n[i]) : j + 1 \in 1..Len(q[i]) /\ n[i][j] = q[i][j + 1]
  BY <1>2 DEF Queues
<1> DEFINE was(k, j) == IF k = i THEN j + 1 ELSE j
<1> HIDE DEF n
<1>7. ASSUME NEW k \in Queue, NEW j \in 1..Len(n[k])
      PROVE  j \in Nat \ {0} /\ was(k, j) \in 1..Len(q[k]) /\ n[k][j] = q[k][was(k, j)]
  <2>1. CASE k = i
    BY <2>1, <1>3
  <2>2. CASE k # i
    BY <2>2, <1>2
  <2> QED
    BY <2>1, <2>2
<1>4. ASSUME Distinct(q) PROVE Distinct(n)
  <2> SUFFICES ASSUME NEW a \in Queue, NEW b \in Queue,
                      NEW j \in 1..Len(n[a]), NEW m \in 1..Len(n[b]),
                      n[a][j] = n[b][m]
               PROVE  a = b /\ j = m
    BY DEF Distinct
  <2>1. a = b /\ was(a, j) = was(b, m)
    <3> HIDE DEF was
    <3>1. /\ was(a, j) \in 1..Len(q[a]) /\ was(b, m) \in 1..Len(q[b])
          /\ q[a][was(a, j)] = q[b][was(b, m)]
      BY <1>7
    <3> QED
      BY <1>4, <3>1 DEF Distinct
  <2> QED
    BY <2>1, <1>7
<1>5. ASSUME Distinct(q) PROVE ~Has(n, q[i][1])
  <2> SUFFICES ASSUME NEW k \in Queue, NEW j \in 1..Len(n[k]), n[k][j] = q[i][1]
               PROVE  FALSE
    BY DEF Has
  <2>1. k = i /\ was(k, j) = 1
    BY <1>1, <1>5, <1>7 DEF Distinct
  <2> QED
    BY <2>1, <1>7
<1>6. \A r \in Slot : Has(n, r) => Has(q, r)
  BY <1>2, <1>3 DEF Has
<1> QED
  BY <1>1, <1>2, <1>4, <1>5, <1>6 DEF n, Has

(* A process that trap() has decided to preempt still runs, and can go     *)
(* down a queue.                                                           *)
PreemptInv ==
  \A c \in preempt : cpuproc[c] # Null /\ queueNo[cpuproc[c]] # Lowest

IInv == TypeOK /\ OneCpuEach /\ OneEntry /\ RunningUnqueued /\ PreemptInv

(* OneEntry is Distinct of the queues.                                     *)
LEMMA OneEntryDistinct == OneEntry <=> Distinct(queue)
  BY DEF OneEntry, Distinct

(* The boot state of the scheduling protocol.                              *)
LEMMA SchedInitInv == SchedInit => SchedTypeOK /\ OneCpuEach
  BY SchedConstants
     DEF SchedInit, SchedTypeOK, OneCpuEach, Slot, Cpu, Null, Free, initproc, ProcState

(* A step of the scheduling protocol keeps one CPU for each RUNNING        *)
(* process: the process that leaves a CPU stops being RUNNING, the one     *)
(* that gets it was not, and wakeup1() touches neither.                    *)
LEMMA SchedStepInv ==
  ASSUME SchedTypeOK, OneCpuEach, [SchedNext]_schedVars
  PROVE  SchedTypeOK' /\ OneCpuEach'
<1> USE DEF SchedTypeOK, OneCpuEach
<1>1. CASE UNCHANGED schedVars
  BY <1>1 DEF schedVars
<1>2. ASSUME NEW c \in Cpu, Lock(c) \/ Unlock(c)
      PROVE  SchedTypeOK' /\ OneCpuEach'
  BY <1>2 DEF Lock, Unlock
<1>3. ASSUME NEW c \in Cpu, NEW W \in SUBSET Slot,
             NEW s \in ProcState \ {"RUNNING"}, cpuproc[c] # Null, GiveUp(c, s, W)
      PROVE  SchedTypeOK' /\ OneCpuEach'
  <2>1. SchedTypeOK'
    BY <1>3 DEF GiveUp, Awaken, ProcState
  <2>2. \A p \in Slot : state'[p] = "RUNNING" <=> state[p] = "RUNNING" /\ p # cpuproc[c]
    BY <1>3 DEF GiveUp, Awaken
  <2> QED
    BY <1>3, <2>1, <2>2 DEF GiveUp
<1>4. ASSUME NEW c \in Cpu, NEW p \in Slot, Switch(c, p)
      PROVE  SchedTypeOK' /\ OneCpuEach'
  BY <1>4 DEF Switch, InScheduler, ProcState, Slot, Null
<1>5. ASSUME NEW c \in Cpu, NEW p \in Slot,
             AllocProc(c, p) \/ ForkFail(c, p) \/ ForkDone(c, p) \/ Reap(c, p)
      PROVE  SchedTypeOK' /\ OneCpuEach'
  BY <1>5 DEF AllocProc, ForkFail, ForkDone, Reap, Runs, MayLock, ProcState
<1>6. ASSUME NEW W \in SUBSET Slot, Wakeup(W)
      PROVE  SchedTypeOK' /\ OneCpuEach'
  <2>1. SchedTypeOK'
    BY <1>6 DEF Wakeup, Awaken, ProcState
  <2>2. \A p \in Slot : state'[p] = "RUNNING" <=> state[p] = "RUNNING"
    BY <1>6 DEF Wakeup, Awaken
  <2> QED
    BY <1>6, <2>1, <2>2 DEF Wakeup
<1>7. ASSUME NEW c \in Cpu, Yield(c) \/ Sleep(c) \/ \E W \in SUBSET Slot : Exit(c, W)
      PROVE  SchedTypeOK' /\ OneCpuEach'
  BY <1>3, <1>7 DEF Yield, Sleep, Exit, Runs, MayLock, ProcState
<1> HIDE DEF SchedTypeOK, OneCpuEach
<1> QED
  BY <1>1, <1>2, <1>4, <1>5, <1>6, <1>7 DEF SchedNext

(* main() and userinit(): init alone is queued, in queue 0.                *)
LEMMA InitInv == Init => IInv
<1> SUFFICES ASSUME Init PROVE IInv
  OBVIOUS
<1> USE SchedConstants, MlfqConstants DEF Init
<1>1. SchedTypeOK /\ OneCpuEach
  BY SchedInitInv
<1>2. initproc \in Slot /\ 0 \in Queue
  BY DEF initproc, Slot, Queue
<1>3. queue \in Queues
  BY <1>2 DEF Queues
<1>4. TypeOK
  BY <1>1, <1>2, <1>3 DEF TypeOK, Loop, NoLoop, Queues
<1>5. \A i \in Queue : \A j \in 1..Len(queue[i]) : i = 0 /\ j = 1
  BY <1>2
<1>6. OneEntry
  BY <1>5 DEF OneEntry
<1>7. RunningUnqueued
  BY DEF RunningUnqueued, SchedInit
<1>8. PreemptInv
  BY DEF PreemptInv
<1> QED
  BY <1>1, <1>4, <1>6, <1>7, <1>8 DEF IInv

(* Every step follows the scheduling protocol of Sched.                    *)
LEMMA NextSched ==
  ASSUME TypeOK, [Next]_vars
  PROVE  [SchedNext]_schedVars
<1> USE DEF SchedNext
<1>1. CASE UNCHANGED vars
  BY <1>1 DEF vars
<1>2. ASSUME NEW c \in Cpu, Scheduler(c)
      PROVE  [SchedNext]_schedVars
  <2>1. ASSUME Run(c) PROVE Head(queue[loop.i]) \in Slot
    <3>1. loop.i \in Queue
      BY <2>1, MlfqConstants DEF Run, Selecting, TypeOK, Loop, Queue
    <3>2. Len(queue[loop.i]) > 0
      BY <2>1, <3>1 DEF Run, TypeOK, Loop
    <3> QED
      BY <3>1, <3>2, PopFacts DEF TypeOK, Queues
  <2> QED
    BY <1>2, <2>1
       DEF Scheduler, StartSelect, NextQueue, Rotate, Run, StartRescue, Rescue, EndRescue,
           SchedAcquire, SchedRelease
<1>3. ASSUME NEW c \in Cpu, Continue(c) \/ TrapPreempt(c) \/ MlfqYield(c) \/ MlfqSleep(c)
      PROVE  [SchedNext]_schedVars
  BY <1>3 DEF Continue, Resume, TrapPreempt, MlfqYield, MlfqSleep
<1>4. ASSUME NEW c \in Cpu, MlfqExit(c)
      PROVE  SchedNext
  BY <1>4 DEF MlfqExit
<1>5. ASSUME NEW c \in Cpu, NEW p \in Slot,
             MlfqAlloc(c, p) \/ MlfqFork(c, p) \/ MlfqReap(c, p)
      PROVE  SchedNext
  BY <1>5 DEF MlfqAlloc, MlfqFork, MlfqReap
<1>6. ASSUME NEW p \in Slot, MlfqWakeup(p)
      PROVE  SchedNext
  BY <1>6 DEF MlfqWakeup
<1>7. ASSUME Tick
      PROVE  [SchedNext]_schedVars
  <2>1. 0 \in Cpu
    BY SchedConstants DEF Cpu
  <2> QED
    BY <1>7, <2>1 DEF Tick, StartTimes, CountRunning, CountWaiting, Ages, EndTimes
<1> QED
  BY <1>1, <1>2, <1>3, <1>4, <1>5, <1>6, <1>7 DEF Next

(* What is left to show about a step once the scheduling states are known  *)
(* to be right.                                                            *)
Kept == TypeOK' /\ OneEntry' /\ RunningUnqueued' /\ PreemptInv'

(* Steps that leave queues and levels alone and start no process.          *)
LEMMA FrameInv ==
  ASSUME IInv, SchedTypeOK', OneCpuEach',
         UNCHANGED <<queue, queueNo>>,
         cur_time' \in [Slot -> Nat], wait_time' \in [Slot -> 0..(AGE + 1)],
         loop' \in Loop,
         preempt' \in SUBSET Cpu, PreemptInv',
         \A p \in Slot : state'[p] = "RUNNING" => state[p] = "RUNNING"
  PROVE  Kept
<1>1. TypeOK'
  BY DEF IInv, TypeOK
<1>2. OneEntry'
  BY DEF IInv, OneEntry
<1>3. RunningUnqueued'
  BY DEF IInv, RunningUnqueued, Has
<1> QED
  BY <1>1, <1>2, <1>3 DEF Kept

(* Steps that push or pop leave a queue with distinct entries, none of     *)
(* them of a running process.                                              *)
LEMMA QueueInv ==
  ASSUME IInv, SchedTypeOK', OneCpuEach', PreemptInv',
         queue' \in Queues, Distinct(queue'),
         queueNo' \in [Slot -> Queue],
         cur_time' \in [Slot -> Nat], wait_time' \in [Slot -> 0..(AGE + 1)],
         loop' \in Loop, preempt' \in SUBSET Cpu,
         \A p \in Slot : state'[p] = "RUNNING" => ~Has(queue', p)
  PROVE  Kept
  BY DEF Kept, TypeOK, Queues, OneEntry, Distinct, RunningUnqueued, Has

(* The loops the holder of ptable.lock may be in.                          *)
LEMMA LoopFacts ==
  ASSUME loop \in Loop
  PROVE  /\ NoLoop \in Loop
         /\ \A where \in {"select", "rescue", "times"} :
              /\ [at |-> where, i |-> 0, n |-> 0] \in Loop
              /\ [at |-> where, i |-> 0, n |-> 1] \in Loop
         /\ [loop EXCEPT !.n = @ + 1] \in Loop
         /\ loop.i < NQUEUE => [at |-> "select", i |-> loop.i + 1, n |-> 0] \in Loop
<1>1. NQUEUE \in Nat
  BY MlfqConstants
<1>2. loop.i \in 0..NQUEUE /\ loop.n \in Nat
  BY DEF Loop
<1>3. [loop EXCEPT !.n = @ + 1] \in Loop
  BY <1>2 DEF Loop
<1>4. loop.i < NQUEUE => [at |-> "select", i |-> loop.i + 1, n |-> 0] \in Loop
  BY <1>1, <1>2 DEF Loop
<1> QED
  BY <1>1, <1>3, <1>4 DEF Loop, NoLoop

(* The steps of scheduler().                                               *)
LEMMA SchedulerInv ==
  ASSUME IInv, SchedTypeOK', OneCpuEach', NEW c \in Cpu, Scheduler(c)
  PROVE  Kept
<1> USE DEF IInv, TypeOK
<1>1. CASE StartSelect(c)
  BY <1>1, MlfqConstants, FrameInv
     DEF StartSelect, SchedAcquire, Lock, PreemptInv, Loop
<1>2. CASE NextQueue(c)
  BY <1>2, LoopFacts, FrameInv DEF NextQueue, Selecting, PreemptInv, schedVars
<1>3. CASE StartRescue(c)
  BY <1>3, MlfqConstants, FrameInv DEF StartRescue, PreemptInv, Loop, schedVars
<1>4. CASE EndRescue(c)
  BY <1>4, MlfqConstants, FrameInv
     DEF EndRescue, SchedRelease, Unlock, PreemptInv, Loop, NoLoop
<1>5. ASSUME Rotate(c) \/ Run(c)
      PROVE  /\ loop.i \in Queue /\ Len(queue[loop.i]) > 0
             /\ Head(queue[loop.i]) \in Slot
             /\ state[Head(queue[loop.i])] # "RUNNING"
             /\ pop(queue, loop.i) \in Queues /\ Distinct(pop(queue, loop.i))
             /\ ~Has(pop(queue, loop.i), Head(queue[loop.i]))
             /\ \A r \in Slot : Has(pop(queue, loop.i), r) => Has(queue, r)
  <2>1. loop.i \in Queue
    BY <1>5, MlfqConstants DEF Rotate, Run, Selecting, Loop, Queue
  <2>2. Len(queue[loop.i]) > 0
    BY <1>5, <2>1 DEF Rotate, Run, Loop
  <2> QED
    BY <2>1, <2>2, PopFacts, OneEntryDistinct DEF Queues, RunningUnqueued
<1>6. CASE Rotate(c)
  <2> DEFINE h == Head(queue[loop.i])
             n == pop(queue, loop.i)
  <2>1. /\ queue' = Push(n, loop.i, h)
        /\ UNCHANGED <<state, cpuproc, queueNo, wait_time, preempt>>
    BY <1>6 DEF Rotate, schedVars
  <2>2. cur_time' \in [Slot -> Nat] /\ loop' \in Loop
    BY <1>6, LoopFacts DEF Rotate
  <2>3. h \in Slot /\ state[h] # "RUNNING" /\ n \in Queues /\ Distinct(n) /\ loop.i \in Queue
    BY <1>5, <1>6
  <2>4. \A r \in Slot : Has(n, r) => Has(queue, r)
    BY <1>5, <1>6
  <2> HIDE DEF h, n
  <2>5. /\ queue' \in Queues /\ Distinct(queue')
        /\ \A r \in Slot : Has(queue', r) => Has(n, r) \/ r = h
    BY <2>1, <2>3, PushFacts
  <2>6. \A r \in Slot : state'[r] = "RUNNING" => ~Has(queue', r)
    BY <2>1, <2>3, <2>4, <2>5 DEF RunningUnqueued
  <2>7. PreemptInv'
    BY <2>1 DEF PreemptInv
  <2> QED
    BY <2>1, <2>2, <2>5, <2>6, <2>7, QueueInv
<1>7. CASE Run(c)
  <2> DEFINE h == Head(queue[loop.i])
             n == pop(queue, loop.i)
  <2>1. /\ queue' = n /\ Switch(c, h)
        /\ UNCHANGED <<queueNo, cur_time, preempt>>
        /\ wait_time' = [wait_time EXCEPT ![h] = 0]
        /\ loop' \in Loop
    BY <1>7, LoopFacts DEF Run
  <2>2. h \in Slot /\ n \in Queues /\ Distinct(n) /\ ~Has(n, h)
    BY <1>5, <1>7
  <2>3. \A r \in Slot : Has(n, r) => Has(queue, r)
    BY <1>5, <1>7
  <2> HIDE DEF h, n
  <2>6. wait_time' \in [Slot -> 0..(AGE + 1)]
    BY <2>1, <2>2, MlfqConstants
  <2>4. \A r \in Slot : state'[r] = "RUNNING" => ~Has(queue', r)
    BY <2>1, <2>2, <2>3 DEF Switch, RunningUnqueued, SchedTypeOK
  <2>5. PreemptInv'
    BY <2>1 DEF PreemptInv, Switch, InScheduler, SchedTypeOK
  <2> QED
    BY <2>1, <2>2, <2>4, <2>5, <2>6, QueueInv
<1>8. CASE Rescue(c)
  <2>1. /\ loop.n \in Slot /\ loop' \in Loop
        /\ UNCHANGED <<state, cpuproc, queueNo, wait_time, preempt>>
    BY <1>8, LoopFacts DEF Rescue, schedVars
  <2>7. cur_time' \in [Slot -> Nat]
    <3>1. CASE state[loop.n] = "RUNNABLE"
      <4>1. cur_time' = [cur_time EXCEPT ![loop.n] =
                           IF Accepts(queue, 0, loop.n) THEN 0 ELSE @]
        BY <1>8, <3>1 DEF Rescue
      <4> QED
        BY <4>1, <2>1
    <3>2. CASE state[loop.n] # "RUNNABLE"
      BY <1>8, <3>2 DEF Rescue
    <3> QED
      BY <3>1, <3>2
  <2>2. \/ queue' = queue
        \/ queue' = Push(queue, 0, loop.n) /\ state[loop.n] = "RUNNABLE"
    BY <1>8 DEF Rescue
  <2>3. 0 \in Queue /\ queue \in Queues
    BY MlfqConstants DEF Queue, Queues
  <2>4. /\ queue' \in Queues /\ Distinct(queue')
        /\ \A r \in Slot : Has(queue', r) =>
             Has(queue, r) \/ (r = loop.n /\ state[r] = "RUNNABLE")
    BY <2>1, <2>2, <2>3, PushFacts, OneEntryDistinct
  <2>5. \A r \in Slot : state'[r] = "RUNNING" => ~Has(queue', r)
    BY <2>1, <2>4 DEF RunningUnqueued
  <2>6. PreemptInv'
    BY <2>1 DEF PreemptInv
  <2> QED
    BY <2>1, <2>4, <2>5, <2>6, <2>7, QueueInv
<1> QED
  BY <1>1, <1>2, <1>3, <1>4, <1>6, <1>7, <1>8 DEF Scheduler

(* The steps of the running process that leave the queues alone, and       *)
(* wakeup1().                                                              *)
LEMMA ProcessInv ==
  ASSUME IInv, SchedTypeOK', OneCpuEach', NEW c \in Cpu, NEW p \in Slot,
         \/ Continue(c) \/ TrapPreempt(c) \/ MlfqSleep(c) \/ MlfqExit(c)
         \/ MlfqFork(c, p) \/ MlfqReap(c, p) \/ MlfqWakeup(p)
  PROVE  Kept
<1> USE DEF IInv, TypeOK
<1>1. /\ UNCHANGED <<queue, queueNo, cur_time, wait_time>>
      /\ loop' \in Loop
  BY LoopFacts
     DEF Continue, TrapPreempt, MlfqSleep, MlfqExit, MlfqFork, MlfqReap, MlfqWakeup,
         mlfqVars, BackToScheduler
<1>2. \A q \in Slot : state'[q] = "RUNNING" => state[q] = "RUNNING"
  <2>1. CASE Continue(c) \/ TrapPreempt(c)
    BY <2>1 DEF Continue, Resume, Unlock, TrapPreempt, schedVars
  <2>2. CASE MlfqSleep(c) \/ MlfqExit(c)
    BY <2>2 DEF MlfqSleep, MlfqExit, Sleep, Exit, GiveUp, Awaken
  <2>3. CASE MlfqFork(c, p) \/ MlfqReap(c, p) \/ MlfqWakeup(p)
    BY <2>3 DEF MlfqFork, MlfqReap, MlfqWakeup, ForkFail, ForkDone, Reap, Wakeup, Awaken,
                SchedTypeOK
  <2> QED
    BY <2>1, <2>2, <2>3
<1>3. preempt' \in SUBSET Cpu /\ PreemptInv'
  <2>1. CASE TrapPreempt(c)
    BY <2>1, <1>1 DEF TrapPreempt, SliceUsed, PreemptInv, schedVars
  <2>2. CASE MlfqSleep(c) \/ MlfqExit(c)
    BY <2>2, <1>1 DEF MlfqSleep, MlfqExit, Sleep, Exit, GiveUp, PreemptInv, SchedTypeOK
  <2>3. CASE UNCHANGED <<cpuproc, preempt>>
    BY <2>3, <1>1 DEF PreemptInv
  <2> QED
    BY <2>1, <2>2, <2>3
       DEF Continue, Resume, Unlock, MlfqFork, MlfqReap, MlfqWakeup, ForkFail, ForkDone,
           Reap, Wakeup, mlfqVars
<1> QED
  BY <1>1, <1>2, <1>3, FrameInv

(* yield() moves the process one queue down.                               *)
LEMMA YieldInv ==
  ASSUME IInv, SchedTypeOK', OneCpuEach', NEW c \in Cpu, MlfqYield(c)
  PROVE  Kept
<1> USE DEF IInv, TypeOK
<1> DEFINE p == cpuproc[c]
<1>1. /\ p \in Slot /\ state[p] = "RUNNING" /\ queueNo[p] \in Queue /\ queueNo[p] # Lowest
      /\ c \in preempt
  BY DEF MlfqYield, Yield, Runs, OneCpuEach, PreemptInv, SchedTypeOK
<1>2. queueNo[p] + 1 \in Queue
  BY <1>1, MlfqConstants DEF Queue, Lowest
<1>3. /\ queueNo' = [queueNo EXCEPT ![p] = @ + 1]
      /\ queue' = Push(queue, queueNo'[p], p)
      /\ cur_time' = [cur_time EXCEPT ![p] = 0]
      /\ preempt' = preempt \ {c}
      /\ UNCHANGED wait_time
      /\ cpuproc' = [cpuproc EXCEPT ![c] = Null]
      /\ \A q \in Slot : state'[q] = IF q = p THEN "RUNNABLE" ELSE state[q]
  BY <1>1 DEF MlfqYield, Yield, GiveUp, Awaken
<1>4. loop' \in Loop
  BY LoopFacts DEF MlfqYield, BackToScheduler
<1> HIDE DEF p
<1>5. queueNo' \in [Slot -> Queue] /\ queueNo'[p] \in Queue
  BY <1>1, <1>2, <1>3
<1>6. /\ queue' \in Queues /\ Distinct(queue')
      /\ \A r \in Slot : Has(queue', r) => Has(queue, r) \/ r = p
  BY <1>1, <1>3, <1>5, PushFacts, OneEntryDistinct DEF Queues
<1>7. \A r \in Slot : state'[r] = "RUNNING" => ~Has(queue', r)
  BY <1>1, <1>3, <1>6 DEF RunningUnqueued
<1>8. PreemptInv'
  BY <1>1, <1>3 DEF PreemptInv, OneCpuEach, SchedTypeOK, p
<1> QED
  BY <1>1, <1>3, <1>4, <1>5, <1>6, <1>7, <1>8, QueueInv

(* allocproc() queues the new process.                                     *)
LEMMA AllocInv ==
  ASSUME IInv, SchedTypeOK', OneCpuEach', NEW c \in Cpu, NEW p \in Slot, MlfqAlloc(c, p)
  PROVE  Kept
<1> USE DEF IInv, TypeOK
<1>1. /\ state[p] = "UNUSED" /\ state' = [state EXCEPT ![p] = "EMBRYO"]
      /\ queueNo' = [queueNo EXCEPT ![p] = 0]
      /\ cur_time' = [cur_time EXCEPT ![p] = 0]
      /\ wait_time' = [wait_time EXCEPT ![p] = 0]
      /\ UNCHANGED <<cpuproc, preempt, loop>>
  BY DEF MlfqAlloc, AllocProc
<1>2. queue' = queue \/ \E i \in Queue : queue' = Push(queue, i, p)
  BY DEF MlfqAlloc
<1>3. /\ queue' \in Queues /\ Distinct(queue')
      /\ \A r \in Slot : Has(queue', r) => Has(queue, r) \/ r = p
  <2>1. queue \in Queues /\ Distinct(queue)
    BY OneEntryDistinct DEF Queues
  <2>2. CASE queue' = queue
    BY <2>1, <2>2
  <2>3. ASSUME NEW i \in Queue, queue' = Push(queue, i, p)
        PROVE  /\ queue' \in Queues /\ Distinct(queue')
               /\ \A r \in Slot : Has(queue', r) => Has(queue, r) \/ r = p
    BY <2>1, <2>3, PushFacts
  <2> QED
    BY <1>2, <2>2, <2>3
<1>4. \A r \in Slot : state'[r] = "RUNNING" => ~Has(queue', r)
  BY <1>1, <1>3 DEF RunningUnqueued, SchedTypeOK
<1>5. 0 \in Queue /\ 0 \in 0..(AGE + 1)
  BY MlfqConstants DEF Queue
<1>6. /\ queueNo' \in [Slot -> Queue] /\ cur_time' \in [Slot -> Nat]
      /\ wait_time' \in [Slot -> 0..(AGE + 1)]
  BY <1>1, <1>5
<1>7. PreemptInv'
  BY <1>1 DEF PreemptInv, OneCpuEach, SchedTypeOK
<1> QED
  BY <1>1, <1>3, <1>4, <1>6, <1>7, QueueInv

(* modify_times(): only a process that is not RUNNING ages.                *)
LEMMA TickInv ==
  ASSUME IInv, SchedTypeOK', OneCpuEach', Tick
  PROVE  Kept
<1> USE DEF IInv, TypeOK
<1>1. CASE StartTimes
  BY <1>1, LoopFacts, FrameInv DEF StartTimes, Lock, PreemptInv
<1>2. CASE CountRunning
  <2>1. /\ UNCHANGED <<state, cpuproc, queue, queueNo, wait_time, preempt>>
        /\ loop.n \in Slot /\ loop' \in Loop
        /\ cur_time' = [cur_time EXCEPT ![loop.n] = Capped(@ + 1, ticksQ[queueNo[loop.n]] + 1)]
    BY <1>2, LoopFacts DEF CountRunning, schedVars
  <2>2. cur_time' \in [Slot -> Nat]
    <3>1. ticksQ[queueNo[loop.n]] \in Nat
      BY <2>1, MlfqConstants
    <3> QED
      BY <2>1, <3>1 DEF Capped
  <2>3. PreemptInv'
    BY <2>1 DEF PreemptInv
  <2> QED
    BY <2>1, <2>2, <2>3, FrameInv
<1>3. CASE CountWaiting
  <2> DEFINE p == loop.n
  <2>1. /\ p \in Slot /\ state[p] # "RUNNING" /\ loop' \in Loop
        /\ UNCHANGED <<state, cpuproc, preempt>>
    BY <1>3, LoopFacts DEF CountWaiting, Ages, Waits, schedVars
  <2>2. wait_time[p] \in 0..(AGE + 1) /\ AGE \in Nat /\ queueNo[p] \in Queue
    BY <2>1, MlfqConstants
  <2>3. Capped(wait_time[p] + 1, AGE + 1) \in 0..(AGE + 1)
    BY <2>2 DEF Capped
  <2>4. CASE /\ queueNo[p] # 0
             /\ queueNo' = [queueNo EXCEPT ![p] = @ - 1]
             /\ cur_time' = [cur_time EXCEPT ![p] = 0]
             /\ wait_time' = [wait_time EXCEPT ![p] = 0]
             /\ queue' = Push(queue, queueNo'[p], p)
    <3>1. queueNo[p] - 1 \in Queue
      BY <2>2, <2>4, QueueAbove
    <3> HIDE DEF p
    <3>2. queueNo' \in [Slot -> Queue] /\ queueNo'[p] \in Queue
      BY <2>1, <2>4, <3>1
    <3>3. cur_time' \in [Slot -> Nat] /\ wait_time' \in [Slot -> 0..(AGE + 1)]
      BY <2>1, <2>2, <2>4
    <3>4. /\ queue' \in Queues /\ Distinct(queue')
          /\ \A r \in Slot : Has(queue', r) => Has(queue, r) \/ r = p
      BY <2>1, <2>4, <3>2, PushFacts, OneEntryDistinct DEF Queues
    <3>5. \A r \in Slot : state'[r] = "RUNNING" => ~Has(queue', r)
      BY <2>1, <3>4 DEF RunningUnqueued
    <3>6. PreemptInv'
      BY <2>1, <2>4 DEF PreemptInv, OneCpuEach, SchedTypeOK
    <3> QED
      BY <2>1, <3>2, <3>3, <3>4, <3>5, <3>6, QueueInv
  <2>5. CASE /\ wait_time' = [wait_time EXCEPT ![p] = Capped(wait_time[p] + 1, AGE + 1)]
             /\ UNCHANGED <<queue, queueNo, cur_time>>
    <3>1. wait_time' \in [Slot -> 0..(AGE + 1)]
      BY <2>1, <2>3, <2>5
    <3>2. PreemptInv'
      BY <2>1, <2>5 DEF PreemptInv
    <3> QED
      BY <2>1, <2>5, <3>1, <3>2, FrameInv
  <2> QED
    BY <1>3, <2>4, <2>5 DEF CountWaiting, Ages
<1>4. CASE EndTimes
  <2>1. preempt' \in SUBSET Cpu /\ PreemptInv'
    <3>1. 0 \in Cpu
      BY SchedConstants DEF Cpu
    <3>2. /\ UNCHANGED <<cpuproc, queueNo>>
          /\ preempt' = preempt \cup {c \in {0} : SliceUsed(c)}
      BY <1>4 DEF EndTimes, Unlock
    <3>3. \A c \in preempt' : c \in preempt \/ (c = 0 /\ SliceUsed(c))
      BY <3>2
    <3> QED
      BY <3>1, <3>2, <3>3 DEF SliceUsed, PreemptInv
  <2> QED
    BY <1>4, <2>1, LoopFacts, FrameInv DEF EndTimes, Unlock
<1> QED
  BY <1>1, <1>2, <1>3, <1>4 DEF Tick

(* IInv is inductive.                                                      *)
LEMMA StepInv ==
  ASSUME IInv, [Next]_vars
  PROVE  IInv'
<1>1. SchedTypeOK' /\ OneCpuEach'
  BY NextSched, SchedStepInv DEF IInv, TypeOK
<1>2. CASE UNCHANGED vars
  BY <1>2 DEF vars, mlfqVars, schedVars, IInv, TypeOK, SchedTypeOK, OneCpuEach, OneEntry,
              RunningUnqueued, Has, PreemptInv
<1>3. CASE Next
  <2>1. 1 \in Slot /\ 0 \in Cpu
    BY SchedConstants DEF Slot, Cpu
  <2> QED
    BY <1>1, <1>3, <2>1, SchedulerInv, ProcessInv, YieldInv, AllocInv, TickInv
       DEF Next, Kept, IInv
<1> QED
  BY <1>2, <1>3

(* The inductive invariant holds in every reachable state.                 *)
THEOREM Invariance == Spec => []IInv
<1>1. Init => IInv
  BY InitInv
<1>2. IInv /\ [Next]_vars => IInv'
  BY StepInv
<1> QED
  BY <1>1, <1>2, PTL DEF Spec

(* Types, in particular that yield() and aging keep queueNo inside the     *)
(* arrays front, rear, sz and queue it indexes.                            *)
THEOREM TypeCorrect == Spec => []TypeOK
  BY Invariance, PTL DEF IInv

(* No process is ever queued twice.                                        *)
THEOREM QueuedOnce == Spec => []OneEntry
  BY Invariance, PTL DEF IInv

(* No CPU can pop a process that runs on another.                          *)
THEOREM NotQueuedWhileRunning == Spec => []RunningUnqueued
  BY Invariance, PTL DEF IInv

(* The policy follows the scheduling protocol of Sched, so no process ever *)
(* runs on two CPUs.                                                       *)
THEOREM ImplementsSched == Spec => SchedSpec /\ []OneCpuEach
<1>1. Init => SchedInit
  BY DEF Init
<1>2. IInv /\ [Next]_vars => [SchedNext]_schedVars
  BY NextSched DEF IInv
<1>3. IInv => OneCpuEach
  BY DEF IInv
<1> QED
  BY <1>1, <1>2, <1>3, Invariance, PTL DEF Spec, SchedSpec

(* A queue of distinct entries that is full holds every process.           *)
LEMMA FullHasAll ==
  ASSUME TypeOK, OneEntry, NEW i \in Queue, NEW p \in Slot, isFull(queue, i)
  PROVE  Has(queue, p)
<1> SUFFICES ASSUME ~Has(queue, p) PROVE FALSE
  OBVIOUS
<1> DEFINE f == [j \in Slot |-> queue[i][j]]
<1>1. NPROC \in Nat /\ Len(queue[i]) = NPROC
  BY SchedConstants DEF isFull
<1>2. f \in [Slot -> Slot \ {p}]
  <2> SUFFICES ASSUME NEW j \in Slot PROVE queue[i][j] \in Slot \ {p}
    OBVIOUS
  <2>1. j \in 1..Len(queue[i]) /\ queue[i] \in Seq(Slot)
    BY <1>1 DEF TypeOK, Slot
  <2> QED
    BY <2>1 DEF Has
<1>3. IsFiniteSet(Slot) /\ Cardinality(Slot) = NPROC
  BY SchedConstants, FS_Interval DEF Slot
<1>4. IsFiniteSet(Slot \ {p}) /\ Cardinality(Slot \ {p}) = NPROC - 1
  BY <1>3, FS_RemoveElement
<1> HIDE DEF f
<1>5. PICK x \in Slot, y \in Slot : x # y /\ f[x] = f[y]
  BY <1>1, <1>2, <1>3, <1>4, FS_PigeonHole
<1>6. queue[i][x] = queue[i][y]
  BY <1>5 DEF f
<1> QED
  BY <1>1, <1>5, <1>6 DEF OneEntry, Slot

(* push() never drops a process because a queue is full.                   *)
THEOREM PushNeverDrops == Spec => []NeverDropped
<1>1. IInv => NeverDropped
  BY FullHasAll DEF IInv, NeverDropped
<1> QED
  BY <1>1, Invariance, PTL

(* push(), pop(), scheduler(): every queue holds a process at most once,   *)
(* no process that runs, and always has room for one that is not queued.   *)
THEOREM QueuesStaySound == Spec => []QueuesSound
  BY QueuedOnce, NotQueuedWhileRunning, PushNeverDrops, PTL DEF QueuesSound
=============================================================================
