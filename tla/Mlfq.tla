-------------------------------- MODULE Mlfq --------------------------------
(***************************************************************************)
(* The multi-level feedback queue scheduler (SCHEDULER=MLFQ): the queues, *)
(* push() and pop(), scheduler(), yield(), the preemption test of trap()  *)
(* and the aging in modify_times().                                       *)
(*                                                                        *)
(* The loops that push and pop run under ptable.lock; they are modelled   *)
(* turn by turn, with the lock held, so that each action calls push() or  *)
(* pop() once.  A queue is the sequence of its entries, which the arrays  *)
(* front, rear, sz and queue represent as a ring.                         *)
(***************************************************************************)
EXTENDS Sched, Sequences

CONSTANTS NQUEUE,    \* number of queues (5 in the code)
          AGE,       \* ticks a process waits before it ages (20 in types.h)
          ticksQ     \* the slice of each queue (1, 2, 4, 8, 16: main())

Queue == 0..(NQUEUE - 1)
Lowest == NQUEUE - 1

ASSUME MlfqConstants ==
  /\ NQUEUE \in Nat \ {0}
  /\ AGE \in Nat
  /\ ticksQ \in [Queue -> Nat]

VARIABLES queue,      \* the entries of each queue
          queueNo,    \* p->queueNo
          cur_time,   \* p->cur_time, saturated just above its slice
          wait_time,  \* p->wait_time, saturated at AGE + 1
          preempt,    \* CPUs whose trap() has decided to call yield()
          loop        \* the loop the holder of ptable.lock is in

mlfqVars == <<queue, queueNo, cur_time, wait_time, preempt, loop>>
vars     == <<schedVars, mlfqVars>>

(* at: "none", "select" (scanning queue i, n entries seen), "rescue" or    *)
(* "times" (at slot n).                                                    *)
Loop == [at : {"none", "select", "rescue", "times"}, i : 0..NQUEUE, n : Nat]
NoLoop == [at |-> "none", i |-> 0, n |-> 0]

TypeOK ==
  /\ SchedTypeOK
  /\ queue \in [Queue -> Seq(Slot)]
  /\ queueNo \in [Slot -> Queue]
  /\ cur_time \in [Slot -> Nat]
  /\ wait_time \in [Slot -> 0..(AGE + 1)]
  /\ preempt \in SUBSET Cpu
  /\ loop \in Loop

InQueue(p, i) == \E j \in 1..Len(queue[i]) : queue[i][j] = p

(* push(): does nothing for a process that is in some queue already, or    *)
(* when the queue is full.                                                 *)
isFull(q, i) == Len(q[i]) = NPROC
Has(q, p) == \E i \in Queue : \E j \in 1..Len(q[i]) : q[i][j] = p
AcceptsTwice(q, i, p) == ~isFull(q, i)            \* faulty: queued already?
Accepts(q, i, p) == ~Has(q, p) /\ ~isFull(q, i)
Push(q, i, p) == IF Accepts(q, i, p) THEN [q EXCEPT ![i] = Append(@, p)] ELSE q

pop(q, i) == [q EXCEPT ![i] = Tail(@)]

Init ==
  /\ SchedInit
  /\ queue = [i \in Queue |-> IF i = 0 THEN <<initproc>> ELSE << >>]
  /\ queueNo = [p \in Slot |-> 0]
  /\ cur_time = [p \in Slot |-> 0]
  /\ wait_time = [p \in Slot |-> 0]
  /\ preempt = {}
  /\ loop = NoLoop
-----------------------------------------------------------------------------
(* scheduler().                                                            *)

StartSelect(c) ==
  /\ SchedAcquire(c)
  /\ loop' = [at |-> "select", i |-> 0, n |-> 0]
  /\ UNCHANGED <<queue, queueNo, cur_time, wait_time, preempt>>

Selecting(c) == InScheduler(c) /\ loop.at = "select" /\ loop.i < NQUEUE

(* Queue i has no entry left to look at: on to the next one.               *)
NextQueue(c) ==
  /\ Selecting(c) /\ loop.n >= Len(queue[loop.i])
  /\ loop' = [at |-> "select", i |-> loop.i + 1, n |-> 0]
  /\ UNCHANGED <<schedVars, queue, queueNo, cur_time, wait_time, preempt>>

(* The entry popped is not runnable: it goes to the back of its queue.     *)
Rotate(c) ==
  LET q == queue[loop.i]
      popped == pop(queue, loop.i)
  IN /\ Selecting(c) /\ loop.n < Len(q)
     /\ state[Head(q)] # "RUNNABLE"
     /\ queue' = Push(popped, loop.i, Head(q))
     /\ cur_time' = [cur_time EXCEPT ![Head(q)] =
                       IF Accepts(popped, loop.i, Head(q)) THEN 0 ELSE @]
     /\ loop' = [loop EXCEPT !.n = @ + 1]
     /\ UNCHANGED <<schedVars, queueNo, wait_time, preempt>>

(* The entry popped is runnable: it runs and is in no queue meanwhile.     *)
Run(c) ==
  LET q == queue[loop.i]
  IN /\ Selecting(c) /\ loop.n < Len(q)
     /\ Switch(c, Head(q))
     /\ queue' = pop(queue, loop.i)
     /\ wait_time' = [wait_time EXCEPT ![Head(q)] = 0]
     /\ loop' = NoLoop
     /\ UNCHANGED <<queueNo, cur_time, preempt>>

(* After the process has come back, or if none was found, the runnable     *)
(* processes that are in no queue are pushed to queue 0.                   *)
StartRescue(c) ==
  /\ InScheduler(c) /\ loop.at = "select" /\ loop.i = NQUEUE
  /\ loop' = [at |-> "rescue", i |-> 0, n |-> 1]
  /\ UNCHANGED <<schedVars, queue, queueNo, cur_time, wait_time, preempt>>

(* Faulty: nobody queues a process that wakeup1() made runnable.           *)
RescueNone(c) ==
  /\ InScheduler(c) /\ loop.at = "rescue" /\ loop.n \in Slot
  /\ loop' = [loop EXCEPT !.n = @ + 1]
  /\ UNCHANGED <<schedVars, queue, cur_time, queueNo, wait_time, preempt>>

Rescue(c) ==
  /\ InScheduler(c) /\ loop.at = "rescue" /\ loop.n \in Slot
  /\ IF state[loop.n] = "RUNNABLE"
     THEN /\ queue' = Push(queue, 0, loop.n)
          /\ cur_time' = [cur_time EXCEPT ![loop.n] =
                            IF Accepts(queue, 0, loop.n) THEN 0 ELSE @]
     ELSE UNCHANGED <<queue, cur_time>>
  /\ loop' = [loop EXCEPT !.n = @ + 1]
  /\ UNCHANGED <<schedVars, queueNo, wait_time, preempt>>

EndRescue(c) ==
  /\ SchedRelease(c) /\ loop.at = "rescue" /\ loop.n \notin Slot
  /\ loop' = NoLoop
  /\ UNCHANGED <<queue, queueNo, cur_time, wait_time, preempt>>

Continue(c) ==
  /\ Resume(c) /\ loop.at = "none"
  /\ UNCHANGED mlfqVars
-----------------------------------------------------------------------------
(* The running process.                                                    *)

BackToScheduler == loop' = [at |-> "rescue", i |-> 0, n |-> 1]

(* The test trap() makes at the end of an interrupt, without ptable.lock:  *)
(* the process has used up its slice.                                      *)
SliceUsed(c) ==
  /\ cpuproc[c] # Null
  /\ queueNo[cpuproc[c]] # Lowest
  /\ cur_time[cpuproc[c]] > ticksQ[queueNo[cpuproc[c]]]

(* Any interrupt but the timer of CPU 0.                                   *)
TrapPreempt(c) ==
  /\ SliceUsed(c) /\ ptlock # c /\ c \notin preempt
  /\ preempt' = preempt \cup {c}
  /\ UNCHANGED <<schedVars, queue, queueNo, cur_time, wait_time, loop>>

MlfqYield(c) ==
  LET p == cpuproc[c]
  IN /\ c \in preempt /\ Yield(c)
     /\ queueNo' = [queueNo EXCEPT ![p] = @ + 1]
     /\ cur_time' = [cur_time EXCEPT ![p] = 0]
     /\ queue' = Push(queue, queueNo'[p], p)
     /\ preempt' = preempt \ {c}
     /\ BackToScheduler
     /\ UNCHANGED wait_time

MlfqSleep(c) ==
  /\ c \notin preempt /\ loop.at = "none" /\ Sleep(c)
  /\ BackToScheduler
  /\ UNCHANGED <<queue, queueNo, cur_time, wait_time, preempt>>

MlfqExit(c) ==
  /\ c \notin preempt /\ Exit(c, {})
  /\ BackToScheduler
  /\ UNCHANGED <<queue, queueNo, cur_time, wait_time, preempt>>

(* allocproc() pushes to the first queue that is not full, as EMBRYO.      *)
MlfqAlloc(c, p) ==
  LET open == {i \in Queue : ~isFull(queue, i)}
  IN /\ c \notin preempt /\ AllocProc(c, p)
     /\ queueNo' = [queueNo EXCEPT ![p] = 0]
     /\ cur_time' = [cur_time EXCEPT ![p] = 0]
     /\ wait_time' = [wait_time EXCEPT ![p] = 0]
     /\ \/ open = {} /\ UNCHANGED queue
        \/ \E i \in open : /\ \A k \in open : i <= k
                           /\ queue' = Push(queue, i, p)
     /\ UNCHANGED <<preempt, loop>>

(* The rest of fork() and of wait(), and wakeup1(), touch only p->state.   *)
MlfqFork(c, p) ==
  /\ c \notin preempt /\ (ForkFail(c, p) \/ ForkDone(c, p))
  /\ UNCHANGED mlfqVars

MlfqReap(c, p) ==
  /\ c \notin preempt /\ loop.at = "none" /\ Reap(c, p)
  /\ UNCHANGED mlfqVars

MlfqWakeup(p) ==
  /\ state[p] = "SLEEPING" /\ Wakeup({p})
  /\ UNCHANGED mlfqVars
-----------------------------------------------------------------------------
(* modify_times(), from the timer interrupt of CPU 0.                      *)

StartTimes ==
  /\ Lock(0) /\ 0 \notin preempt
  /\ loop' = [at |-> "times", i |-> 0, n |-> 1]
  /\ UNCHANGED <<queue, queueNo, cur_time, wait_time, preempt>>

Capped(n, max) == IF n > max THEN max ELSE n

CountRunning ==
  /\ loop.at = "times" /\ loop.n \in Slot
  /\ state[loop.n] = "RUNNING"
  /\ cur_time' = [cur_time EXCEPT ![loop.n] = Capped(@ + 1, ticksQ[queueNo[loop.n]] + 1)]
  /\ loop' = [loop EXCEPT !.n = @ + 1]
  /\ UNCHANGED <<schedVars, queue, queueNo, wait_time, preempt>>

Waits(p) == state[p] # "RUNNING"

Ages(p, waited) == queueNo[p] # 0 /\ waited > AGE

(* Every slot that is not RUNNING waits, whatever its state; one below     *)
(* queue 0 that has waited longer than AGE moves up a level.               *)
CountWaiting ==
  LET p == loop.n
      waited == Capped(wait_time[p] + 1, AGE + 1)
  IN /\ loop.at = "times" /\ p \in Slot
     /\ Waits(p)
     /\ IF Ages(p, waited)
        THEN /\ queueNo' = [queueNo EXCEPT ![p] = @ - 1]
             /\ cur_time' = [cur_time EXCEPT ![p] = 0]
             /\ wait_time' = [wait_time EXCEPT ![p] = 0]
             /\ queue' = Push(queue, queueNo'[p], p)
        ELSE /\ wait_time' = [wait_time EXCEPT ![p] = waited]
             /\ UNCHANGED <<queue, queueNo, cur_time>>
     /\ loop' = [loop EXCEPT !.n = @ + 1]
     /\ UNCHANGED <<schedVars, preempt>>

(* modify_times() returns and trap() tests whether to preempt.             *)
EndTimes ==
  /\ loop.at = "times" /\ loop.n \notin Slot
  /\ Unlock(0)
  /\ loop' = NoLoop
  /\ preempt' = preempt \cup {c \in {0} : SliceUsed(c)}
  /\ UNCHANGED <<queue, queueNo, cur_time, wait_time>>

Scheduler(c) ==
  \/ StartSelect(c) \/ NextQueue(c) \/ Rotate(c) \/ Run(c)
  \/ StartRescue(c) \/ Rescue(c) \/ EndRescue(c)

Tick == StartTimes \/ CountRunning \/ CountWaiting \/ EndTimes

Next ==
  \/ \E c \in Cpu :
       \/ Scheduler(c) \/ Continue(c)
       \/ TrapPreempt(c) \/ MlfqYield(c) \/ MlfqSleep(c) \/ MlfqExit(c)
       \/ \E p \in Slot : MlfqAlloc(c, p) \/ MlfqFork(c, p) \/ MlfqReap(c, p)
  \/ \E p \in Slot : MlfqWakeup(p)
  \/ Tick

Spec == Init /\ [][Next]_vars

(* Kernel code runs on, the scheduler opens a window for interrupts on     *)
(* every round (sti) and timer interrupts keep coming.  A process in the   *)
(* lowest queue is never preempted, so nothing can be promised unless no   *)
(* process computes for ever: each one sleeps now and then.                *)
FairSpec ==
  /\ Spec
  /\ \A c \in Cpu : /\ SF_vars(StartSelect(c)) /\ WF_vars(Scheduler(c))
                    /\ WF_vars(Continue(c)) /\ WF_vars(MlfqYield(c))
                    /\ SF_vars(MlfqSleep(c))
  /\ SF_vars(StartTimes) /\ WF_vars(CountRunning \/ CountWaiting \/ EndTimes)
-----------------------------------------------------------------------------
(* Properties.                                                             *)

(* A process has at most one entry in all the queues together, although    *)
(* allocproc(), yield(), the scheduler and aging all push it.              *)
OneEntry ==
  \A i, k \in Queue : \A j \in 1..Len(queue[i]), m \in 1..Len(queue[k]) :
    queue[i][j] = queue[k][m] => i = k /\ j = m

(* A running process is in no queue, so no second CPU can pop it.          *)
RunningUnqueued == \A p \in Slot : state[p] = "RUNNING" => ~Has(queue, p)

(* push() never meets a full queue ("Error: Queue is Full"), which would   *)
(* drop the process: only a process that is queued already finds one full. *)
NeverDropped == \A p \in Slot, i \in Queue : ~Has(queue, p) => ~isFull(queue, i)

(* push(), pop(), scheduler(): the queues hold every waiting process once, *)
(* running processes not at all, and have room.                            *)
QueuesSound == OneEntry /\ RunningUnqueued /\ NeverDropped

(* A runnable process does not get lost: wakeup1() makes it runnable       *)
(* without pushing it, but the scheduler finds it and queues it.           *)
RunnableQueued ==
  \A p \in Slot : state[p] = "RUNNABLE" ~> (Has(queue, p) \/ state[p] # "RUNNABLE")

(* "Aging prevents starvation": a runnable process runs in the end.        *)
NoStarvation == \A p \in Slot : state[p] = "RUNNABLE" ~> state[p] = "RUNNING"

(* p->queueNo, which getpinfo() reports, is the queue the process is in.   *)
QueueNoIsQueue ==
  \A p \in Slot, i \in Queue :
    state[p] = "RUNNABLE" /\ InQueue(p, i) => queueNo[p] = i

(* A new process starts in queue 0.                                        *)
StartsInQueue0 ==
  \A p \in Slot, i \in Queue : state[p] = "EMBRYO" /\ InQueue(p, i) => i = 0
=============================================================================
