------------------------------- MODULE Policy -------------------------------
(***************************************************************************)
(* The scheduling policies that scan the process table: scheduler() and    *)
(* the end of trap() as built with SCHEDULER=ROUND_ROBIN, FCFS or PBS (the *)
(* MLFQ policy has queues of its own and is module Mlfq).                  *)
(*                                                                         *)
(* The states of the slots, the CPUs and ptable.lock come from module      *)
(* Sched.  Which process forks, waits for or wakes which other does not    *)
(* matter to the policies: module ProcTable has the rest.                  *)
(***************************************************************************)
EXTENDS Sched

CONSTANTS Builds,            \* the values of SCHEDULER that are built
          Priority,          \* priorities that set_priority() is called with
          DefaultPriority,   \* 60
          MaxTicks           \* bound on ticks: later ones count as MaxTicks

ASSUME PolicyConstants ==
  /\ Builds \subseteq {"ROUND_ROBIN", "FCFS", "PBS"}
  /\ Priority \subseteq Nat /\ DefaultPriority \in Nat /\ MaxTicks \in Nat

VARIABLES SCHEDULER,    \* the policy that was built, which never changes
          scan,         \* loop variable p of each CPU's scheduler()
          ticks,
          start_time,   \* p->start_time
          priority,     \* p->priority
          trap          \* what each CPU has left to do at the end of trap()

policyVars == <<SCHEDULER, scan, ticks, start_time, priority, trap>>
vars == <<SCHEDULER, state, cpuproc, ptlock, scan, ticks, start_time, priority, trap>>

NoTrap == [pc |-> "none", priority |-> 0, timer |-> FALSE]

Yielding == [NoTrap EXCEPT !.pc = "yield"]

TypeOK ==
  /\ SchedTypeOK
  /\ SCHEDULER \in Builds
  /\ scan \in [Cpu -> 0..NPROC]
  /\ ticks \in 0..MaxTicks
  /\ start_time \in [Slot -> 0..MaxTicks]
  /\ priority \in [Slot -> Priority \cup {DefaultPriority}]
  /\ trap \in [Cpu -> [pc : {"none", "check", "yield"}, priority : Nat, timer : BOOLEAN]]

Init ==
  /\ SchedInit
  /\ SCHEDULER \in Builds
  /\ scan = [c \in Cpu |-> 0]
  /\ ticks = 0
  /\ start_time = [p \in Slot |-> 0]
  /\ priority = [p \in Slot |-> DefaultPriority]
  /\ trap = [c \in Cpu |-> NoTrap]
-----------------------------------------------------------------------------
(* scheduler().                                                            *)

Runnable == {p \in Slot : state[p] = "RUNNABLE"}

First(S) == CHOOSE p \in S : \A q \in S : p <= q

(* The first of the processes in S with the least value of field.          *)
Least(S, field) == First({p \in S : \A q \in S : field[p] <= field[q]})

(* What the for loop still has before it.                                  *)
Ahead(c) == {p \in Runnable : p > scan[c]}

(* Faulty: the inner loop prefers the numerically greatest.                *)
PickLowest(c) ==
  LET p == First(Ahead(c)) IN
  IF SCHEDULER = "ROUND_ROBIN" THEN p
  ELSE IF SCHEDULER = "FCFS" THEN Least(Ahead(c), [q \in Slot |-> -start_time[q]])
  ELSE Least(Runnable, [q \in Slot |-> -priority[q]])

(* FCFS looks at the whole table for the earliest start_time.  PBS takes   *)
(* the process the loop has come to, unless another in the table has a     *)
(* numerically lower priority.                                             *)
Pick(c) ==
  LET p == First(Ahead(c)) IN
  IF SCHEDULER = "ROUND_ROBIN" THEN p
  ELSE IF SCHEDULER = "FCFS" THEN Least(Ahead(c), start_time)
  ELSE IF \E q \in Runnable : priority[q] < priority[p] THEN Least(Runnable, priority)
  ELSE p

BeginPass(c) ==
  /\ SchedAcquire(c)
  /\ scan' = [scan EXCEPT ![c] = 0]
  /\ UNCHANGED <<SCHEDULER, ticks, start_time, priority, trap>>

(* Faulty: the loop starts again when the process comes back.              *)
RunRestarts(c) ==
  /\ Ahead(c) # {}
  /\ Switch(c, Pick(c))
  /\ scan' = [scan EXCEPT ![c] = 0]
  /\ UNCHANGED <<SCHEDULER, ticks, start_time, priority, trap>>

(* Switch to the process.  When it comes back the loop goes on behind it;  *)
(* FCFS ends the pass.  PBS uses p both for the loop and for its choice.   *)
Run(c) ==
  /\ Ahead(c) # {}
  /\ Switch(c, Pick(c))
  /\ scan' = [scan EXCEPT ![c] = IF SCHEDULER = "FCFS" THEN NPROC ELSE Pick(c)]
  /\ UNCHANGED <<SCHEDULER, ticks, start_time, priority, trap>>

EndPass(c) == Ahead(c) = {} /\ SchedRelease(c) /\ UNCHANGED policyVars
-----------------------------------------------------------------------------
(* The end of trap().                                                      *)

(* checkPremption() compares with every slot that has a pid, sleeping ones *)
(* and the process itself included.                                        *)
checkPremption(own, f) ==
  \E q \in Slot :
    /\ state[q] # "UNUSED"
    /\ IF f THEN priority[q] <= own ELSE priority[q] < own

(* The end of trap() that an interrupt of the timer or a device leads to:  *)
(* FCFS never preempts, round robin on the timer.  PBS passes the priority *)
(* that the process has now.                                               *)
Ending(c, timer) ==
  IF SCHEDULER = "PBS" THEN [pc |-> "check", priority |-> priority[cpuproc[c]], timer |-> timer]
  ELSE IF SCHEDULER = "ROUND_ROBIN" /\ timer THEN Yielding
  ELSE NoTrap

(* A timer interrupt of CPU 0 counts the tick.                             *)
Count(c, timer) ==
  ticks' = IF timer /\ c = 0 /\ ticks < MaxTicks THEN ticks + 1 ELSE ticks

(* An interrupt while CPU c runs a process; modify_times() takes           *)
(* ptable.lock.                                                            *)
Interrupt(c, timer) ==
  /\ cpuproc[c] # Null /\ ptlock # c /\ trap[c] = NoTrap
  /\ timer /\ c = 0 => ptlock = Free
  /\ Count(c, timer)
  /\ trap' = [trap EXCEPT ![c] = Ending(c, timer)]
  /\ UNCHANGED <<SCHEDULER, schedVars, scan, start_time, priority>>

(* checkPremption(), a section under ptable.lock ...                       *)
Check(c) ==
  /\ Runs(c) /\ trap[c].pc = "check"
  /\ trap' = [trap EXCEPT ![c] = IF checkPremption(@.priority, @.timer) THEN Yielding ELSE NoTrap]
  /\ UNCHANGED <<SCHEDULER, schedVars, scan, ticks, start_time, priority>>

(* ... and yield(), which takes the lock anew.                             *)
Preempt(c) ==
  /\ trap[c].pc = "yield"
  /\ Yield(c)
  /\ trap' = [trap EXCEPT ![c] = NoTrap]
  /\ UNCHANGED <<SCHEDULER, scan, ticks, start_time, priority>>

(* The timer while CPU 0 is between two passes of scheduler().             *)
IdleTick ==
  /\ cpuproc[0] = Null /\ ptlock = Free
  /\ Count(0, TRUE)
  /\ UNCHANGED <<SCHEDULER, schedVars, scan, start_time, priority, trap>>
-----------------------------------------------------------------------------
(* System calls of the process on CPU c, while no interrupt is handled.    *)

allocproc(c, p) ==
  /\ AllocProc(c, p) /\ trap[c] = NoTrap
  /\ start_time' = [start_time EXCEPT ![p] = ticks]
  /\ priority' = [priority EXCEPT ![p] = DefaultPriority]
  /\ UNCHANGED <<SCHEDULER, scan, ticks, trap>>

set_priority(c, p, new) ==
  /\ Runs(c) /\ state[p] # "UNUSED" /\ trap[c] = NoTrap
  /\ priority' = [priority EXCEPT ![p] = new]
  /\ UNCHANGED <<SCHEDULER, schedVars, scan, ticks, start_time, trap>>

Others(c) ==
  /\ trap[c] = NoTrap
  /\ \/ \E p \in Slot : ForkDone(c, p) \/ Reap(c, p)
     \/ Sleep(c) \/ Exit(c, {})
     \/ \E p \in Slot : state[p] = "SLEEPING" /\ Wakeup({p})
  /\ UNCHANGED policyVars

Scheduler(c) == BeginPass(c) \/ Run(c) \/ EndPass(c)

Return(c) == Resume(c) /\ UNCHANGED policyVars

Next ==
  \/ \E c \in Cpu :
       \/ Scheduler(c) \/ Return(c) \/ Others(c) \/ Check(c) \/ Preempt(c)
       \/ \E timer \in BOOLEAN : Interrupt(c, timer)
       \/ \E p \in Slot : allocproc(c, p) \/ \E new \in Priority : set_priority(c, p, new)
  \/ IdleTick

Spec == Init /\ [][Next]_vars

(* The CPUs run, and the timer interrupts whatever process runs on them.   *)
FairSpec ==
  /\ Spec
  /\ \A c \in Cpu : /\ WF_vars(Scheduler(c))
                    /\ WF_vars(Return(c))
                    /\ WF_vars(Interrupt(c, TRUE))
                    /\ WF_vars(Check(c) \/ Preempt(c))
-----------------------------------------------------------------------------
(* Properties.                                                             *)

Competes(p) == state[p] \in {"RUNNABLE", "RUNNING"}

(* Round robin: no process stays RUNNABLE for ever, although the scan      *)
(* stops and goes on around every process it runs and slots come and go.   *)
EveryoneRuns ==
  SCHEDULER = "ROUND_ROBIN" => \A p \in Slot : ~<>[](state[p] = "RUNNABLE")

(* PBS: "Process with highest priority (numerically least) is to be        *)
(* executed first" and a lower one is preempted: a process that has the    *)
(* highest priority, alone, does not stay RUNNABLE.                        *)
HighestRuns ==
  SCHEDULER = "PBS" =>
    \A p \in Slot :
      ~<>[](/\ state[p] = "RUNNABLE"
            /\ \A q \in Slot \ {p} : Competes(q) => priority[p] < priority[q])

(* PBS: "Processes with same priority are executed in a round robin        *)
(* fashion": a process does not stay RUNNABLE for ever while no process    *)
(* has a higher priority.                                                  *)
EqualsTakeTurns ==
  SCHEDULER = "PBS" =>
    \A p \in Slot :
      ~<>[](/\ state[p] = "RUNNABLE"
            /\ \A q \in Slot : Competes(q) => priority[p] <= priority[q])

(* FCFS: if no process keeps its CPU for ever, the one that started first  *)
(* does not stay RUNNABLE.                                                 *)
OldestRuns ==
  SCHEDULER = "FCFS" /\ (\A q \in Slot : ~<>[](state[q] = "RUNNING")) =>
    \A p \in Slot :
      ~<>[](/\ state[p] = "RUNNABLE"
            /\ \A q \in Slot \ {p} : Competes(q) => start_time[p] < start_time[q])

(* PBS and FCFS: the process that the policy puts first runs.              *)
FirstRuns == HighestRuns /\ OldestRuns
=============================================================================
