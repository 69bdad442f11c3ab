------------------------------- MODULE Sched -------------------------------
(***************************************************************************)
(* The part of proc.c that every scheduling policy shares: the states of  *)
(* the slots of ptable, the process each CPU runs, and the way ptable.lock*)
(* is handed from the scheduler to the process it switches to and back.   *)
(*                                                                        *)
(* A section of code under ptable.lock is one action unless it calls      *)
(* sched() or swtch(): there the lock stays with the CPU while control    *)
(* moves between the process and the CPU's scheduler thread.  A CPU whose *)
(* cpuproc is Null runs scheduler(); modules Policy and Mlfq say which   *)
(* process that picks, module ProcTable adds the rest of the process      *)
(* table.                                                                 *)
(***************************************************************************)
EXTENDS Integers

CONSTANTS NPROC,      \* slots of ptable.proc
          NCPU        \* processors

ASSUME SchedConstants == NPROC \in Nat \ {0} /\ NCPU \in Nat \ {0}

VARIABLES state,      \* p->state
          cpuproc,    \* cpus[c].proc
          ptlock      \* the CPU that holds ptable.lock

schedVars == <<state, cpuproc, ptlock>>

Slot == 1..NPROC
Cpu  == 0..(NCPU - 1)
Null == 0             \* the null struct proc*
Free == -1            \* nobody holds ptable.lock
initproc == 1

ProcState == {"UNUSED", "EMBRYO", "SLEEPING", "RUNNABLE", "RUNNING", "ZOMBIE"}

SchedTypeOK ==
  /\ state \in [Slot -> ProcState]
  /\ cpuproc \in [Cpu -> Slot \cup {Null}]
  /\ ptlock \in Cpu \cup {Free}

(* userinit(): the first process is runnable in the first slot.            *)
SchedInit ==
  /\ state = [p \in Slot |-> IF p = initproc THEN "RUNNABLE" ELSE "UNUSED"]
  /\ cpuproc = [c \in Cpu |-> Null]
  /\ ptlock = Free
-----------------------------------------------------------------------------
(* CPU c takes ptable.lock, and gives it back.                             *)
Lock(c)   == ptlock = Free /\ ptlock' = c /\ UNCHANGED <<state, cpuproc>>
Unlock(c) == ptlock = c /\ ptlock' = Free /\ UNCHANGED <<state, cpuproc>>
-----------------------------------------------------------------------------
(* The scheduler thread of a CPU.                                          *)

InScheduler(c) == cpuproc[c] = Null /\ ptlock = c

SchedAcquire(c) == cpuproc[c] = Null /\ Lock(c)

(* Faulty: the scheduler does not mark the process RUNNING.                *)
SwitchUnmarked(c, p) ==
  /\ InScheduler(c)
  /\ state[p] = "RUNNABLE"
  /\ cpuproc' = [cpuproc EXCEPT ![c] = p]
  /\ UNCHANGED <<state, ptlock>>

(* swtch() to p, which now owns the lock its CPU holds.                    *)
Switch(c, p) ==
  /\ InScheduler(c)
  /\ state[p] = "RUNNABLE"
  /\ state' = [state EXCEPT ![p] = "RUNNING"]
  /\ cpuproc' = [cpuproc EXCEPT ![c] = p]
  /\ UNCHANGED ptlock

SchedRelease(c) == cpuproc[c] = Null /\ Unlock(c)

(* The process that swtch() resumed releases the lock: the ends of yield() *)
(* and sleep(), and forkret().                                             *)
Resume(c) == cpuproc[c] # Null /\ Unlock(c)
-----------------------------------------------------------------------------
(* The process that runs on CPU c.                                         *)

Runs(c) == cpuproc[c] # Null /\ ptlock = Free

(* It takes ptable.lock, or holds it already because sched() has returned  *)
(* to the loop of wait().                                                  *)
MayLock(c) == cpuproc[c] # Null /\ ptlock \in {Free, c}

(* wakeup1() on a channel the processes of W sleep on.                     *)
Awaken(W) == [p \in Slot |-> IF p \in W /\ state[p] = "SLEEPING" THEN "RUNNABLE" ELSE state[p]]

(* sched() after the state of the current process was set to s, W woken in *)
(* the same section: control returns to the scheduler thread, which clears *)
(* c->proc and still holds the lock.                                       *)
GiveUp(c, s, W) ==
  /\ state' = [Awaken(W) EXCEPT ![cpuproc[c]] = s]
  /\ cpuproc' = [cpuproc EXCEPT ![c] = Null]
  /\ ptlock' = c

Yield(c)   == Runs(c) /\ GiveUp(c, "RUNNABLE", {})
Sleep(c)   == MayLock(c) /\ GiveUp(c, "SLEEPING", {})
Exit(c, W) == Runs(c) /\ cpuproc[c] # initproc /\ GiveUp(c, "ZOMBIE", W)

(* allocproc() takes the first unused slot.                                *)
AllocProc(c, p) ==
  /\ Runs(c)
  /\ state[p] = "UNUSED" /\ \A q \in 1..(p - 1) : state[q] # "UNUSED"
  /\ state' = [state EXCEPT ![p] = "EMBRYO"]
  /\ UNCHANGED <<cpuproc, ptlock>>

(* fork() when kalloc() or copyuvm() fails: no lock is held.               *)
ForkFail(c, p) ==
  /\ cpuproc[c] # Null /\ ptlock # c
  /\ state[p] = "EMBRYO"
  /\ state' = [state EXCEPT ![p] = "UNUSED"]
  /\ UNCHANGED <<cpuproc, ptlock>>

ForkDone(c, p) ==
  /\ Runs(c)
  /\ state[p] = "EMBRYO"
  /\ state' = [state EXCEPT ![p] = "RUNNABLE"]
  /\ UNCHANGED <<cpuproc, ptlock>>

(* wait() and waitx() free the slot of a zombie.                           *)
Reap(c, p) ==
  /\ MayLock(c)
  /\ state[p] = "ZOMBIE"
  /\ state' = [state EXCEPT ![p] = "UNUSED"]
  /\ ptlock' = Free
  /\ UNCHANGED cpuproc

(* wakeup(), from a process or an interrupt handler, and kill().           *)
Wakeup(W) ==
  /\ ptlock = Free
  /\ state' = Awaken(W)
  /\ UNCHANGED <<cpuproc, ptlock>>

SchedNext ==
  \/ \E c \in Cpu :
       \/ Lock(c) \/ Unlock(c)
       \/ Yield(c) \/ Sleep(c) \/ \E W \in SUBSET Slot : Exit(c, W)
       \/ \E p \in Slot : \/ Switch(c, p) \/ AllocProc(c, p)
                          \/ ForkFail(c, p) \/ ForkDone(c, p) \/ Reap(c, p)
  \/ \E W \in SUBSET Slot : Wakeup(W)

SchedSpec == SchedInit /\ [][SchedNext]_schedVars
-----------------------------------------------------------------------------
(* A CPU's proc is the process in state RUNNING on it: no process runs on  *)
(* two CPUs (two kernel threads would share one stack), none is RUNNING    *)
(* without a CPU, and a CPU in its scheduler has none.                     *)
OneCpuEach ==
  /\ \A c \in Cpu : cpuproc[c] # Null => state[cpuproc[c]] = "RUNNING"
  /\ \A c, d \in Cpu : cpuproc[c] = cpuproc[d] /\ cpuproc[c] # Null => c = d
  /\ \A p \in Slot : state[p] = "RUNNING" => \E c \in Cpu : cpuproc[c] = p
=============================================================================
