----------------------------- MODULE ProcTable -----------------------------
(***************************************************************************)
(* The process table of proc.c: creation, exit, reaping, killing and      *)
(* sleeping of processes on several CPUs, whatever the scheduling policy  *)
(* (a CPU picks any runnable process).  The scheduling states and the     *)
(* hand-over of ptable.lock are those of module Sched; this module adds   *)
(* pids, parents, channels, kill flags and where each process is in the   *)
(* kernel.                                                                *)
(***************************************************************************)
EXTENDS Sched

CONSTANTS Event,     \* channels other than the address of a process
          MaxPid,    \* bound on nextpid
          KillPids   \* arguments of kill() that processes use

ASSUME ProcTableConstants ==
  /\ Event \cap (Slot \cup {Null}) = {}
  /\ MaxPid \in Nat \ {0}
  /\ KillPids \subseteq Nat

VARIABLES pid, parent, chan, killed,   \* fields of struct proc
          nextpid,
          kpc,      \* where the process is in its system call
          np        \* the child fork() is building

procVars == <<pid, parent, chan, killed, nextpid, kpc, np>>
vars     == <<schedVars, procVars>>

(* "user": user mode; "sys": in a system call; "fork", "forked": in fork() *)
(* before and after the child has a parent; "wait": in wait() or waitx();  *)
(* "exit": in exit() before it takes ptable.lock.                          *)
Location == {"user", "sys", "fork", "forked", "wait", "exit"}

TypeOK ==
  /\ SchedTypeOK
  /\ pid \in [Slot -> 0..MaxPid]
  /\ parent \in [Slot -> Slot \cup {Null}]
  /\ chan \in [Slot -> Slot \cup Event \cup {Null}]
  /\ killed \in [Slot -> BOOLEAN]
  /\ nextpid \in 2..(MaxPid + 1)
  /\ kpc \in [Slot -> Location]
  /\ np \in [Slot -> Slot \cup {Null}]

Init ==
  /\ SchedInit
  /\ pid = [p \in Slot |-> IF p = initproc THEN 1 ELSE 0]
  /\ parent = [p \in Slot |-> Null]
  /\ chan = [p \in Slot |-> Null]
  /\ killed = [p \in Slot |-> FALSE]
  /\ nextpid = 2
  /\ kpc = [p \in Slot |-> "user"]
  /\ np = [p \in Slot |-> Null]
-----------------------------------------------------------------------------
cur(c) == cpuproc[c]
At(c, loc) == cpuproc[c] # Null /\ kpc[cpuproc[c]] = loc
Goto(c, loc) == kpc' = [kpc EXCEPT ![cur(c)] = loc]

SchedLock(c)   == SchedAcquire(c) /\ UNCHANGED procVars
SchedUnlock(c) == SchedRelease(c) /\ UNCHANGED procVars

(* scheduler() switches to p; if p comes back into sleep() it clears       *)
(* p->chan before anybody else can take the lock.                          *)
Run(c, p) ==
  /\ Switch(c, p)
  /\ chan' = [chan EXCEPT ![p] = Null]
  /\ UNCHANGED <<pid, parent, killed, nextpid, kpc, np>>

(* forkret(), or the end of yield() or of sleep() with another lock.       *)
Continue(c) ==
  /\ Resume(c) /\ kpc[cur(c)] # "wait"
  /\ UNCHANGED procVars

(* trap(): a system call of a process that is not killed.                  *)
Syscall(c) ==
  /\ At(c, "user") /\ ptlock # c /\ ~killed[cur(c)]
  /\ Goto(c, "sys")
  /\ UNCHANGED <<schedVars, pid, parent, chan, killed, nextpid, np>>

SysReturn(c) ==
  /\ At(c, "sys") /\ ptlock # c
  /\ Goto(c, "user")
  /\ UNCHANGED <<schedVars, pid, parent, chan, killed, nextpid, np>>

(* trap(): a fault in user space kills the process.                        *)
Fault(c) ==
  /\ At(c, "user") /\ ptlock # c /\ cur(c) # initproc
  /\ killed' = [killed EXCEPT ![cur(c)] = TRUE]
  /\ UNCHANGED <<schedVars, pid, parent, chan, nextpid, kpc, np>>

(* trap(): the timer preempts, in user or in kernel mode; a killed process *)
(* in user mode exits instead.                                             *)
Preempt(c) ==
  /\ Yield(c)
  /\ ~(kpc[cur(c)] = "user" /\ killed[cur(c)])
  /\ UNCHANGED procVars
-----------------------------------------------------------------------------
(* fork(): allocproc() under the lock, then the copy without it, then the  *)
(* lock again to make the child runnable.                                  *)

NewPid(p) == pid' = [pid EXCEPT ![p] = nextpid] /\ nextpid' = nextpid + 1

ForkAlloc(c, p) ==
  /\ At(c, "sys") /\ nextpid <= MaxPid
  /\ AllocProc(c, p)
  /\ NewPid(p)
  /\ np' = [np EXCEPT ![cur(c)] = p]
  /\ kpc' = [kpc EXCEPT ![cur(c)] = "fork", ![p] = "user"]
  /\ UNCHANGED <<parent, chan, killed>>

(* No slot is free.                                                        *)
ForkNone(c) ==
  /\ At(c, "sys") /\ Runs(c)
  /\ \A p \in Slot : state[p] # "UNUSED"
  /\ Goto(c, "user")
  /\ UNCHANGED <<schedVars, pid, parent, chan, killed, nextpid, np>>

(* kalloc() or copyuvm() fails.                                            *)
ForkAbort(c) ==
  /\ At(c, "fork")
  /\ ForkFail(c, np[cur(c)])
  /\ np' = [np EXCEPT ![cur(c)] = Null]
  /\ Goto(c, "user")
  /\ UNCHANGED <<pid, parent, chan, killed, nextpid>>

ForkCopy(c) ==
  /\ At(c, "fork") /\ ptlock # c
  /\ parent' = [parent EXCEPT ![np[cur(c)]] = cur(c)]
  /\ Goto(c, "forked")
  /\ UNCHANGED <<schedVars, pid, chan, killed, nextpid, np>>

ForkRunnable(c) ==
  /\ At(c, "forked")
  /\ ForkDone(c, np[cur(c)])
  /\ np' = [np EXCEPT ![cur(c)] = Null]
  /\ Goto(c, "user")
  /\ UNCHANGED <<pid, parent, chan, killed, nextpid>>
-----------------------------------------------------------------------------
(* exit(): closing files may sleep; then, under the lock, the parent is    *)
(* woken, children go to init and the process becomes a zombie.            *)

ExitStart(c) ==
  /\ ptlock # c /\ cur(c) # initproc
  /\ At(c, "sys") \/ (At(c, "user") /\ killed[cur(c)])
  /\ Goto(c, "exit")
  /\ UNCHANGED <<schedVars, pid, parent, chan, killed, nextpid, np>>

Children(p) == {q \in Slot : parent[q] = p}
Sleepers(ch) == {q \in Slot : chan[q] = ch}

Zombies(p) == {q \in Children(p) : state[q] = "ZOMBIE"}

(* Faulty: the parent is not woken.                                        *)
ExitWakesInit(me) == IF Zombies(me) = {} THEN {} ELSE Sleepers(initproc)

ExitWakes(me) ==
  Sleepers(parent[me]) \cup IF Zombies(me) = {} THEN {} ELSE Sleepers(initproc)

(* Faulty: only zombies are handed over.                                   *)
AdoptZombies(me) ==
  parent' = [q \in Slot |-> IF q \in Zombies(me) THEN initproc ELSE parent[q]]

Adopt(me) ==
  parent' = [q \in Slot |-> IF q \in Children(me) THEN initproc ELSE parent[q]]

ExitDone(c) ==
  /\ At(c, "exit")
  /\ Exit(c, ExitWakes(cur(c)))
  /\ Adopt(cur(c))
  /\ UNCHANGED <<pid, chan, killed, nextpid, kpc, np>>

(* wait() and waitx().  The first scan takes the lock, a later one still   *)
(* has it from sched().                                                    *)
Scans(c) == (At(c, "sys") /\ ptlock = Free) \/ (At(c, "wait") /\ ptlock = c)

WaitReap(c, p) ==
  /\ Scans(c)
  /\ p \in Zombies(cur(c)) /\ \A q \in Zombies(cur(c)) : p <= q
  /\ Reap(c, p)
  /\ pid' = [pid EXCEPT ![p] = 0]
  /\ parent' = [parent EXCEPT ![p] = Null]
  /\ killed' = [killed EXCEPT ![p] = FALSE]
  /\ Goto(c, "user")
  /\ UNCHANGED <<chan, nextpid, np>>

WaitFail(c) ==
  /\ Scans(c) /\ Zombies(cur(c)) = {}
  /\ Children(cur(c)) = {} \/ killed[cur(c)]
  /\ ptlock' = Free
  /\ Goto(c, "user")
  /\ UNCHANGED <<state, cpuproc, pid, parent, chan, killed, nextpid, np>>

WaitSleep(c) ==
  /\ Scans(c) /\ Zombies(cur(c)) = {}
  /\ Children(cur(c)) # {} /\ ~killed[cur(c)]
  /\ Sleep(c)
  /\ chan' = [chan EXCEPT ![cur(c)] = cur(c)]
  /\ Goto(c, "wait")
  /\ UNCHANGED <<pid, parent, killed, nextpid, np>>
-----------------------------------------------------------------------------
(* sleep(chan, lk) anywhere else in the kernel.                            *)
EventSleep(c, e) ==
  /\ At(c, "sys") \/ At(c, "exit")
  /\ Runs(c) /\ Sleep(c)
  /\ chan' = [chan EXCEPT ![cur(c)] = e]
  /\ UNCHANGED <<pid, parent, killed, nextpid, kpc, np>>

(* wakeup(chan), by a process or an interrupt handler.                     *)
EventWakeup(e) ==
  /\ Sleepers(e) # {}
  /\ Wakeup(Sleepers(e))
  /\ UNCHANGED procVars

(* kill(): the first slot with this pid, in whatever state.                *)
Kill(c, n) ==
  LET hit == {q \in Slot : pid[q] = n /\ \A r \in 1..(q - 1) : pid[r] # n}
  IN /\ At(c, "sys") /\ Runs(c)
     /\ killed' = [q \in Slot |-> q \in hit \/ killed[q]]
     /\ Wakeup(hit)
     /\ Goto(c, "user")
     /\ UNCHANGED <<pid, parent, chan, nextpid, np>>

Scheduler(c) == SchedLock(c) \/ SchedUnlock(c) \/ \E p \in Slot : Run(c, p)

Fork(c) ==
  \/ \E p \in Slot : ForkAlloc(c, p)
  \/ ForkNone(c) \/ ForkAbort(c) \/ ForkCopy(c) \/ ForkRunnable(c)

Wait(c) == WaitFail(c) \/ WaitSleep(c) \/ \E p \in Slot : WaitReap(c, p)

Next ==
  \/ \E c \in Cpu :
       \/ Scheduler(c) \/ Continue(c) \/ Preempt(c)
       \/ Syscall(c) \/ SysReturn(c) \/ Fault(c)
       \/ Fork(c) \/ ExitStart(c) \/ ExitDone(c) \/ Wait(c)
       \/ \E e \in Event : EventSleep(c, e)
       \/ \E n \in KillPids : Kill(c, n)
  \/ \E e \in Event : EventWakeup(e)

Spec == Init /\ [][Next]_vars
-----------------------------------------------------------------------------
(* Properties.                                                             *)

Live(p) == state[p] \in {"RUNNABLE", "RUNNING", "SLEEPING"}

(* A process asleep in wait() is not killed, has a child, and none of its  *)
(* children is a zombie: exit() and kill() never slip in between the scan  *)
(* of the table and sleep().                                               *)
NoMissedExit ==
  \A p \in Slot : state[p] = "SLEEPING" /\ kpc[p] = "wait" =>
    /\ ~killed[p]
    /\ Children(p) # {}
    /\ \A q \in Children(p) : state[q] # "ZOMBIE"

(* Every process but init has a parent that is alive and can wait for it:  *)
(* exit() leaves no orphans, also for a child whose fork() is under way.   *)
ParentAlive ==
  \A p \in Slot \ {initproc} :
    Live(p) \/ state[p] = "ZOMBIE" => parent[p] \in Slot /\ Live(parent[p])

(* Two slots in use never share a pid, and none has pid 0.                 *)
UniquePids ==
  \A p, q \in Slot : state[p] # "UNUSED" /\ state[q] # "UNUSED" =>
    /\ pid[p] # 0
    /\ pid[p] = pid[q] => p = q

(* A slot is EMBRYO exactly while one running or preempted fork() builds   *)
(* it, so that nobody else frees or starts it although fork() works on it  *)
(* without the lock.                                                       *)
EmbryoOwned ==
  \A q \in Slot : state[q] = "EMBRYO" <=>
    \E p \in Slot : Live(p) /\ kpc[p] \in {"fork", "forked"} /\ np[p] = q

(* fork(), exit(), wait(): every process has somebody to wait for it, and  *)
(* every slot under construction somebody who completes it.                *)
FamilySound == ParentAlive /\ EmbryoOwned

(* kill() marks the process with the given pid: a process that allocproc() *)
(* has just created has not been killed by anybody.                        *)
BornAlive ==
  [][\A p \in Slot : state[p] = "UNUSED" /\ state'[p] = "EMBRYO" => ~killed'[p]]_vars
=============================================================================
