-------------------------- MODULE ProcTableProofs --------------------------
(***************************************************************************)
(* Proofs about module Sched, the scheduling protocol, and about module    *)
(* ProcTable, which follows it, for any number of slots and CPUs, and      *)
(* about module MlfqRing, for any number of processes and of queues        *)
(* (MCProcTable composes the last two).                                    *)
(***************************************************************************)
EXTENDS MCProcTable, Sequences, FiniteSetTheorems, TLAPS

(* OneCpuEach is inductive once the types are known.                       *)
SchedInv == SchedTypeOK /\ OneCpuEach

(* The boot state: userinit() has made init runnable, no CPU runs it.      *)
LEMMA SchedInitInv == SchedInit => SchedInv
  BY SchedConstants
     DEF SchedInit, SchedInv, SchedTypeOK, OneCpuEach, Slot, Cpu, Null, Free,
         initproc, ProcState

(* sched(): the process of CPU c leaves the CPU in a state other than      *)
(* RUNNING, whatever wakeup1() did in the same section.                    *)
LEMMA GiveUpInv ==
  ASSUME SchedInv, NEW c \in Cpu, NEW W \in SUBSET Slot,
         NEW s \in ProcState \ {"RUNNING"},
         cpuproc[c] # Null, GiveUp(c, s, W)
  PROVE  SchedInv'
<1>1. SchedTypeOK'
  BY DEF SchedInv, SchedTypeOK, GiveUp, Awaken, ProcState
<1>2. \A p \in Slot : state'[p] = "RUNNING" <=> state[p] = "RUNNING" /\ p # cpuproc[c]
  BY DEF SchedInv, SchedTypeOK, GiveUp, Awaken
<1>3. cpuproc' = [cpuproc EXCEPT ![c] = Null]
  BY DEF GiveUp
<1>4. OneCpuEach'
  BY <1>2, <1>3 DEF SchedInv, SchedTypeOK, OneCpuEach
<1> QED
  BY <1>1, <1>4 DEF SchedInv

(* wakeup1() changes no process that is RUNNING and makes none RUNNING.    *)
LEMMA WakeupInv ==
  ASSUME SchedInv, NEW W \in SUBSET Slot, Wakeup(W)
  PROVE  SchedInv'
<1>1. SchedTypeOK'
  BY DEF SchedInv, SchedTypeOK, Wakeup, Awaken, ProcState
<1>2. \A p \in Slot : state'[p] = "RUNNING" <=> state[p] = "RUNNING"
  BY DEF SchedInv, SchedTypeOK, Wakeup, Awaken
<1> QED
  BY <1>1, <1>2 DEF SchedInv, SchedTypeOK, OneCpuEach, Wakeup

(* Every step of the protocol keeps the invariant.                         *)
LEMMA SchedStepInv ==
  ASSUME SchedInv, [SchedNext]_schedVars
  PROVE  SchedInv'
<1> USE DEF SchedInv
<1>1. CASE UNCHANGED schedVars
  BY <1>1 DEF schedVars, SchedTypeOK, OneCpuEach
<1>2. ASSUME NEW c \in Cpu, Lock(c) \/ Unlock(c)
      PROVE  SchedInv'
  BY <1>2 DEF Lock, Unlock, SchedTypeOK, OneCpuEach
<1>3. ASSUME NEW c \in Cpu, Yield(c) \/ Sleep(c) \/ \E W \in SUBSET Slot : Exit(c, W)
      PROVE  SchedInv'
  BY <1>3, GiveUpInv DEF Yield, Sleep, Exit, Runs, MayLock, ProcState
<1>4. ASSUME NEW c \in Cpu, NEW p \in Slot, Switch(c, p)
      PROVE  SchedInv'
  BY <1>4 DEF Switch, InScheduler, SchedTypeOK, OneCpuEach, ProcState, Slot, Null
<1>5. ASSUME NEW c \in Cpu, NEW p \in Slot,
             AllocProc(c, p) \/ ForkFail(c, p) \/ ForkDone(c, p) \/ Reap(c, p)
      PROVE  SchedInv'
  BY <1>5 DEF AllocProc, ForkFail, ForkDone, Reap, Runs, MayLock, SchedTypeOK,
              OneCpuEach, ProcState
<1> QED
  BY <1>1, <1>2, <1>3, <1>4, <1>5, WakeupInv DEF SchedNext

(* No process ever runs on two CPUs, and RUNNING means just that a CPU has *)
(* the process: acquire/release and swtch() hand processes over exactly.   *)
THEOREM SchedSafe == SchedSpec => [](SchedTypeOK /\ OneCpuEach)
<1>1. SchedInit => SchedInv
  BY SchedInitInv
<1>2. SchedInv /\ [SchedNext]_schedVars => SchedInv'
  BY SchedStepInv
<1> QED
  BY <1>1, <1>2, PTL DEF SchedSpec, SchedInv
-----------------------------------------------------------------------------
Forking(p) == Live(p) /\ kpc[p] \in {"fork", "forked"}

(* Every pid in the table was given out, to one slot in use at a time.     *)
PidInv ==
  /\ UniquePids
  /\ \A p \in Slot : pid[p] < nextpid

(* fork() owns the slot it builds, and no two forks build the same one.    *)
ForkInv ==
  /\ EmbryoOwned
  /\ \A p \in Slot : state[p] = "EMBRYO" => kpc[p] = "user"
  /\ \A p \in Slot : Forking(p) => np[p] \in Slot
  /\ \A p, q \in Slot : Forking(p) /\ Forking(q) /\ np[p] = np[q] => p = q

(* A slot has no parent until fork() gives it one; init has none, and no   *)
(* process is its own parent.                                              *)
NoStaleParent ==
  /\ parent[initproc] = Null
  /\ \A p \in Slot : parent[p] # p
  /\ \A p \in Slot : state[p] = "UNUSED" => parent[p] = Null
  /\ \A p \in Slot : Live(p) /\ kpc[p] = "fork" => parent[np[p]] = Null

(* init lives for ever, and fork() sets the parent before the child runs.  *)
ParentInv ==
  /\ ParentAlive
  /\ Live(initproc)
  /\ \A p \in Slot : Live(p) /\ kpc[p] = "forked" => parent[np[p]] = p
  /\ NoStaleParent

(* wait() sleeps on the address of its own process.                        *)
WaitInv ==
  /\ NoMissedExit
  /\ \A p \in Slot : state[p] = "SLEEPING" /\ kpc[p] = "wait" => chan[p] = p

IInv == TypeOK /\ OneCpuEach /\ PidInv /\ ForkInv /\ ParentInv /\ WaitInv

(* The boot state.                                                         *)
LEMMA InitInv == Init => IInv
<1> SUFFICES ASSUME Init PROVE IInv
  OBVIOUS
<1> USE SchedConstants, ProcTableConstants DEF Init, SchedInit, Slot, initproc, Null
<1>1. TypeOK /\ OneCpuEach
  BY SchedInitInv DEF TypeOK, SchedInv, Location
<1>2. PidInv
  BY DEF PidInv, UniquePids
<1>3. ForkInv
  BY DEF ForkInv, EmbryoOwned, Forking
<1>4. ParentInv
  BY DEF ParentInv, ParentAlive, NoStaleParent, Live
<1>5. WaitInv
  BY DEF WaitInv, NoMissedExit
<1> QED
  BY <1>1, <1>2, <1>3, <1>4, <1>5 DEF IInv

(* Each operation of the process table does to the scheduling states and   *)
(* to ptable.lock what some operation of Sched does, or nothing.           *)
LEMMA NextSched ==
  ASSUME TypeOK, OneCpuEach, ForkInv, [Next]_vars
  PROVE  [SchedNext]_schedVars
<1> USE DEF SchedNext, TypeOK, SchedTypeOK
<1>1. CASE UNCHANGED vars
  BY <1>1 DEF vars
<1>2. ASSUME NEW c \in Cpu, Scheduler(c) \/ Continue(c) \/ Preempt(c)
      PROVE  SchedNext
  BY <1>2 DEF Scheduler, SchedLock, SchedUnlock, Run, Continue, Preempt, SchedAcquire,
              SchedRelease, Resume
<1>3. ASSUME NEW c \in Cpu, Syscall(c) \/ SysReturn(c) \/ Fault(c) \/ ExitStart(c)
      PROVE  UNCHANGED schedVars
  BY <1>3 DEF Syscall, SysReturn, Fault, ExitStart
<1>4. ASSUME NEW c \in Cpu, Fork(c)
      PROVE  [SchedNext]_schedVars
  <2>1. ASSUME At(c, "fork") \/ At(c, "forked")
        PROVE  np[cur(c)] \in Slot
    BY <2>1 DEF At, cur, ForkInv, Forking, Live, OneCpuEach
  <2> QED
    BY <1>4, <2>1 DEF Fork, ForkAlloc, ForkNone, ForkAbort, ForkCopy, ForkRunnable
<1>5. ASSUME NEW c \in Cpu, ExitDone(c)
      PROVE  SchedNext
  <2>1. ExitWakes(cur(c)) \in SUBSET Slot
    BY DEF ExitWakes, Sleepers
  <2> QED
    BY <1>5, <2>1 DEF ExitDone
<1>6. ASSUME NEW c \in Cpu, Wait(c)
      PROVE  [SchedNext]_schedVars
  BY <1>6 DEF Wait, WaitFail, WaitSleep, WaitReap, Scans, Unlock, schedVars
<1>7. ASSUME NEW c \in Cpu, NEW e \in Event, EventSleep(c, e)
      PROVE  SchedNext
  BY <1>7 DEF EventSleep
<1>8. ASSUME NEW c \in Cpu, NEW n \in KillPids, Kill(c, n)
      PROVE  SchedNext
  <2> DEFINE hit == {q \in Slot : pid[q] = n /\ \A r \in 1..(q - 1) : pid[r] # n}
  <2>1. Wakeup(hit)
    BY <1>8 DEF Kill
  <2>2. hit \in SUBSET Slot
    OBVIOUS
  <2> HIDE DEF hit
  <2> QED
    BY <2>1, <2>2
<1>9. ASSUME NEW e \in Event, EventWakeup(e)
      PROVE  SchedNext
  BY <1>9 DEF EventWakeup, Sleepers
<1> QED
  BY <1>1, <1>2, <1>3, <1>4, <1>5, <1>6, <1>7, <1>8, <1>9 DEF Next

(* The process a busy CPU runs.                                            *)
LEMMA CurRuns ==
  ASSUME IInv, NEW c \in Cpu, cpuproc[c] # Null
  PROVE  cur(c) \in Slot /\ state[cur(c)] = "RUNNING"
  BY DEF IInv, TypeOK, SchedTypeOK, OneCpuEach, cur

(* The fields keep their types.                                            *)
LEMMA TypeInv ==
  ASSUME IInv, [Next]_vars
  PROVE  TypeOK'
<1> SUFFICES SchedTypeOK' => TypeOK'
  BY NextSched, SchedStepInv DEF SchedInv, TypeOK, IInv
<1> USE SchedConstants, ProcTableConstants DEF IInv, TypeOK, Location
<1>1. CASE UNCHANGED vars
  BY <1>1 DEF vars, procVars
<1>2. ASSUME NEW c \in Cpu, Scheduler(c) \/ Continue(c) \/ Preempt(c)
      PROVE  SchedTypeOK' => TypeOK'
  BY <1>2 DEF Scheduler, SchedLock, SchedUnlock, Run, Continue, Preempt, procVars
<1>3. ASSUME NEW c \in Cpu, Syscall(c) \/ SysReturn(c) \/ Fault(c) \/ ExitStart(c)
      PROVE  SchedTypeOK' => TypeOK'
  BY <1>3, Zenon DEF Syscall, SysReturn, Fault, ExitStart, Goto
<1>4. ASSUME NEW c \in Cpu, NEW p \in Slot, ForkAlloc(c, p)
      PROVE  SchedTypeOK' => TypeOK'
  <2>1. pid' \in [Slot -> 0..MaxPid] /\ nextpid' \in 2..(MaxPid + 1)
    BY <1>4 DEF ForkAlloc, NewPid
  <2>2. kpc' \in [Slot -> Location] /\ np' \in [Slot -> Slot \cup {Null}]
    BY <1>4, Zenon DEF ForkAlloc
  <2> QED
    BY <1>4, <2>1, <2>2 DEF ForkAlloc
<1>5. ASSUME NEW c \in Cpu, ForkNone(c) \/ ForkAbort(c) \/ ForkCopy(c) \/ ForkRunnable(c)
      PROVE  SchedTypeOK' => TypeOK'
  BY <1>5, CurRuns DEF ForkNone, ForkAbort, ForkCopy, ForkRunnable, Goto, At
<1>6. ASSUME NEW c \in Cpu, ExitDone(c)
      PROVE  SchedTypeOK' => TypeOK'
  BY <1>6 DEF ExitDone, Adopt, Slot, initproc
<1>7. ASSUME NEW c \in Cpu, Wait(c)
      PROVE  SchedTypeOK' => TypeOK'
  <2>1. CASE WaitFail(c)
    BY <2>1, Zenon DEF WaitFail, Goto
  <2>2. CASE WaitSleep(c)
    BY <2>2, CurRuns DEF WaitSleep, Scans, At, Goto
  <2>3. ASSUME NEW p \in Slot, WaitReap(c, p)
        PROVE  SchedTypeOK' => TypeOK'
    <3>1. killed' \in [Slot -> BOOLEAN]
      BY <2>3 DEF WaitReap
    <3>2. pid' \in [Slot -> 0..MaxPid] /\ parent' \in [Slot -> Slot \cup {Null}]
      BY <2>3 DEF WaitReap
    <3>3. kpc' \in [Slot -> Location]
      BY <2>3, Zenon DEF WaitReap, Goto
    <3> QED
      BY <2>3, <3>1, <3>2, <3>3 DEF WaitReap
  <2> QED
    BY <1>7, <2>1, <2>2, <2>3 DEF Wait
<1>8. ASSUME NEW c \in Cpu, NEW e \in Event, EventSleep(c, e)
      PROVE  SchedTypeOK' => TypeOK'
  BY <1>8, Zenon DEF EventSleep
<1>9. ASSUME NEW c \in Cpu, NEW n \in KillPids, Kill(c, n)
      PROVE  SchedTypeOK' => TypeOK'
  BY <1>9, Zenon DEF Kill, Goto
<1>10. ASSUME NEW e \in Event, EventWakeup(e)
       PROVE  SchedTypeOK' => TypeOK'
  BY <1>10 DEF EventWakeup, procVars
<1> QED
  BY <1>1, <1>2, <1>3, <1>4, <1>5, <1>6, <1>7, <1>8, <1>9, <1>10 DEF Next, Fork

(* A step that at most moves processes between RUNNABLE, RUNNING and       *)
(* SLEEPING.                                                               *)
Calm == \A p \in Slot : state'[p] = state[p] \/ (Live(p) /\ Live(p)')

(* wakeup() and kill() are such steps.                                     *)
LEMMA WakeupCalm ==
  ASSUME IInv, NEW W, Wakeup(W)
  PROVE  Calm
  BY DEF IInv, TypeOK, SchedTypeOK, Wakeup, Awaken, Calm, Live

(* So are yield() and sleep().                                             *)
LEMMA GiveUpCalm ==
  ASSUME IInv, NEW c \in Cpu, Yield(c) \/ Sleep(c)
  PROVE  /\ Calm
         /\ \A p \in Slot : p # cur(c) => state'[p] = state[p]
<1>1. cur(c) \in Slot /\ state[cur(c)] = "RUNNING"
  BY CurRuns DEF Yield, Sleep, Runs, MayLock
<1> QED
  BY <1>1 DEF IInv, TypeOK, SchedTypeOK, Yield, Sleep, GiveUp, Awaken, Calm, Live, cur

(* The steps that create, start or end no process.                         *)
QuietStep(c) ==
  \/ Scheduler(c) \/ Continue(c) \/ Preempt(c)
  \/ Syscall(c) \/ SysReturn(c) \/ Fault(c) \/ ForkNone(c) \/ ExitStart(c)
  \/ WaitFail(c) \/ WaitSleep(c)
  \/ \E e \in Event : EventSleep(c, e)
  \/ \E n \in KillPids : Kill(c, n)

(* Such a step is calm and touches only the fields it should: the process  *)
(* that runs moves between places outside fork().                          *)
LEMMA QuietFrame ==
  ASSUME IInv, NEW c \in Cpu, QuietStep(c)
  PROVE  /\ Calm
         /\ UNCHANGED <<pid, parent, nextpid, np>>
         /\ kpc' # kpc => /\ cur(c) \in Slot /\ Live(cur(c))
                          /\ kpc[cur(c)] \notin {"fork", "forked"}
                          /\ \E loc \in Location \ {"fork", "forked"} :
                               kpc' = [kpc EXCEPT ![cur(c)] = loc]
<1> USE DEF IInv, TypeOK, SchedTypeOK
<1>1. CASE Scheduler(c) \/ Continue(c)
  BY <1>1 DEF Scheduler, SchedLock, SchedUnlock, SchedAcquire, SchedRelease, Run,
              Continue, Resume, Lock, Unlock, Switch, procVars, Calm, Live
<1>2. CASE Preempt(c)
  BY <1>2, GiveUpCalm DEF Preempt, procVars
<1>3. CASE Syscall(c) \/ SysReturn(c) \/ Fault(c) \/ ExitStart(c)
  BY <1>3, CurRuns
     DEF Syscall, SysReturn, Fault, ExitStart, At, Goto, schedVars, Calm, Live,
         Location, cur
<1>4. CASE ForkNone(c) \/ WaitFail(c)
  BY <1>4, CurRuns
     DEF ForkNone, WaitFail, Scans, At, Goto, schedVars, Calm, Live, Location, cur
<1>5. CASE WaitSleep(c)
  BY <1>5, CurRuns, GiveUpCalm, Zenon DEF WaitSleep, Scans, At, Goto, Live, Location, cur
<1>6. ASSUME NEW e \in Event, EventSleep(c, e)
      PROVE  Calm /\ UNCHANGED <<pid, parent, nextpid, np, kpc>>
  BY <1>6, GiveUpCalm DEF EventSleep
<1>7. ASSUME NEW n \in KillPids, Kill(c, n)
      PROVE  /\ Calm
             /\ UNCHANGED <<pid, parent, nextpid, np>>
             /\ cur(c) \in Slot /\ Live(cur(c))
             /\ kpc[cur(c)] = "sys"
             /\ kpc' = [kpc EXCEPT ![cur(c)] = "user"]
  BY <1>7, CurRuns, WakeupCalm DEF Kill, At, Goto, Live, cur
<1> QED
  BY <1>1, <1>2, <1>3, <1>4, <1>5, <1>6, <1>7 DEF QuietStep, Location

(* A quiet step keeps the facts about pids, forks and parents.             *)
LEMMA QuietInv ==
  ASSUME IInv, NEW c \in Cpu, QuietStep(c) \/ \E e \in Event : EventWakeup(e)
  PROVE  PidInv' /\ ForkInv' /\ ParentInv'
<1> USE DEF IInv, TypeOK, SchedTypeOK
<1>1. Calm /\ UNCHANGED <<pid, parent, nextpid, np>>
  BY QuietFrame, WakeupCalm DEF EventWakeup, procVars
<1>2. /\ \A p \in Slot : kpc'[p] = kpc[p]
                         \/ (Live(p) /\ {kpc[p], kpc'[p]} \cap {"fork", "forked"} = {})
  <2>1. CASE kpc' = kpc
    BY <2>1
  <2>2. CASE kpc' # kpc
    BY <2>2, QuietFrame DEF EventWakeup, procVars
  <2> QED
    BY <2>1, <2>2
<1>3. \A p \in Slot : /\ Live(p)' <=> Live(p)
                      /\ ~Live(p) => state'[p] = state[p]
  BY <1>1 DEF Calm, Live
<1>4. PidInv'
  BY <1>1, <1>3 DEF PidInv, UniquePids, Live
<1>5. \A p \in Slot : /\ Forking(p)' <=> Forking(p)
                      /\ state'[p] = "EMBRYO" <=> state[p] = "EMBRYO"
                      /\ state'[p] = "ZOMBIE" <=> state[p] = "ZOMBIE"
                      /\ state'[p] = "EMBRYO" => kpc'[p] = kpc[p]
                      /\ state'[p] = "UNUSED" <=> state[p] = "UNUSED"
                      /\ \A loc \in {"fork", "forked"} :
                           Live(p)' /\ kpc'[p] = loc => Live(p) /\ kpc[p] = loc
  BY <1>2, <1>3, Zenon DEF Forking, Live
<1>6. ForkInv'
  <2>1. EmbryoOwned'
    BY <1>1, <1>5 DEF ForkInv, EmbryoOwned, Forking
  <2> QED
    BY <1>1, <1>5, <2>1 DEF ForkInv
<1>7. ParentInv'
  <2>1. NoStaleParent'
    BY <1>1, <1>3, <1>5 DEF ParentInv, NoStaleParent
  <2> QED
    BY <1>1, <1>3, <1>5, <2>1, SchedConstants DEF ParentInv, ParentAlive, initproc, Slot
<1> QED
  BY <1>4, <1>6, <1>7

(* allocproc(): a new pid, and a slot that nobody was building.            *)
LEMMA ForkAllocInv ==
  ASSUME IInv, NEW c \in Cpu, NEW p \in Slot, ForkAlloc(c, p)
  PROVE  PidInv' /\ ForkInv' /\ ParentInv'
<1> USE DEF IInv, TypeOK, SchedTypeOK
<1>1. cur(c) \in Slot /\ state[cur(c)] = "RUNNING" /\ kpc[cur(c)] = "sys"
  BY CurRuns DEF ForkAlloc, At, cur
<1>2. state[p] = "UNUSED" /\ state' = [state EXCEPT ![p] = "EMBRYO"]
  BY DEF ForkAlloc, AllocProc
<1>3. PidInv'
  BY <1>2, ProcTableConstants DEF ForkAlloc, NewPid, PidInv, UniquePids
<1>4. /\ \A q \in Slot : Forking(q)' <=> Forking(q) \/ q = cur(c)
      /\ \A q \in Slot : np'[q] = IF q = cur(c) THEN p ELSE np[q]
      /\ ~Forking(cur(c))
  BY <1>1, <1>2 DEF ForkAlloc, Forking, Live
<1>5. \A q \in Slot : Forking(q) => np[q] # p
  BY <1>2 DEF ForkInv, EmbryoOwned, Forking
<1>6. EmbryoOwned'
  BY <1>1, <1>2, <1>4, <1>5 DEF ForkInv, EmbryoOwned, Forking
<1>7. ForkInv'
  BY <1>1, <1>2, <1>4, <1>5, <1>6 DEF ForkInv, ForkAlloc
<1>8. ParentInv'
  <2>1. \A q \in Slot : /\ Live(q)' <=> Live(q)
                        /\ state'[q] = "ZOMBIE" <=> state[q] = "ZOMBIE"
    BY <1>2 DEF Live
  <2>2. \A q \in Slot : Live(q) /\ kpc'[q] = "forked" =>
                          kpc[q] = "forked" /\ np'[q] = np[q]
    BY <1>1, <1>2 DEF ForkAlloc, Live
  <2>3. NoStaleParent'
    BY <1>1, <1>2, <1>4 DEF ParentInv, NoStaleParent, ForkAlloc, Live
  <2> QED
    BY <2>1, <2>2, <2>3, SchedConstants DEF ParentInv, ParentAlive, ForkAlloc, initproc, Slot
<1> QED
  BY <1>3, <1>7, <1>8

(* fork() fails or succeeds: it lets go of a slot nobody else was building *)
(* and that has a living parent when it starts to run.                     *)
LEMMA ForkEndInv ==
  ASSUME IInv, NEW c \in Cpu, ForkAbort(c) \/ ForkRunnable(c)
  PROVE  PidInv' /\ ForkInv' /\ ParentInv'
<1> USE DEF IInv, TypeOK, SchedTypeOK
<1> DEFINE me == cur(c)
           p == np[me]
<1>1. me \in Slot /\ state[me] = "RUNNING" /\ Forking(me) /\ p \in Slot
  BY CurRuns DEF ForkAbort, ForkRunnable, At, cur, Forking, Live, ForkInv
<1>2. /\ state[p] = "EMBRYO" /\ p # me
      /\ \E s \in {"UNUSED", "RUNNABLE"} : state' = [state EXCEPT ![p] = s]
  BY <1>1 DEF ForkAbort, ForkRunnable, ForkFail, ForkDone
<1>3. /\ UNCHANGED <<pid, nextpid, parent>>
      /\ kpc' = [kpc EXCEPT ![me] = "user"]
      /\ np' = [np EXCEPT ![me] = Null]
  BY DEF ForkAbort, ForkRunnable, Goto
<1>4. kpc[p] = "user"
  BY <1>1, <1>2 DEF ForkInv
<1> HIDE DEF me
<1>5. PidInv'
  BY <1>1, <1>2, <1>3 DEF PidInv, UniquePids
<1>6. \A q \in Slot : /\ Forking(q)' <=> Forking(q) /\ q # me
                      /\ Forking(q)' => np'[q] = np[q]
                      /\ Forking(q)' => np[q] # p
  <2>1. \A q \in Slot : Forking(q)' <=> Forking(q) /\ q # me
    BY <1>1, <1>2, <1>3, <1>4 DEF Forking, Live
  <2> QED
    BY <2>1, <1>1, <1>3 DEF ForkInv
<1>7. EmbryoOwned'
  BY <1>1, <1>2, <1>6 DEF ForkInv, EmbryoOwned, Forking
<1>8. ForkInv'
  BY <1>1, <1>2, <1>3, <1>6, <1>7 DEF ForkInv
<1>9. ParentInv'
  <2>1. state'[p] = "RUNNABLE" => parent[p] = me
    <3>1. CASE ForkAbort(c)
      BY <3>1, <1>1 DEF ForkAbort, ForkFail, me
    <3>2. CASE ForkRunnable(c)
      BY <3>2, <1>1 DEF ForkRunnable, At, ParentInv, Live, me, cur
    <3> QED
      BY <3>1, <3>2
  <2>2. \A q \in Slot : q # p => state'[q] = state[q]
    BY <1>2
  <2>3. \A q \in Slot : Live(q) => Live(q)'
    BY <1>2 DEF Live
  <2>4. ParentAlive'
    BY <1>1, <1>2, <1>3, <2>1, <2>2, <2>3 DEF ParentInv, ParentAlive, Live
  <2>5. \A q \in Slot : Live(q)' /\ kpc'[q] = "forked" =>
                          Live(q) /\ kpc[q] = "forked" /\ np'[q] = np[q]
    BY <1>1, <1>2, <1>3, <1>4 DEF Live
  <2>6. state'[p] = "UNUSED" => parent[p] = Null
    <3>1. CASE ForkAbort(c)
      BY <3>1, <1>1 DEF ForkAbort, At, ParentInv, NoStaleParent, Live, me, cur
    <3>2. CASE ForkRunnable(c)
      BY <3>2, <1>1 DEF ForkRunnable, ForkDone, me
    <3> QED
      BY <3>1, <3>2
  <2>7. NoStaleParent'
    BY <1>1, <1>2, <1>3, <1>4, <2>2, <2>6 DEF ParentInv, NoStaleParent, Live
  <2> QED
    BY <1>3, <2>3, <2>4, <2>5, <2>7, SchedConstants DEF ParentInv, initproc, Slot
<1> QED
  BY <1>5, <1>8, <1>9

(* fork() copies the parent and makes itself the parent of the new slot.   *)
LEMMA ForkCopyInv ==
  ASSUME IInv, NEW c \in Cpu, ForkCopy(c)
  PROVE  PidInv' /\ ForkInv' /\ ParentInv'
<1> USE DEF IInv, TypeOK, SchedTypeOK
<1> DEFINE me == cur(c)
<1>1. /\ me \in Slot /\ state[me] = "RUNNING" /\ Forking(me)
      /\ np[me] \in Slot /\ state[np[me]] = "EMBRYO"
  BY CurRuns DEF ForkCopy, At, cur, Forking, Live, ForkInv, EmbryoOwned
<1>2. /\ UNCHANGED <<state, pid, nextpid, np>>
      /\ kpc' = [kpc EXCEPT ![me] = "forked"]
      /\ parent' = [parent EXCEPT ![np[me]] = me]
  BY DEF ForkCopy, Goto, schedVars
<1> HIDE DEF me
<1>3. \A q \in Slot : Forking(q)' <=> Forking(q)
  BY <1>1, <1>2 DEF Forking, Live
<1>4. ForkInv'
  BY <1>1, <1>2, <1>3 DEF ForkInv, EmbryoOwned, Forking, Live
<1>5. ParentInv'
  <2>1. NoStaleParent'
    BY <1>1, <1>2 DEF ParentInv, NoStaleParent, ForkInv, Forking, Live
  <2> QED
    BY <1>1, <1>2, <2>1, SchedConstants
       DEF ParentInv, ParentAlive, ForkInv, Forking, Live, initproc, Slot
<1> QED
  BY <1>2, <1>4, <1>5 DEF PidInv, UniquePids

(* exit(): the process becomes a zombie, its children go to init.          *)
LEMMA ExitInv ==
  ASSUME IInv, NEW c \in Cpu, ExitDone(c)
  PROVE  PidInv' /\ ForkInv' /\ ParentInv'
<1> USE DEF IInv, TypeOK, SchedTypeOK
<1> DEFINE me == cur(c)
<1>1. me \in Slot /\ state[me] = "RUNNING" /\ kpc[me] = "exit" /\ me # initproc
  BY CurRuns DEF ExitDone, Exit, At, cur
<1>2. /\ UNCHANGED <<pid, nextpid, kpc, np>>
      /\ parent' = [q \in Slot |-> IF parent[q] = me THEN initproc ELSE parent[q]]
  BY DEF ExitDone, Adopt, Children
<1>3. \A q \in Slot : \/ q = me /\ state'[q] = "ZOMBIE"
                      \/ q # me /\ state'[q] = state[q]
                      \/ q # me /\ Live(q) /\ Live(q)'
  BY <1>1 DEF ExitDone, Exit, GiveUp, Awaken, Live, cur
<1> HIDE DEF me
<1>4. \A q \in Slot : /\ Live(q)' <=> Live(q) /\ q # me
                      /\ state'[q] = "EMBRYO" <=> state[q] = "EMBRYO"
                      /\ state'[q] = "ZOMBIE" <=> state[q] = "ZOMBIE" \/ q = me
                      /\ state'[q] = "UNUSED" <=> state[q] = "UNUSED"
  BY <1>1, <1>3 DEF Live
<1>5. PidInv'
  BY <1>2, <1>4 DEF PidInv, UniquePids
<1>6. \A q \in Slot : Forking(q)' <=> Forking(q)
  BY <1>1, <1>2, <1>4 DEF Forking
<1>7. ForkInv'
  BY <1>2, <1>4, <1>6 DEF ForkInv, EmbryoOwned, Forking
<1>8. ParentInv'
  <2>1. initproc \in Slot
    BY SchedConstants DEF initproc, Slot
  <2>2. ParentAlive'
    BY <1>1, <1>2, <1>4, <2>1 DEF ParentInv, ParentAlive, Live
  <2>3. \A q \in Slot : Live(q)' /\ kpc'[q] = "forked" => parent'[np'[q]] = q
    BY <1>1, <1>2, <1>4 DEF ParentInv, ForkInv, Forking
  <2>4. NoStaleParent'
    <3>1. me # Null
      BY <1>1 DEF Slot, Null
    <3>2. parent'[initproc] = Null /\ \A q \in Slot : parent'[q] # q
      BY <1>1, <1>2, <2>1, <3>1, SMTT(30) DEF ParentInv, NoStaleParent
    <3> QED
      BY <1>1, <1>2, <1>4, <3>1, <3>2 DEF ParentInv, NoStaleParent, ForkInv, Forking
  <2> QED
    BY <1>1, <1>4, <2>1, <2>2, <2>3, <2>4 DEF ParentInv
<1> QED
  BY <1>5, <1>7, <1>8

(* wait(): a zombie's slot becomes free.                                   *)
LEMMA ReapInv ==
  ASSUME IInv, NEW c \in Cpu, NEW p \in Slot, WaitReap(c, p)
  PROVE  PidInv' /\ ForkInv' /\ ParentInv'
<1> USE DEF IInv, TypeOK, SchedTypeOK
<1> DEFINE me == cur(c)
<1>1. /\ me \in Slot /\ state[me] = "RUNNING" /\ kpc[me] \in {"sys", "wait"}
      /\ state[p] = "ZOMBIE"
  BY CurRuns DEF WaitReap, Scans, Reap, At, cur
<1>2. /\ UNCHANGED <<nextpid, np>>
      /\ state' = [state EXCEPT ![p] = "UNUSED"]
      /\ pid' = [pid EXCEPT ![p] = 0]
      /\ parent' = [parent EXCEPT ![p] = Null]
      /\ kpc' = [kpc EXCEPT ![me] = "user"]
  BY DEF WaitReap, Reap, Goto
<1> HIDE DEF me
<1>3. PidInv'
  BY <1>1, <1>2 DEF PidInv, UniquePids
<1>4. \A q \in Slot : Forking(q)' <=> Forking(q)
  BY <1>1, <1>2 DEF Forking, Live
<1>5. ForkInv'
  BY <1>1, <1>2, <1>4 DEF ForkInv, EmbryoOwned, Forking
<1>6. \A q \in Slot : Live(q)' <=> Live(q)
  BY <1>1, <1>2 DEF Live
<1>7. \A q \in Slot : Forking(q) => np[q] # p
  BY <1>1, SMTT(30) DEF ForkInv, EmbryoOwned, Forking
<1>8. ParentInv'
  <2>1. ParentAlive'
    BY <1>1, <1>2, <1>6 DEF ParentInv, ParentAlive, Live
  <2>2. \A q \in Slot : Live(q)' /\ kpc'[q] = "forked" => parent'[np'[q]] = q
    BY <1>1, <1>2, <1>6, <1>7 DEF ParentInv, ForkInv, Forking
  <2>3. NoStaleParent'
    BY <1>1, <1>2, <1>6, <1>7, SMTT(30) DEF ParentInv, NoStaleParent, ForkInv, Forking, Slot, Null
  <2> QED
    BY <1>6, <2>1, <2>2, <2>3, SchedConstants DEF ParentInv, initproc, Slot
<1> QED
  BY <1>3, <1>5, <1>8

(* What keeps wait() from missing an exit, for a step that puts nobody to  *)
(* sleep in wait().                                                        *)
LEMMA WaitFrame ==
  ASSUME WaitInv,
         \A p \in Slot : state'[p] = "SLEEPING" /\ kpc'[p] = "wait" =>
           /\ state[p] = "SLEEPING" /\ kpc[p] = "wait"
           /\ killed'[p] = killed[p] /\ chan'[p] = chan[p]
           /\ Children(p) \subseteq Children(p)'
           /\ \A q \in Children(p)' : state'[q] = "ZOMBIE" =>
                q \in Children(p) /\ state[q] = "ZOMBIE"
  PROVE  WaitInv'
  BY DEF WaitInv, NoMissedExit

(* No step makes wait() miss an exit.                                      *)
LEMMA WaitStepInv ==
  ASSUME IInv, [Next]_vars
  PROVE  WaitInv'
<1> USE DEF IInv, TypeOK, SchedTypeOK
<1>1. CASE UNCHANGED vars
  BY <1>1 DEF vars, procVars, schedVars, WaitInv, NoMissedExit, Children
<1>2. ASSUME NEW c \in Cpu, Scheduler(c) \/ Continue(c)
      PROVE  WaitInv'
  BY <1>2, WaitFrame
     DEF Scheduler, SchedLock, SchedUnlock, SchedAcquire, SchedRelease, Run, Continue,
         Resume, Lock, Unlock, Switch, procVars, Children
<1>3. ASSUME NEW c \in Cpu, Preempt(c)
      PROVE  WaitInv'
  BY <1>3, WaitFrame, CurRuns
     DEF Preempt, Yield, Runs, GiveUp, Awaken, procVars, Children, cur
<1>4. ASSUME NEW c \in Cpu, Syscall(c) \/ SysReturn(c) \/ Fault(c) \/ ExitStart(c)
      PROVE  WaitInv'
  BY <1>4, WaitFrame, CurRuns
     DEF Syscall, SysReturn, Fault, ExitStart, At, Goto, schedVars, Children, cur
<1>5. ASSUME NEW c \in Cpu, NEW p \in Slot, ForkAlloc(c, p)
      PROVE  WaitInv'
  BY <1>5, WaitFrame, CurRuns
     DEF ForkAlloc, AllocProc, At, Children, cur
<1>6. ASSUME NEW c \in Cpu, ForkNone(c) \/ WaitFail(c)
      PROVE  WaitInv'
  BY <1>6, WaitFrame, CurRuns
     DEF ForkNone, WaitFail, Scans, At, Goto, schedVars, Children, cur
<1>7. ASSUME NEW c \in Cpu, ForkAbort(c) \/ ForkRunnable(c)
      PROVE  WaitInv'
  BY <1>7, WaitFrame, CurRuns
     DEF ForkAbort, ForkRunnable, ForkFail, ForkDone, At, Goto, Children, cur
<1>8. ASSUME NEW c \in Cpu, ForkCopy(c)
      PROVE  WaitInv'
  <2>1. cur(c) \in Slot /\ state[cur(c)] = "RUNNING" /\ Forking(cur(c))
    BY <1>8, CurRuns DEF ForkCopy, At, cur, Forking, Live
  <2>2. /\ np[cur(c)] \in Slot
        /\ state[np[cur(c)]] = "EMBRYO"
        /\ parent[np[cur(c)]] = Null
    BY <1>8, <2>1 DEF ForkCopy, At, cur, ForkInv, EmbryoOwned, Forking, ParentInv,
                      NoStaleParent
  <2> QED
    BY <1>8, <2>1, <2>2, WaitFrame DEF ForkCopy, Goto, schedVars, Children, Slot, Null
<1>9. ASSUME NEW c \in Cpu, ExitDone(c)
      PROVE  WaitInv'
  <2> DEFINE me == cur(c)
  <2>1. me \in Slot /\ state[me] = "RUNNING"
    BY <1>9, CurRuns DEF ExitDone, At
  <2>2. UNCHANGED <<kpc, killed, chan>>
    BY <1>9 DEF ExitDone
  <2>3. \A q \in Slot : parent'[q] = IF parent[q] = me THEN initproc ELSE parent[q]
    BY <1>9 DEF ExitDone, Adopt, Children
  <2>4. /\ \A q \in Slot : state'[q] = "SLEEPING" =>
                             state[q] = "SLEEPING" /\ q \notin ExitWakes(me)
        /\ \A q \in Slot : state'[q] = "ZOMBIE" => state[q] = "ZOMBIE" \/ q = me
    BY <1>9, <2>1 DEF ExitDone, Exit, GiveUp, Awaken, cur
  <2>5. SUFFICES ASSUME NEW p \in Slot, state'[p] = "SLEEPING", kpc'[p] = "wait"
                 PROVE  /\ Children(p) \subseteq Children(p)'
                        /\ \A q \in Children(p)' : state'[q] = "ZOMBIE" =>
                             q \in Children(p) /\ state[q] = "ZOMBIE"
    BY <2>2, <2>4, WaitFrame
  <2>6. /\ state[p] = "SLEEPING" /\ p # me /\ chan[p] = p
        /\ p \notin ExitWakes(me)
    BY <2>1, <2>2, <2>4, <2>5 DEF WaitInv
  <2>7. parent[me] # p
    BY <2>6 DEF ExitWakes, Sleepers
  <2>8. p = initproc => Zombies(me) = {}
    BY <2>6 DEF ExitWakes, Sleepers
  <2> HIDE DEF me
  <2> QED
    BY <2>1, <2>3, <2>4, <2>6, <2>7, <2>8
       DEF Children, Zombies, ParentInv, NoStaleParent
<1>10. ASSUME NEW c \in Cpu, WaitSleep(c)
       PROVE  WaitInv'
  <2> DEFINE me == cur(c)
  <2>1. me \in Slot /\ state[me] = "RUNNING"
    BY <1>10, CurRuns DEF WaitSleep, Sleep, MayLock
  <2>2. /\ \A q \in Slot : state'[q] = IF q = me THEN "SLEEPING" ELSE state[q]
        /\ chan' = [chan EXCEPT ![me] = me]
        /\ UNCHANGED <<killed, parent>>
        /\ kpc' = [kpc EXCEPT ![me] = "wait"]
    BY <1>10, <2>1 DEF WaitSleep, Sleep, GiveUp, Awaken, Goto, cur
  <2>3. Zombies(me) = {} /\ Children(me) # {} /\ ~killed[me]
    BY <1>10, SMTT(30) DEF WaitSleep
  <2> HIDE DEF me
  <2> QED
    BY <2>1, <2>2, <2>3 DEF WaitInv, NoMissedExit, Zombies, Children
<1>11. ASSUME NEW c \in Cpu, NEW p \in Slot, WaitReap(c, p)
       PROVE  WaitInv'
  BY <1>11, WaitFrame, CurRuns, Zenon
     DEF WaitReap, Scans, Reap, At, Goto, Children, Zombies, cur
<1>12. ASSUME NEW c \in Cpu, NEW e \in Event, EventSleep(c, e)
       PROVE  WaitInv'
  BY <1>12, WaitFrame, CurRuns
     DEF EventSleep, At, Sleep, GiveUp, Awaken, Children, cur
<1>13. ASSUME NEW c \in Cpu, NEW n \in KillPids, Kill(c, n)
       PROVE  WaitInv'
  BY <1>13, WaitFrame, CurRuns DEF Kill, At, Wakeup, Awaken, Goto, Children, cur
<1>14. ASSUME NEW e \in Event, EventWakeup(e)
       PROVE  WaitInv'
  BY <1>14, WaitFrame DEF EventWakeup, Wakeup, Awaken, procVars, Children
<1> QED
  BY <1>1, <1>2, <1>3, <1>4, <1>5, <1>6, <1>7, <1>8, <1>9, <1>10, <1>11, <1>12, <1>13,
     <1>14, SMTT(30) DEF Next, Fork, Wait

(* IInv is inductive.                                                      *)
LEMMA StepInv ==
  ASSUME IInv, [Next]_vars
  PROVE  IInv'
<1>1. TypeOK'
  BY TypeInv
<1>2. OneCpuEach'
  BY NextSched, SchedStepInv DEF IInv, TypeOK, SchedInv
<1>3. PidInv' /\ ForkInv' /\ ParentInv'
  <2>1. CASE UNCHANGED vars
    BY <2>1 DEF IInv, vars, procVars, schedVars, PidInv, UniquePids, ForkInv, EmbryoOwned,
                Forking, ParentInv, ParentAlive, NoStaleParent, Live
  <2>2. ASSUME NEW e \in Event, EventWakeup(e)
        PROVE  PidInv' /\ ForkInv' /\ ParentInv'
    BY <2>2, QuietInv, SchedConstants DEF Cpu
  <2> QED
    BY <2>1, <2>2, QuietInv, ForkAllocInv, ForkEndInv, ForkCopyInv, ExitInv, ReapInv, SMTT(30)
       DEF Next, QuietStep, Fork, Wait
<1>4. WaitInv'
  BY WaitStepInv
<1> QED
  BY <1>1, <1>2, <1>3, <1>4 DEF IInv

(* The inductive invariant holds in every reachable state.                 *)
THEOREM Invariance == Spec => []IInv
<1>1. Init => IInv
  BY InitInv
<1>2. IInv /\ [Next]_vars => IInv'
  BY StepInv
<1> QED
  BY <1>1, <1>2, PTL DEF Spec

(* Types, in particular that no pid beyond nextpid is ever given out.      *)
THEOREM TypeCorrect == Spec => []TypeOK
  BY Invariance, PTL DEF IInv

(* wait() and waitx() never sleep through the exit of a child or a kill(). *)
THEOREM WaitSafe == Spec => []NoMissedExit
<1>1. IInv => NoMissedExit
  BY DEF IInv, WaitInv
<1> QED
  BY <1>1, Invariance, PTL

(* exit() leaves no orphan, and fork() works without ptable.lock on a slot *)
(* that is nobody else's.                                                  *)
THEOREM FamilyStaysSound == Spec => []FamilySound
<1>1. IInv => FamilySound
  BY DEF IInv, ParentInv, ForkInv, FamilySound
<1> QED
  BY <1>1, Invariance, PTL

(* Slots in use have different pids.                                       *)
THEOREM PidsUnique == Spec => []UniquePids
<1>1. IInv => UniquePids
  BY DEF IInv, PidInv
<1> QED
  BY <1>1, Invariance, PTL

(* The process table follows the scheduling protocol of Sched, so no       *)
(* process ever runs on two CPUs.                                          *)
THEOREM ImplementsSched == Spec => SchedSpec /\ []OneCpuEach
<1>1. Init => SchedInit
  BY DEF Init
<1>2. IInv /\ [Next]_vars => [SchedNext]_schedVars
  BY NextSched DEF IInv
<1>3. IInv => OneCpuEach
  BY DEF IInv
<1> QED
  BY <1>1, <1>2, <1>3, Invariance, PTL DEF Spec, SchedSpec
-----------------------------------------------------------------------------
(* The ring arrays of the MLFQ scheduler are queues.                       *)

(* One ring, without arithmetic modulo its size: the slot of entry j, and  *)
(* the number of entries between front f and rear b.                       *)
EntryAt(f, j) == IF f + j - 1 < Ring!RingSize THEN f + j - 1 ELSE f + j - 1 - Ring!RingSize

Length(f, b) == IF f = -1 THEN 0 ELSE IF f <= b THEN b - f + 1 ELSE b - f + 1 + Ring!RingSize

(* front and rear are both -1 or both indices, and sz counts the entries   *)
(* between them.                                                           *)
RingOK(a, i) ==
  /\ a.front[i] = -1 <=> a.rear[i] = -1
  /\ a.sz[i] = Length(a.front[i], a.rear[i])

(* The slots between front and rear.                                       *)
Span(a, i) ==
  IF a.front[i] > a.rear[i]
  THEN {j \in Ring!Index : j >= a.front[i] \/ j <= a.rear[i]}
  ELSE {j \in Ring!Index : a.front[i] # -1 /\ a.front[i] <= j /\ j <= a.rear[i]}

(* Every slot between front and rear holds a process, and no two hold the  *)
(* same.                                                                   *)
Distinct ==
  \A i \in Ring!Queue : \A j \in Ring!Scanned(i) :
    /\ rings.queue[i][j] \in RingProc
    /\ \A k \in Ring!Queue : \A l \in Ring!Scanned(k) : rings.queue[i][j] = rings.queue[k][l] => i = k /\ j = l

RingInv == Ring!TypeOK /\ (\A i \in Ring!Queue : RingOK(rings, i)) /\ Distinct
-----------------------------------------------------------------------------
(* Arithmetic modulo u.                                                    *)
LEMMA ModLow == ASSUME NEW u \in Nat \ {0}, NEW a \in 0 .. u - 1 PROVE a % u = a
  BY SMT

(* One turn too far.                                                       *)
LEMMA ModUp == ASSUME NEW u \in Nat \ {0}, NEW a \in u .. u + u - 1 PROVE a % u = a - u
  BY SMT

(* One turn too short.                                                     *)
LEMMA ModNeg == ASSUME NEW u \in Nat \ {0}, NEW a \in -u .. -1 PROVE a % u = a + u
  BY SMT

(* Finite sets and their cardinality are the same in the instance.         *)
LEMMA RingSets ==
  ASSUME NEW S
  PROVE  Ring!IsFiniteSet(S) = IsFiniteSet(S) /\ Ring!Cardinality(S) = Cardinality(S)
  BY DEF Ring!IsFiniteSet, IsFiniteSet, Ring!Cardinality, Cardinality

(* The size of a ring is positive.                                         *)
LEMMA SizeType == ASSUME Ring!RingConstants PROVE Ring!RingSize \in Nat \ {0}
  BY RingSets, FS_CardinalityType, FS_EmptySet DEF Ring!RingConstants, Ring!RingSize

(* The type of arrays.                                                     *)
Arrays ==
  [front : [Ring!Queue -> Ring!Index \cup {-1}], rear : [Ring!Queue -> Ring!Index \cup {-1}],
   sz : [Ring!Queue -> 0 .. Ring!RingSize], queue : [Ring!Queue -> [Ring!Index -> RingProc \cup {Ring!Null}]]]

(* The entries of a ring, without arithmetic modulo its size.              *)
LEMMA EntriesAre ==
  ASSUME Ring!RingConstants, NEW a \in Arrays, NEW i \in Ring!Queue, RingOK(a, i)
  PROVE  /\ a.sz[i] \in 0 .. Ring!RingSize
         /\ Ring!Entries(a, i) = [j \in 1 .. a.sz[i] |-> a.queue[i][EntryAt(a.front[i], j)]]
         /\ \A j \in 1 .. a.sz[i] : EntryAt(a.front[i], j) \in Ring!Index
         /\ Len(Ring!Entries(a, i)) = a.sz[i]
<1> DEFINE f == a.front[i]
           b == a.rear[i]
           n == a.sz[i]
<1>1. Ring!RingSize \in Nat \ {0}
  BY SizeType
<1>2. f \in Ring!Index \cup {-1} /\ b \in Ring!Index \cup {-1} /\ n \in 0 .. Ring!RingSize
  BY DEF Arrays
<1>3. (f = -1 <=> b = -1) /\ n = Length(f, b)
  BY DEF RingOK
<1>4. Ring!Entries(a, i) = LET length == IF f = -1 THEN 0 ELSE ((b - f) % Ring!RingSize) + 1
                      IN  [j \in 1 .. length |-> a.queue[i][(f + j - 1) % Ring!RingSize]]
  BY DEF Ring!Entries
<1> HIDE DEF f, b, n
<1>5. n = IF f = -1 THEN 0 ELSE ((b - f) % Ring!RingSize) + 1
  <2>1. CASE f = -1
    BY <2>1, <1>3 DEF Length
  <2>2. CASE f # -1 /\ f <= b
    <3>1. b - f \in 0 .. Ring!RingSize - 1
      BY <1>1, <1>2, <2>2 DEF Ring!Index
    <3>2. (b - f) % Ring!RingSize = b - f
      BY <1>1, <3>1, ModLow
    <3> QED
      BY <3>2, <2>2, <1>3 DEF Length
  <2>3. CASE f # -1 /\ ~(f <= b)
    <3>1. b - f \in -Ring!RingSize .. -1
      BY <1>1, <1>2, <1>3, <2>3 DEF Ring!Index
    <3>2. (b - f) % Ring!RingSize = b - f + Ring!RingSize
      BY <1>1, <3>1, ModNeg
    <3> QED
      BY <1>1, <1>2, <3>2, <2>3, <1>3 DEF Length, Ring!Index
  <2> QED
    BY <2>1, <2>2, <2>3
<1>6. ASSUME NEW j \in 1 .. n
      PROVE  (f + j - 1) % Ring!RingSize = EntryAt(f, j) /\ EntryAt(f, j) \in Ring!Index
  <2>1. f \in Ring!Index
    BY <1>1, <1>2, <1>3 DEF Length
  <2>2. CASE f + j - 1 < Ring!RingSize
    <3>1. f + j - 1 \in 0 .. Ring!RingSize - 1
      BY <1>1, <1>2, <2>1, <2>2 DEF Ring!Index
    <3> QED
      BY <1>1, <3>1, <2>2, ModLow DEF EntryAt, Ring!Index
  <2>3. CASE ~(f + j - 1 < Ring!RingSize)
    <3> DEFINE x == f + j - 1
    <3>1. x \in Ring!RingSize .. Ring!RingSize + Ring!RingSize - 1
      BY <1>1, <1>2, <2>1, <2>3 DEF Ring!Index
    <3>2. x % Ring!RingSize = x - Ring!RingSize
      <4> HIDE DEF x
      <4> QED
        BY <1>1, <3>1, ModUp, Zenon
    <3>3. EntryAt(f, j) = x - Ring!RingSize
      BY <1>1, <1>2, <2>1, <2>3 DEF EntryAt, Ring!Index
    <3>4. x - Ring!RingSize \in Ring!Index
      BY <1>1, <1>2, <2>1, <2>3 DEF Ring!Index
    <3> QED
      BY <3>2, <3>3, <3>4
  <2> QED
    BY <2>2, <2>3
<1>7. Ring!Entries(a, i) = [j \in 1 .. n |-> a.queue[i][EntryAt(f, j)]]
  BY <1>4, <1>5, <1>6
<1>8. Len(Ring!Entries(a, i)) = n
  BY <1>2, <1>7
<1> QED
  BY <1>2, <1>6, <1>7, <1>8 DEF f, n
-----------------------------------------------------------------------------
(* What push() searches is what the rings hold.                            *)
LEMMA ScannedAre ==
  ASSUME Ring!RingConstants, Ring!TypeOK, NEW i \in Ring!Queue, RingOK(rings, i)
  PROVE  /\ Ring!Scanned(i) \subseteq Ring!Index
         /\ \A j \in 1 .. rings.sz[i] : EntryAt(rings.front[i], j) \in Ring!Scanned(i)
         /\ \A s \in Ring!Scanned(i) : \E j \in 1 .. rings.sz[i] : s = EntryAt(rings.front[i], j)
<1> DEFINE f == rings.front[i]
           b == rings.rear[i]
           n == rings.sz[i]
<1>1. Ring!RingSize \in Nat \ {0}
  BY SizeType
<1>2. f \in Ring!Index \cup {-1} /\ b \in Ring!Index \cup {-1} /\ n \in 0 .. Ring!RingSize
  BY DEF Ring!TypeOK
<1>3. (f = -1 <=> b = -1) /\ n = Length(f, b)
  BY DEF RingOK
<1>4. Ring!Scanned(i) = IF f > b THEN {j \in Ring!Index : j >= f \/ j <= b}
                   ELSE {j \in Ring!Index : f # -1 /\ f <= j /\ j <= b}
  BY DEF Ring!Scanned
<1> HIDE DEF f, b, n
<1>5. ASSUME NEW j \in 1 .. n PROVE EntryAt(f, j) \in Ring!Scanned(i)
  BY <1>1, <1>2, <1>3, <1>4 DEF EntryAt, Length, Ring!Index
<1>6. ASSUME NEW s \in Ring!Scanned(i) PROVE \E j \in 1 .. n : s = EntryAt(f, j)
  <2>1. CASE s >= f
    <3>1. s - f + 1 \in 1 .. n /\ s = EntryAt(f, s - f + 1)
      BY <1>1, <1>2, <1>3, <1>4, <2>1 DEF EntryAt, Length, Ring!Index
    <3> QED
      BY <3>1
  <2>2. CASE s < f
    <3>1. s - f + 1 + Ring!RingSize \in 1 .. n /\ s = EntryAt(f, s - f + 1 + Ring!RingSize)
      BY <1>1, <1>2, <1>3, <1>4, <2>2 DEF EntryAt, Length, Ring!Index
    <3> QED
      BY <3>1
  <2>3. s \in Int /\ f \in Int
    BY <1>1, <1>2, <1>4 DEF Ring!Index
  <2> QED
    BY <2>1, <2>2, <2>3
<1> QED
  BY <1>4, <1>5, <1>6 DEF f, n

(* push() finds a process exactly when it is queued.                       *)
LEMMA QueuedScanned ==
  ASSUME Ring!RingConstants, RingInv, NEW p
  PROVE  Ring!Queued(p) <=> \E i \in Ring!Queue : \E j \in Ring!Scanned(i) : rings.queue[i][j] = p
<1>1. rings \in Arrays
  BY DEF RingInv, Ring!TypeOK, Arrays
<1>2. ASSUME NEW i \in Ring!Queue
      PROVE  (\E j \in 1 .. Len(Ring!Entries(rings, i)) : Ring!Entries(rings, i)[j] = p)
               <=> \E j \in Ring!Scanned(i) : rings.queue[i][j] = p
  <2>1. RingOK(rings, i) /\ Ring!TypeOK
    BY DEF RingInv
  <2>2. /\ Ring!Entries(rings, i) = [j \in 1 .. rings.sz[i] |-> rings.queue[i][EntryAt(rings.front[i], j)]]
        /\ Len(Ring!Entries(rings, i)) = rings.sz[i]
    BY <1>1, <2>1, EntriesAre
  <2>3. /\ \A j \in 1 .. rings.sz[i] : EntryAt(rings.front[i], j) \in Ring!Scanned(i)
        /\ \A s \in Ring!Scanned(i) : \E j \in 1 .. rings.sz[i] : s = EntryAt(rings.front[i], j)
    BY <2>1, ScannedAre
  <2>4. \A j \in 1 .. rings.sz[i] : Ring!Entries(rings, i)[j] = rings.queue[i][EntryAt(rings.front[i], j)]
    BY <2>2
  <2>5. ASSUME NEW j \in 1 .. rings.sz[i], Ring!Entries(rings, i)[j] = p
        PROVE  \E s \in Ring!Scanned(i) : rings.queue[i][s] = p
    BY <2>3, <2>4, <2>5, Zenon
  <2>6. ASSUME NEW s \in Ring!Scanned(i), rings.queue[i][s] = p
        PROVE  \E j \in 1 .. rings.sz[i] : Ring!Entries(rings, i)[j] = p
    <3>1. PICK j \in 1 .. rings.sz[i] : s = EntryAt(rings.front[i], j)
      BY <2>3, Zenon
    <3> QED
      BY <2>4, <2>6, <3>1, Zenon
  <2> QED
    BY <2>2, <2>5, <2>6, Zenon
<1> QED
  BY <1>2 DEF Ring!Queued

(* A full ring has an entry in every slot.                                 *)
LEMMA FullSize ==
  ASSUME Ring!RingConstants, Ring!TypeOK, NEW i \in Ring!Queue, RingOK(rings, i)
  PROVE  /\ Ring!isFull(i) <=> rings.sz[i] = Ring!RingSize
         /\ Ring!isFull(i) => Ring!Scanned(i) = Ring!Index
<1> DEFINE f == rings.front[i]
           b == rings.rear[i]
<1>1. Ring!RingSize \in Nat \ {0}
  BY SizeType
<1>2. f \in Ring!Index \cup {-1} /\ b \in Ring!Index \cup {-1}
  BY DEF Ring!TypeOK
<1>3. (f = -1 <=> b = -1) /\ rings.sz[i] = Length(f, b)
  BY DEF RingOK
<1>4. Ring!Scanned(i) = IF f > b THEN {j \in Ring!Index : j >= f \/ j <= b}
                   ELSE {j \in Ring!Index : f # -1 /\ f <= j /\ j <= b}
  BY DEF Ring!Scanned
<1>5. Ring!isFull(i) <=> f = b + 1 \/ (f = 0 /\ b = Ring!RingSize - 1)
  BY DEF Ring!isFull
<1> HIDE DEF f, b
<1>6. Ring!isFull(i) <=> rings.sz[i] = Ring!RingSize
  BY <1>1, <1>2, <1>3, <1>5 DEF Length, Ring!Index
<1>7. ASSUME Ring!isFull(i), NEW j \in Ring!Index PROVE j \in Ring!Scanned(i)
  BY <1>1, <1>2, <1>3, <1>4, <1>5, <1>7, SMTT(30) DEF Ring!Index
<1> QED
  BY <1>4, <1>6, <1>7

(* A process that is in no queue has room in each.                         *)
LEMMA HasRoom ==
  ASSUME Ring!RingConstants, RingInv, NEW i \in Ring!Queue, NEW p \in RingProc, Ring!isFull(i)
  PROVE  \E j \in Ring!Scanned(i) : rings.queue[i][j] = p
<1> SUFFICES ASSUME ~\E j \in Ring!Scanned(i) : rings.queue[i][j] = p PROVE FALSE
  OBVIOUS
<1> DEFINE g == [j \in Ring!Index |-> rings.queue[i][j]]
<1>1. Ring!Scanned(i) = Ring!Index
  BY FullSize DEF RingInv
<1>2. g \in [Ring!Index -> RingProc \ {p}]
  BY <1>1 DEF RingInv, Distinct
<1>3. Ring!RingSize \in Nat \ {0} /\ IsFiniteSet(RingProc) /\ Cardinality(RingProc) = Ring!RingSize
  BY RingSets, SizeType DEF Ring!RingConstants, Ring!RingSize
<1>4. IsFiniteSet(Ring!Index) /\ Cardinality(Ring!Index) = Ring!RingSize
  BY <1>3, FS_Interval DEF Ring!Index
<1>5. IsFiniteSet(RingProc \ {p}) /\ Cardinality(RingProc \ {p}) = Ring!RingSize - 1
  BY <1>3, FS_RemoveElement
<1> HIDE DEF g
<1>6. PICK x \in Ring!Index, y \in Ring!Index : x # y /\ g[x] = g[y]
  BY <1>2, <1>3, <1>4, <1>5, FS_PigeonHole
<1>7. rings.queue[i][x] = rings.queue[i][y]
  BY <1>6 DEF g
<1> QED
  BY <1>1, <1>6, <1>7 DEF RingInv, Distinct
-----------------------------------------------------------------------------
(* The rings after a push of a process that is in none of them.            *)
LEMMA Pushed ==
  ASSUME Ring!RingConstants, RingInv, NEW i \in Ring!Queue, NEW p \in RingProc, ~Ring!Queued(p),
         NEW a, a = Ring!push(i, p)
  PROVE  /\ a \in Arrays
         /\ \A k \in Ring!Queue : RingOK(a, k)
         /\ Ring!Entries(a, i) = Append(Ring!Entries(rings, i), p)
         /\ \A k \in Ring!Queue \ {i} : Ring!Entries(a, k) = Ring!Entries(rings, k)
         /\ \E s \in Ring!Index : /\ s \notin Span(rings, i)
                            /\ Span(a, i) = Span(rings, i) \cup {s}
                            /\ a.queue[i] = [rings.queue[i] EXCEPT ![s] = p]
         /\ \A k \in Ring!Queue \ {i} : Span(a, k) = Span(rings, k) /\ a.queue[k] = rings.queue[k]
<1> DEFINE f == rings.front[i]
           b == rings.rear[i]
           n == rings.sz[i]
           f2 == IF f = -1 THEN 0 ELSE f
           b2 == (b + 1) % Ring!RingSize
<1>1. Ring!RingSize \in Nat \ {0} /\ rings \in Arrays
  BY SizeType DEF RingInv, Ring!TypeOK, Arrays
<1>2. f \in Ring!Index \cup {-1} /\ b \in Ring!Index \cup {-1} /\ n \in 0 .. Ring!RingSize
  BY <1>1 DEF Arrays
<1>3. (f = -1 <=> b = -1) /\ n = Length(f, b)
  BY DEF RingOK, RingInv
<1>4. ~Ring!isFull(i)
  BY HasRoom, QueuedScanned
<1>5. n < Ring!RingSize /\ n \in Nat
  BY <1>1, <1>2, <1>4, FullSize DEF RingInv
<1>6. /\ a.front = [rings.front EXCEPT ![i] = f2]
      /\ a.rear = [rings.rear EXCEPT ![i] = b2]
      /\ a.sz = [rings.sz EXCEPT ![i] = n + 1]
      /\ a.queue = [rings.queue EXCEPT ![i] = [@ EXCEPT ![b2] = p]]
      /\ a = [front |-> a.front, rear |-> a.rear, sz |-> a.sz, queue |-> a.queue]
  BY <1>1, <1>4, QueuedScanned, Zenon DEF Ring!push, Arrays
<1> HIDE DEF f, b, n
<1>7. b2 = IF b = Ring!RingSize - 1 THEN 0 ELSE b + 1
  <2>1. CASE b = Ring!RingSize - 1
    <3>1. b + 1 \in Ring!RingSize .. Ring!RingSize + Ring!RingSize - 1
      BY <1>1, <2>1
    <3> QED
      BY <1>1, <3>1, <2>1, ModUp
  <2>2. CASE b # Ring!RingSize - 1
    <3>1. b + 1 \in 0 .. Ring!RingSize - 1
      BY <1>1, <1>2, <2>2 DEF Ring!Index
    <3> QED
      BY <1>1, <3>1, <2>2, ModLow
  <2> QED
    BY <2>1, <2>2
<1> HIDE DEF b2
<1>8. f2 \in Ring!Index /\ b2 \in Ring!Index /\ n + 1 = Length(f2, b2) /\ b2 = EntryAt(f2, n + 1)
  BY <1>1, <1>2, <1>3, <1>5, <1>7 DEF Length, EntryAt, Ring!Index
<1> HIDE DEF f2
<1>9. a \in Arrays
  <2>1. a.front \in [Ring!Queue -> Ring!Index \cup {-1}] /\ a.rear \in [Ring!Queue -> Ring!Index \cup {-1}]
    BY <1>1, <1>6, <1>8 DEF Arrays
  <2>2. a.sz \in [Ring!Queue -> 0 .. Ring!RingSize]
    <3>1. n + 1 \in 0 .. Ring!RingSize /\ rings.sz \in [Ring!Queue -> 0 .. Ring!RingSize]
      BY <1>1, <1>5 DEF Arrays
    <3> QED
      BY <3>1, <1>6
  <2>3. a.queue \in [Ring!Queue -> [Ring!Index -> RingProc \cup {Ring!Null}]]
    BY <1>1, <1>6, <1>8 DEF Arrays
  <2> QED
    BY <1>6, <2>1, <2>2, <2>3 DEF Arrays
<1>10. ASSUME NEW k \in Ring!Queue PROVE RingOK(a, k)
  <2>1. RingOK(rings, k)
    BY DEF RingInv
  <2>2. CASE k = i
    BY <2>2, <1>1, <1>6, <1>8 DEF RingOK, Arrays, Ring!Index
  <2>3. CASE k # i
    BY <2>1, <2>3, <1>1, <1>6 DEF RingOK, Arrays
  <2> QED
    BY <2>2, <2>3
<1>11. ASSUME NEW k \in Ring!Queue \ {i} PROVE Ring!Entries(a, k) = Ring!Entries(rings, k)
  BY <1>1, <1>6, SMTT(30) DEF Ring!Entries, Arrays
<1>12. Ring!Entries(a, i) = Append(Ring!Entries(rings, i), p)
  <2>1. /\ Ring!Entries(rings, i) = [j \in 1 .. n |-> rings.queue[i][EntryAt(f, j)]]
        /\ \A j \in 1 .. n : EntryAt(f, j) \in Ring!Index
    BY <1>1, EntriesAre DEF RingInv, f, n
  <2>2. Ring!Entries(a, i) = [j \in 1 .. n + 1 |-> a.queue[i][EntryAt(f2, j)]]
    <3>1. Ring!Entries(a, i) = [j \in 1 .. a.sz[i] |-> a.queue[i][EntryAt(a.front[i], j)]]
      BY <1>9, <1>10, EntriesAre
    <3>2. a.sz[i] = n + 1 /\ a.front[i] = f2
      BY <1>1, <1>6 DEF Arrays
    <3> QED
      BY <1>6, <3>1, <3>2, SMTT(30)
  <2>3. ASSUME NEW j \in 1 .. n PROVE EntryAt(f2, j) = EntryAt(f, j) /\ EntryAt(f2, j) # b2
    BY <1>1, <1>2, <1>3, <1>5, <1>8, SMTT(30) DEF f2, EntryAt, Ring!Index, Length
  <2>4. /\ \A j \in 1 .. n : a.queue[i][EntryAt(f2, j)] = rings.queue[i][EntryAt(f, j)]
        /\ a.queue[i][EntryAt(f2, n + 1)] = p
    BY <1>1, <1>6, <1>8, <2>1, <2>3 DEF Arrays
  <2>5. Append(Ring!Entries(rings, i), p) = [j \in 1 .. n + 1 |-> IF j <= n THEN rings.queue[i][EntryAt(f, j)] ELSE p]
    BY <1>5, <2>1
  <2> QED
    BY <1>5, <2>2, <2>4, <2>5, SMTT(30)
<1>13. /\ b2 \notin Span(rings, i)
       /\ Span(a, i) = Span(rings, i) \cup {b2}
       /\ a.queue[i] = [rings.queue[i] EXCEPT ![b2] = p]
  <2>1. a.front[i] = f2 /\ a.rear[i] = b2 /\ a.queue[i] = [rings.queue[i] EXCEPT ![b2] = p]
    BY <1>1, <1>6, SMTT(30) DEF Arrays
  <2>2. Span(rings, i) = IF f > b THEN {j \in Ring!Index : j >= f \/ j <= b}
                     ELSE {j \in Ring!Index : f # -1 /\ f <= j /\ j <= b}
    BY DEF Span, f, b
  <2>3. Span(a, i) = IF f2 > b2 THEN {j \in Ring!Index : j >= f2 \/ j <= b2}
                     ELSE {j \in Ring!Index : f2 # -1 /\ f2 <= j /\ j <= b2}
    BY <2>1 DEF Span
  <2>4. b2 \notin Span(rings, i)
    BY <1>1, <1>2, <1>3, <1>5, <1>7, <2>2 DEF Ring!Index, Length
  <2>5. ASSUME NEW j \in Ring!Index PROVE j \in Span(a, i) <=> j \in Span(rings, i) \/ j = b2
    BY <1>1, <1>2, <1>3, <1>5, <1>7, <2>2, <2>3 DEF Ring!Index, Length, f2
  <2>6. Span(a, i) \subseteq Ring!Index /\ Span(rings, i) \subseteq Ring!Index
    BY <2>2, <2>3
  <2> QED
    BY <1>8, <2>1, <2>4, <2>5, <2>6
<1>14. ASSUME NEW k \in Ring!Queue \ {i} PROVE Span(a, k) = Span(rings, k) /\ a.queue[k] = rings.queue[k]
  BY <1>1, <1>6 DEF Span, Arrays
<1> QED
  BY <1>8, <1>9, <1>10, <1>11, <1>12, <1>13, <1>14, Zenon

(* The rings after a pop.                                                  *)
LEMMA Popped ==
  ASSUME Ring!RingConstants, RingInv, NEW i \in Ring!Queue, rings.sz[i] > 0, NEW a, a = Ring!pop(i)
  PROVE  /\ a \in Arrays
         /\ \A k \in Ring!Queue : RingOK(a, k)
         /\ rings.queue[i][rings.front[i]] = Head(Ring!Entries(rings, i))
         /\ Ring!Entries(a, i) = Tail(Ring!Entries(rings, i))
         /\ \A k \in Ring!Queue \ {i} : Ring!Entries(a, k) = Ring!Entries(rings, k)
         /\ \A k \in Ring!Queue : Span(a, k) \subseteq Span(rings, k)
         /\ a.queue = rings.queue
<1> DEFINE f == rings.front[i]
           b == rings.rear[i]
           n == rings.sz[i]
           f2 == IF f = b THEN -1 ELSE (f + 1) % Ring!RingSize
           b2 == IF f = b THEN -1 ELSE b
<1>1. Ring!RingSize \in Nat \ {0} /\ rings \in Arrays
  BY SizeType DEF RingInv, Ring!TypeOK, Arrays
<1>2. f \in Ring!Index \cup {-1} /\ b \in Ring!Index \cup {-1} /\ n \in 1 .. Ring!RingSize
  BY <1>1 DEF Arrays
<1>3. (f = -1 <=> b = -1) /\ n = Length(f, b)
  BY DEF RingOK, RingInv
<1>6. /\ a.front = [rings.front EXCEPT ![i] = f2]
      /\ a.rear = [rings.rear EXCEPT ![i] = b2]
      /\ a.sz = [rings.sz EXCEPT ![i] = n - 1]
      /\ a.queue = rings.queue
      /\ a = [front |-> a.front, rear |-> a.rear, sz |-> a.sz, queue |-> a.queue]
  BY <1>1 DEF Ring!pop, Arrays
<1> HIDE DEF f, b, n
<1>4. f \in Ring!Index /\ b \in Ring!Index
  BY <1>1, <1>2, <1>3 DEF Length
<1>5. f # b => f2 = IF f = Ring!RingSize - 1 THEN 0 ELSE f + 1
  <2>1. CASE f = Ring!RingSize - 1
    <3>1. f + 1 \in Ring!RingSize .. Ring!RingSize + Ring!RingSize - 1
      BY <1>1, <2>1
    <3> QED
      BY <1>1, <3>1, <2>1, ModUp
  <2>2. CASE f # Ring!RingSize - 1
    <3>1. f + 1 \in 0 .. Ring!RingSize - 1
      BY <1>1, <1>4, <2>2 DEF Ring!Index
    <3> QED
      BY <1>1, <3>1, <2>2, ModLow
  <2> QED
    BY <2>1, <2>2
<1>7. f = b => f2 = -1
  OBVIOUS
<1> HIDE DEF f2
<1>8. /\ f2 \in Ring!Index \cup {-1} /\ b2 \in Ring!Index \cup {-1} /\ (f2 = -1 <=> b2 = -1)
      /\ n - 1 = Length(f2, b2)
  BY <1>1, <1>2, <1>3, <1>4, <1>5, <1>7 DEF Length, Ring!Index
<1>9. a \in Arrays
  <2>1. a.front \in [Ring!Queue -> Ring!Index \cup {-1}] /\ a.rear \in [Ring!Queue -> Ring!Index \cup {-1}]
    BY <1>1, <1>6, <1>8 DEF Arrays
  <2>2. a.sz \in [Ring!Queue -> 0 .. Ring!RingSize]
    <3>1. n - 1 \in 0 .. Ring!RingSize /\ rings.sz \in [Ring!Queue -> 0 .. Ring!RingSize]
      BY <1>1, <1>2 DEF Arrays
    <3> QED
      BY <3>1, <1>6
  <2>3. a.queue \in [Ring!Queue -> [Ring!Index -> RingProc \cup {Ring!Null}]]
    BY <1>1, <1>6 DEF Arrays
  <2> QED
    BY <1>6, <2>1, <2>2, <2>3, Zenon DEF Arrays
<1>10. ASSUME NEW k \in Ring!Queue PROVE RingOK(a, k)
  <2>1. RingOK(rings, k)
    BY DEF RingInv
  <2>2. CASE k = i
    BY <2>2, <1>1, <1>6, <1>8 DEF RingOK, Arrays
  <2>3. CASE k # i
    BY <2>1, <2>3, <1>1, <1>6, SMTT(30) DEF RingOK, Arrays
  <2> QED
    BY <2>2, <2>3
<1>11. ASSUME NEW k \in Ring!Queue \ {i} PROVE Ring!Entries(a, k) = Ring!Entries(rings, k)
  BY <1>1, <1>6 DEF Ring!Entries, Arrays
<1>12. /\ Ring!Entries(a, i) = Tail(Ring!Entries(rings, i))
       /\ rings.queue[i][f] = Head(Ring!Entries(rings, i))
  <2>1. /\ Ring!Entries(rings, i) = [j \in 1 .. n |-> rings.queue[i][EntryAt(f, j)]]
        /\ \A j \in 1 .. n : EntryAt(f, j) \in Ring!Index
    BY <1>1, EntriesAre DEF RingInv, f, n
  <2>2. Ring!Entries(a, i) = [j \in 1 .. n - 1 |-> rings.queue[i][EntryAt(f2, j)]]
    <3>1. Ring!Entries(a, i) = [j \in 1 .. a.sz[i] |-> a.queue[i][EntryAt(a.front[i], j)]]
      BY <1>9, <1>10, EntriesAre
    <3>2. a.sz[i] = n - 1 /\ a.front[i] = f2
      BY <1>1, <1>6 DEF Arrays
    <3> QED
      BY <1>6, <3>1, <3>2, SMTT(30)
  <2>3. ASSUME NEW j \in 1 .. n - 1 PROVE EntryAt(f2, j) = EntryAt(f, j + 1)
    BY <1>1, <1>2, <1>3, <1>4, <1>5 DEF EntryAt, Ring!Index, Length
  <2>4. EntryAt(f, 1) = f
    BY <1>1, <1>4 DEF EntryAt, Ring!Index
  <2>5. /\ Tail(Ring!Entries(rings, i)) = [j \in 1 .. n - 1 |-> rings.queue[i][EntryAt(f, j + 1)]]
        /\ Head(Ring!Entries(rings, i)) = rings.queue[i][EntryAt(f, 1)]
    BY <1>2, <2>1
  <2> QED
    BY <2>2, <2>3, <2>4, <2>5, SMTT(30)
<1>13. ASSUME NEW k \in Ring!Queue PROVE Span(a, k) \subseteq Span(rings, k)
  <2>1. CASE k # i
    BY <2>1, <1>1, <1>6, SMTT(30) DEF Span, Arrays
  <2>2. CASE k = i
    <3>1. a.front[i] = f2 /\ a.rear[i] = b2
      BY <1>1, <1>6 DEF Arrays
    <3>2. Span(rings, i) = IF f > b THEN {j \in Ring!Index : j >= f \/ j <= b}
                       ELSE {j \in Ring!Index : f # -1 /\ f <= j /\ j <= b}
      BY DEF Span, f, b
    <3>3. Span(a, i) = IF f2 > b2 THEN {j \in Ring!Index : j >= f2 \/ j <= b2}
                       ELSE {j \in Ring!Index : f2 # -1 /\ f2 <= j /\ j <= b2}
      BY <3>1 DEF Span
    <3> QED
      BY <2>2, <1>1, <1>4, <1>5, <1>7, <3>2, <3>3, SMTT(30) DEF Ring!Index
  <2> QED
    BY <2>1, <2>2
<1> QED
  BY <1>6, <1>9, <1>10, <1>11, <1>12, <1>13 DEF f
-----------------------------------------------------------------------------
(* A push of a queued process changes nothing.                             *)
LEMMA PushAgain ==
  ASSUME Ring!RingConstants, RingInv, NEW i \in Ring!Queue, NEW p \in RingProc, Ring!Queued(p)
  PROVE  Ring!push(i, p) = rings
  BY QueuedScanned DEF Ring!push

(* push() searches the slots between front and rear.                       *)
LEMMA ScannedSpan == \A i \in Ring!Queue : Ring!Scanned(i) = Span(rings, i)
  BY SMTT(30) DEF Ring!Scanned, Span

(* push() and pop() keep the invariant.                                    *)
LEMMA RingStep == ASSUME Ring!RingConstants, RingInv, [Ring!Next]_rings PROVE RingInv'
<1> DEFINE Once(a) ==
      \A i \in Ring!Queue : \A j \in Span(a, i) :
        /\ a.queue[i][j] \in RingProc
        /\ \A k \in Ring!Queue : \A l \in Span(a, k) : a.queue[i][j] = a.queue[k][l] => i = k /\ j = l
<1>1. Once(rings)
  BY ScannedSpan DEF RingInv, Distinct
<1>2. rings \in Arrays
  BY DEF RingInv, Ring!TypeOK, Arrays
<1>3. SUFFICES rings' \in Arrays /\ (\A i \in Ring!Queue : RingOK(rings', i)) /\ Once(rings')
  <2>1. \A i \in Ring!Queue : Ring!Scanned(i)' = Span(rings', i)
    BY DEF Ring!Scanned, Span
  <2>2. (\A i \in Ring!Queue : RingOK(rings', i)) => (\A i \in Ring!Queue : RingOK(rings, i))'
    BY DEF RingOK
  <2>3. Once(rings') => Distinct'
    BY <2>1 DEF Distinct
  <2> QED
    BY <1>3, <2>2, <2>3, SMTT(30) DEF RingInv, Ring!TypeOK, Arrays
<1>4. CASE rings' = rings
  BY <1>1, <1>2, <1>4, SMTT(30) DEF RingInv
<1>5. ASSUME NEW i \in Ring!Queue, NEW p \in RingProc, rings' = Ring!push(i, p), ~Ring!Queued(p)
      PROVE  rings' \in Arrays /\ (\A k \in Ring!Queue : RingOK(rings', k)) /\ Once(rings')
  <2>1. /\ rings' \in Arrays
        /\ \A k \in Ring!Queue : RingOK(rings', k)
        /\ \E s \in Ring!Index : /\ s \notin Span(rings, i)
                           /\ Span(rings', i) = Span(rings, i) \cup {s}
                           /\ rings'.queue[i] = [rings.queue[i] EXCEPT ![s] = p]
        /\ \A k \in Ring!Queue \ {i} : Span(rings', k) = Span(rings, k) /\ rings'.queue[k] = rings.queue[k]
    BY <1>5, Pushed, SMTT(30)
  <2>2. PICK s \in Ring!Index : /\ s \notin Span(rings, i)
                           /\ Span(rings', i) = Span(rings, i) \cup {s}
                           /\ rings'.queue[i] = [rings.queue[i] EXCEPT ![s] = p]
    BY <2>1
  <2>3. \A k \in Ring!Queue : \A j \in Span(rings, k) : rings.queue[k][j] # p
    BY <1>5, QueuedScanned, ScannedSpan
  <2>4. rings'.queue[i][s] = p
    BY <1>2, <2>2 DEF Arrays
  <2>5. ASSUME NEW k \in Ring!Queue, NEW j \in Span(rings, k)
        PROVE  rings'.queue[k][j] = rings.queue[k][j]
    <3>1. j \in Ring!Index
      BY DEF Span
    <3> QED
      BY <1>2, <2>1, <2>2, <3>1, SMTT(30) DEF Arrays
  <2>6. ASSUME NEW k \in Ring!Queue, NEW j \in Span(rings', k), ~(k = i /\ j = s)
        PROVE  j \in Span(rings, k)
    BY <2>1, <2>2, <2>6
  <2>7. Once(rings')
    BY <1>1, <2>3, <2>4, <2>5, <2>6
  <2> QED
    BY <2>1, <2>7, SMTT(30)
<1>6. ASSUME NEW i \in Ring!Queue, rings.sz[i] > 0, rings' = Ring!pop(i)
      PROVE  rings' \in Arrays /\ (\A k \in Ring!Queue : RingOK(rings', k)) /\ Once(rings')
  <2>1. /\ rings' \in Arrays /\ \A k \in Ring!Queue : RingOK(rings', k)
        /\ \A k \in Ring!Queue : Span(rings', k) \subseteq Span(rings, k)
        /\ rings'.queue = rings.queue
    BY <1>6, Popped
  <2> QED
    BY <1>1, <2>1
<1>7. CASE UNCHANGED rings
  BY <1>4, <1>7
<1> QED
  BY <1>4, <1>5, <1>6, PushAgain DEF Ring!Next

(* main() establishes it.                                                  *)
LEMMA RingStart == ASSUME Ring!RingConstants, Ring!Init PROVE RingInv
<1>1. Ring!RingSize \in Nat \ {0}
  BY SizeType
<1>2. Ring!TypeOK
  BY <1>1 DEF Ring!Init, Ring!TypeOK
<1>3. \A i \in Ring!Queue : RingOK(rings, i) /\ Ring!Scanned(i) = {}
  BY SMTT(30) DEF Ring!Init, RingOK, Length, Ring!Scanned
<1> QED
  BY <1>2, <1>3 DEF RingInv, Distinct

(* It makes the rings queues.                                              *)
LEMMA RingQueuesAre == ASSUME Ring!RingConstants, RingInv PROVE Ring!RingsAreQueues
<1>1. rings \in Arrays /\ Ring!RingSize \in Nat \ {0}
  BY SizeType, SMTT(30) DEF RingInv, Ring!TypeOK, Arrays
<1> SUFFICES ASSUME NEW i \in Ring!Queue
    PROVE /\ rings.sz[i] = Len(Ring!Entries(rings, i)) /\ (Ring!isEmpty(i) <=> rings.sz[i] = 0)
          /\ \A p \in RingProc :
               /\ Ring!Entries(Ring!push(i, p), i) =
                    IF Ring!Queued(p) THEN Ring!Entries(rings, i) ELSE Append(Ring!Entries(rings, i), p)
               /\ Ring!Same(Ring!push(i, p), i)
          /\ rings.sz[i] > 0 => /\ rings.queue[i][rings.front[i]] = Head(Ring!Entries(rings, i))
                            /\ Ring!Entries(Ring!pop(i), i) = Tail(Ring!Entries(rings, i))
                            /\ Ring!Same(Ring!pop(i), i)
  BY DEF Ring!RingsAreQueues
<1>2. rings.sz[i] = Len(Ring!Entries(rings, i))
  BY <1>1, EntriesAre DEF RingInv
<1>3. Ring!isEmpty(i) <=> rings.sz[i] = 0
  BY <1>1 DEF RingInv, RingOK, Length, Ring!isEmpty, Arrays, Ring!Index
<1>4. ASSUME NEW p \in RingProc
      PROVE  /\ Ring!Entries(Ring!push(i, p), i) =
                    IF Ring!Queued(p) THEN Ring!Entries(rings, i) ELSE Append(Ring!Entries(rings, i), p)
             /\ Ring!Same(Ring!push(i, p), i)
  <2>1. CASE Ring!Queued(p)
    BY <2>1, PushAgain, SMTT(30) DEF Ring!Same
  <2>2. CASE ~Ring!Queued(p)
    BY <2>2, Pushed, SMTT(30) DEF Ring!Same
  <2> QED
    BY <2>1, <2>2
<1>5. ASSUME rings.sz[i] > 0
      PROVE  /\ rings.queue[i][rings.front[i]] = Head(Ring!Entries(rings, i))
             /\ Ring!Entries(Ring!pop(i), i) = Tail(Ring!Entries(rings, i))
             /\ Ring!Same(Ring!pop(i), i)
  BY <1>5, Popped DEF Ring!Same
<1> QED
  BY <1>2, <1>3, <1>4, <1>5

(* push(), pop(): the arrays front, rear, sz and queue of types.h are the  *)
(* queues of module Mlfq, wherever the rings start and wrap, for every     *)
(* NPROC and number of queues.                                             *)
THEOREM RingsKept == ASSUME Ring!RingConstants PROVE Ring!Spec => []Ring!RingsAreQueues
<1>1. Ring!Init => RingInv
  BY RingStart
<1>2. RingInv /\ [Ring!Next]_rings => RingInv'
  BY RingStep
<1>3. RingInv => Ring!RingsAreQueues
  BY RingQueuesAre
<1> QED
  BY <1>1, <1>2, <1>3, PTL DEF Ring!Spec
-----------------------------------------------------------------------------
(* The process table and the rings together, as MCProcTable composes them. *)

(* A behaviour of the composition is one of the table, and one of the      *)
(* rings.                                                                  *)
LEMMA TableComposes == TableSpec => Spec /\ Ring!Spec
<1>1. TableInit => Init /\ Ring!Init
  BY DEF TableInit
<1>2. [TablePart \/ RingPart]_<<part, vars, rings>> => [Next]_vars /\ [Ring!Next]_rings
  BY DEF TablePart, RingPart, vars
<1> QED
  BY <1>1, <1>2, PTL DEF TableSpec, Spec, Ring!Spec

(* push(), pop(): wherever the rings start and wrap, they are the queues   *)
(* of module Mlfq.                                                         *)
THEOREM RingsStayQueues == TableSpec => []RingsAreQueues
  BY TableComposes, RingsKept, RingConstantsHold, PTL DEF RingsAreQueues
=============================================================================
