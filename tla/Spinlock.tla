------------------------------ MODULE Spinlock ------------------------------
(***************************************************************************)
(* Spin-locks (spinlock.c): acquire(), release(), holding(), pushcli() and *)
(* popcli(), with what runs on them: processes, the scheduler of each CPU, *)
(* interrupt handlers that use the same locks, and the switches of sched() *)
(* and scheduler() (proc.c), which carry ptable.lock and the interrupt     *)
(* state from one kernel thread to another.                                *)
(*                                                                         *)
(* The kernel code that uses the locks is any code that takes one lock,    *)
(* perhaps ptable.lock after it (sleep(), and the callers of wakeup()) or  *)
(* cons.lock after ptable.lock (cprintf() in scheduler(), yield() and      *)
(* modify_times()), and gives them up in any order.                        *)
(***************************************************************************)
EXTENDS Integers, Sequences, FiniteSets

CONSTANTS Cpu, Proc, Lock, ptable, cons, None

ASSUME SpinlockConstants ==
  /\ ptable \in Lock /\ cons \in Lock /\ cons # ptable
  /\ None \notin Cpu /\ None \notin Proc /\ None \notin BOOLEAN

VARIABLES locked,    \* lk->locked
          cpu,       \* lk->cpu
          ncli,      \* mycpu()->ncli
          intena,    \* mycpu()->intena
          IF_on,     \* FL_IF in the flags register of the CPU
          cur,       \* mycpu()->proc; None while scheduler() runs
          run,       \* what the CPU executes
          frames,    \* trap frames on the stack of the CPU's kernel thread
          ctx        \* what a switched-out process resumes with

vars == <<locked, cpu, ncli, intena, IF_on, cur, run, frames, ctx>>

Holder == Cpu \cup {None}
Location == {"code", "test", "spin", "mark", "unlock", "pop", "panic"}

(* A place in the code: inside acquire() or release() of a lock, or in     *)
(* code outside them ("code"), and the locks acquired and not released.    *)
Place == [at : Location, lk : Lock, held : SUBSET Lock]

Code == [at |-> "code", lk |-> ptable, held |-> {}]

(* "irq": an interrupt came at place; "fork": the frame that allocproc()   *)
(* and fork() make for a new process to return to user mode with.          *)
Frame == [kind : {"irq", "fork"}, place : Place]

(* A new process starts in forkret(), with ptable.lock held.  It does not  *)
(* return from sched() and takes intena as it finds it.                    *)
NewCtx == [intena |-> None, frames |-> <<[kind |-> "fork", place |-> Code]>>]

TypeOK ==
  /\ locked \in [Lock -> BOOLEAN]
  /\ cpu \in [Lock -> Holder]
  /\ ncli \in [Cpu -> Nat]
  /\ intena \in [Cpu -> BOOLEAN]
  /\ IF_on \in [Cpu -> BOOLEAN]
  /\ cur \in [Cpu -> Proc \cup {None}]
  /\ run \in [Cpu -> Place]
  /\ \A c \in Cpu : frames[c] \in Seq(Frame)
  /\ \A p \in Proc : ctx[p] # None <=> \A c \in Cpu : cur[c] # p

(* Every CPU enters scheduler() with interrupts off.                       *)
Init ==
  /\ locked = [l \in Lock |-> FALSE] /\ cpu = [l \in Lock |-> None]
  /\ ncli = [c \in Cpu |-> 0] /\ intena = [c \in Cpu |-> FALSE]
  /\ IF_on = [c \in Cpu |-> FALSE]
  /\ cur = [c \in Cpu |-> None]
  /\ run = [c \in Cpu |-> Code]
  /\ frames = [c \in Cpu |-> <<>>]
  /\ ctx = [p \in Proc |-> NewCtx]
-----------------------------------------------------------------------------
At(c, location) == run[c].at = location
Held(c) == run[c].held
InScheduler(c) == cur[c] = None /\ frames[c] = <<>>

holding(c, l) == locked[l] /\ cpu[l] = c

Goto(c, location) == run' = [run EXCEPT ![c].at = location]

(* cli() leaves nothing between the read of the flags and the count that   *)
(* another thread could change: a thread that was interrupted in between   *)
(* comes back with the same flags.                                         *)
pushcli(c) ==
  /\ intena' = IF ncli[c] = 0 THEN [intena EXCEPT ![c] = IF_on[c]] ELSE intena
  /\ ncli' = [ncli EXCEPT ![c] = @ + 1]
  /\ IF_on' = [IF_on EXCEPT ![c] = FALSE]

(* The locks the kernel acquires while it has others.  scheduler() takes   *)
(* ptable.lock when it has just executed sti().                            *)
MayAcquire(c, l) ==
  \/ Held(c) = {} /\ (InScheduler(c) => IF_on[c] /\ l = ptable)
  \/ Held(c) = {ptable} /\ l = cons
  \/ Held(c) # {} /\ ptable \notin Held(c) /\ l = ptable

(* The code calls acquire(l).                                              *)
Acquire(c, l) ==
  /\ At(c, "code") /\ MayAcquire(c, l)
  /\ pushcli(c)
  /\ run' = [run EXCEPT ![c].at = "test", ![c].lk = l]
  /\ UNCHANGED <<locked, cpu, cur, frames, ctx>>

AcquireTest(c) ==
  /\ At(c, "test")
  /\ Goto(c, IF holding(c, run[c].lk) THEN "panic" ELSE "spin")
  /\ UNCHANGED <<locked, cpu, ncli, intena, IF_on, cur, frames, ctx>>

(* The xchg() that finds the lock free.                                    *)
Xchg(c) ==
  /\ At(c, "spin")
  /\ ~locked[run[c].lk]
  /\ locked' = [locked EXCEPT ![run[c].lk] = TRUE]
  /\ Goto(c, "mark")
  /\ UNCHANGED <<cpu, ncli, intena, IF_on, cur, frames, ctx>>

Mark(c) ==
  /\ At(c, "mark")
  /\ cpu' = [cpu EXCEPT ![run[c].lk] = c]
  /\ run' = [run EXCEPT ![c].at = "code", ![c].held = @ \cup {run[c].lk}]
  /\ UNCHANGED <<locked, ncli, intena, IF_on, cur, frames, ctx>>

(* Faulty: lk->cpu is left set.                                            *)
ReleaseKeepsCpu(c, l) ==
  /\ At(c, "code") /\ l \in Held(c)
  /\ run' = [run EXCEPT ![c] = [at |-> "unlock", lk |-> l, held |-> @.held \ {l}]]
  /\ UNCHANGED <<locked, cpu, ncli, intena, IF_on, cur, frames, ctx>>

(* The code calls release(l): lk->cpu is cleared before lk->locked.        *)
Release(c, l) ==
  /\ At(c, "code") /\ l \in Held(c)
  /\ IF holding(c, l)
     THEN /\ cpu' = [cpu EXCEPT ![l] = None]
          /\ run' = [run EXCEPT ![c] = [at |-> "unlock", lk |-> l, held |-> @.held \ {l}]]
     ELSE Goto(c, "panic") /\ UNCHANGED cpu
  /\ UNCHANGED <<locked, ncli, intena, IF_on, cur, frames, ctx>>

Unlock(c) ==
  /\ At(c, "unlock")
  /\ locked' = [locked EXCEPT ![run[c].lk] = FALSE]
  /\ Goto(c, "pop")
  /\ UNCHANGED <<cpu, ncli, intena, IF_on, cur, frames, ctx>>

popcli(c) ==
  /\ At(c, "pop")
  /\ IF IF_on[c] \/ ncli[c] = 0
     THEN Goto(c, "panic") /\ UNCHANGED <<ncli, IF_on>>
     ELSE /\ ncli' = [ncli EXCEPT ![c] = @ - 1]
          /\ IF_on' = [IF_on EXCEPT ![c] = ncli[c] = 1 /\ intena[c]]
          /\ Goto(c, "code")
  /\ UNCHANGED <<locked, cpu, intena, cur, frames, ctx>>
-----------------------------------------------------------------------------
(* Interrupts and switches.                                                *)

(* An interrupt gate turns interrupts off; the handler holds no lock.      *)
Interrupt(c) ==
  /\ IF_on[c] /\ ~At(c, "panic")
  /\ IF_on' = [IF_on EXCEPT ![c] = FALSE]
  /\ frames' = [frames EXCEPT ![c] = <<[kind |-> "irq", place |-> run[c]]>> \o @]
  /\ run' = [run EXCEPT ![c] = Code]
  /\ UNCHANGED <<locked, cpu, ncli, intena, cur, ctx>>

(* trapret: iret pops the flags, in which interrupts are on.               *)
Iret(c) ==
  /\ At(c, "code") /\ Held(c) = {} /\ frames[c] # <<>>
  /\ IF_on' = [IF_on EXCEPT ![c] = TRUE]
  /\ run' = [run EXCEPT ![c] = Head(frames[c]).place]
  /\ frames' = [frames EXCEPT ![c] = Tail(@)]
  /\ UNCHANGED <<locked, cpu, ncli, intena, cur, ctx>>

(* The top of the loop of scheduler().                                     *)
Sti(c) ==
  /\ InScheduler(c) /\ At(c, "code") /\ Held(c) = {}
  /\ ~IF_on[c] /\ IF_on' = [IF_on EXCEPT ![c] = TRUE]
  /\ UNCHANGED <<locked, cpu, ncli, intena, cur, run, frames, ctx>>

(* sched() with the panics it makes of a wrong state, and the swtch() to   *)
(* the scheduler.  A process that exits leaves its slot to a new one.      *)
sched(c, exits) ==
  /\ At(c, "code") /\ cur[c] # None /\ Held(c) = {ptable}
  /\ IF ~holding(c, ptable) \/ ncli[c] # 1 \/ IF_on[c]
     THEN Goto(c, "panic") /\ UNCHANGED <<ctx, cur, frames>>
     ELSE /\ ctx' = [ctx EXCEPT ![cur[c]] =
                       IF exits THEN NewCtx
                       ELSE [intena |-> intena[c], frames |-> frames[c]]]
          /\ cur' = [cur EXCEPT ![c] = None]
          /\ frames' = [frames EXCEPT ![c] = <<>>]
          /\ UNCHANGED run
  /\ UNCHANGED <<locked, cpu, ncli, intena, IF_on>>

(* Faulty: intena belongs to the CPU.                                      *)
SwitchKeepsIntena(c, p) ==
  /\ InScheduler(c) /\ At(c, "code") /\ Held(c) = {ptable}
  /\ ctx[p] # None
  /\ cur' = [cur EXCEPT ![c] = p]
  /\ frames' = [frames EXCEPT ![c] = ctx[p].frames]
  /\ ctx' = [ctx EXCEPT ![p] = None]
  /\ UNCHANGED <<locked, cpu, ncli, intena, IF_on, run>>

(* scheduler() switches to a process, which returns from its own swtch()   *)
(* in sched() and restores intena, or starts in forkret().                 *)
Switch(c, p) ==
  /\ InScheduler(c) /\ At(c, "code") /\ Held(c) = {ptable}
  /\ ctx[p] # None
  /\ cur' = [cur EXCEPT ![c] = p]
  /\ intena' = IF ctx[p].intena = None THEN intena
               ELSE [intena EXCEPT ![c] = ctx[p].intena]
  /\ frames' = [frames EXCEPT ![c] = ctx[p].frames]
  /\ ctx' = [ctx EXCEPT ![p] = None]
  /\ UNCHANGED <<locked, cpu, ncli, IF_on, run>>

Next ==
  \E c \in Cpu :
    \/ \E l \in Lock : Acquire(c, l) \/ Release(c, l)
    \/ AcquireTest(c) \/ Xchg(c) \/ Mark(c) \/ Unlock(c) \/ popcli(c)
    \/ Interrupt(c) \/ Iret(c) \/ Sti(c)
    \/ \E exits \in BOOLEAN : sched(c, exits)
    \/ \E p \in Proc : Switch(c, p)

Spec == Init /\ [][Next]_vars
-----------------------------------------------------------------------------
(* Properties.                                                             *)

Places(c) == {run[c]} \cup {frames[c][i].place : i \in DOMAIN frames[c]}

(* The code on CPU c is between the xchg() of acquire(l) and the store     *)
(* that ends release(l).                                                   *)
Inside(c, l) ==
  \E place \in Places(c) :
    l \in place.held \/ (place.lk = l /\ place.at \in {"mark", "unlock"})

(* A lock protects what it should: no two CPUs are inside the same lock.   *)
MutualExclusion ==
  \A c, d \in Cpu, l \in Lock : Inside(c, l) /\ Inside(d, l) => c = d

(* holding(), which reads lk->locked and lk->cpu without a lock while      *)
(* other CPUs change them, is right for the CPU that asks: true exactly    *)
(* for the locks it has acquired and not begun to release.                 *)
HoldingExact ==
  \A c \in Cpu, l \in Lock : holding(c, l) <=> \E place \in Places(c) : l \in place.held

(* None of the panics of acquire(), release(), popcli() and sched() is     *)
(* reachable: no handler takes a lock that the code it interrupted has.    *)
NoPanic == \A c \in Cpu : ~At(c, "panic")

(* acquire(), release(): a lock excludes, and holding(), which reads it    *)
(* without the lock, is right wherever it is asked.                        *)
LocksExact == MutualExclusion /\ HoldingExact /\ NoPanic

(* acquire() "loops (spins) until the lock is acquired": no two CPUs spin  *)
(* for locks that they have from each other.  The order in which sleep()   *)
(* and wakeup() take ptable.lock after cons.lock, and cprintf() cons.lock  *)
(* after ptable.lock, decides it.                                          *)
NoStandstill ==
  \A c, d \in Cpu :
    ~(c # d /\ At(c, "spin") /\ At(d, "spin") /\ Inside(d, run[c].lk) /\ Inside(c, run[d].lk))

(* The interrupt state belongs to the kernel thread, whatever ran on the   *)
(* CPU while it was switched out: a handler stays uninterrupted, also when *)
(* it yields, and code of a process that held no lock when interrupts were *)
(* on has them on again when it has released its locks.                    *)
InterruptsRestored ==
  \A c \in Cpu :
    /\ frames[c] # <<>> /\ Head(frames[c]).kind = "irq" => ~IF_on[c]
    /\ cur[c] # None /\ frames[c] = <<>> /\ ncli[c] = 0 => IF_on[c]
=============================================================================
