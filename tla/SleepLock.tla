------------------------------ MODULE SleepLock ------------------------------
(***************************************************************************)
(* A sleep-lock (sleeplock.c) over sleep() and wakeup() (proc.c), with the *)
(* two spin-locks they nest: lk->lk, the condition lock, and ptable.lock.  *)
(*                                                                        *)
(* Every acquire() and release() of a spin-lock is a step of its own, so  *)
(* the model shows what the other modules take for granted when they      *)
(* treat "test, then sleep(chan, lk)" as one atomic action: no wakeup     *)
(* falls between the test of the condition and the sleep.                 *)
(***************************************************************************)
CONSTANT Proc

VARIABLES lk,       \* {p} if p holds the spin-lock lk->lk, or {}
          ptlock,   \* likewise for ptable.lock
          locked,   \* lk->locked
          owner,    \* {p} if lk->pid is the pid of p, or {} if it is 0
          pc

vars == <<lk, ptlock, locked, owner, pc>>

(* acquiresleep(): "acquire" lk->lk, "test" lk->locked; sleep(): "enter"   *)
(* (acquire ptable.lock), "drop" (release lk->lk, state = SLEEPING,        *)
(* sched()), "asleep", "ready" (RUNNABLE), "leave" (back from sched() with *)
(* ptable.lock); then "hold".  releasesleep(): "release" (acquire lk->lk), *)
(* "clear"; wakeup(): "wakeup" (acquire ptable.lock), "wake", "unlock".    *)
Location == {"out", "acquire", "test", "enter", "drop", "asleep", "ready", "leave",
             "hold", "release", "clear", "wakeup", "wake", "unlock"}

Holder == {{}} \cup {{p} : p \in Proc}

TypeOK ==
  /\ lk \in Holder /\ ptlock \in Holder
  /\ locked \in BOOLEAN /\ owner \in Holder
  /\ locked <=> owner # {}
  /\ pc \in [Proc -> Location]

(* initsleeplock().                                                        *)
Init ==
  /\ lk = {} /\ ptlock = {}
  /\ locked = FALSE /\ owner = {}
  /\ pc = [p \in Proc |-> "out"]

Move(p, from, to) == pc[p] = from /\ pc' = [pc EXCEPT ![p] = to]
-----------------------------------------------------------------------------
Start(p) == Move(p, "out", "acquire") /\ UNCHANGED <<lk, ptlock, locked, owner>>

Acquire(p) ==
  /\ Move(p, "acquire", "test")
  /\ lk = {} /\ lk' = {p}
  /\ UNCHANGED <<ptlock, locked, owner>>

(* The lock is free: take it and release lk->lk.                           *)
Take(p) ==
  /\ Move(p, "test", "hold")
  /\ ~locked
  /\ locked' = TRUE /\ owner' = {p}
  /\ lk' = {}
  /\ UNCHANGED ptlock

(* Faulty: lk->lk is given up before sleep() has ptable.lock.              *)
BusyDrops(p) ==
  /\ Move(p, "test", "enter")
  /\ locked /\ lk' = {}
  /\ UNCHANGED <<ptlock, locked, owner>>

Busy(p) ==
  /\ Move(p, "test", "enter")
  /\ locked
  /\ UNCHANGED <<lk, ptlock, locked, owner>>

(* sleep(): ptable.lock is acquired while lk->lk is held.                  *)
Enter(p) ==
  /\ Move(p, "enter", "drop")
  /\ ptlock = {} /\ ptlock' = {p}
  /\ UNCHANGED <<lk, locked, owner>>

(* The process sleeps and the scheduler releases ptable.lock.              *)
Drop(p) ==
  /\ Move(p, "drop", "asleep")
  /\ lk' = {} /\ ptlock' = {}
  /\ UNCHANGED <<locked, owner>>

(* The scheduler switches to the process, which gets ptable.lock with it.  *)
Resume(p) ==
  /\ Move(p, "ready", "leave")
  /\ ptlock = {} /\ ptlock' = {p}
  /\ UNCHANGED <<lk, locked, owner>>

(* sleep() releases ptable.lock and acquires lk->lk again.                 *)
Leave(p) ==
  /\ Move(p, "leave", "acquire")
  /\ ptlock' = {}
  /\ UNCHANGED <<lk, locked, owner>>

StartRelease(p) == Move(p, "hold", "release") /\ UNCHANGED <<lk, ptlock, locked, owner>>

AcquireForRelease(p) ==
  /\ Move(p, "release", "clear")
  /\ lk = {} /\ lk' = {p}
  /\ UNCHANGED <<ptlock, locked, owner>>

Clear(p) ==
  /\ Move(p, "clear", "wakeup")
  /\ locked' = FALSE /\ owner' = {}
  /\ UNCHANGED <<lk, ptlock>>

LockTable(p) ==
  /\ Move(p, "wakeup", "wake")
  /\ ptlock = {} /\ ptlock' = {p}
  /\ UNCHANGED <<lk, locked, owner>>

(* wakeup1() and the release of ptable.lock.                               *)
Wake(p) ==
  /\ pc[p] = "wake"
  /\ pc' = [q \in Proc |-> IF q = p THEN "unlock"
                           ELSE IF pc[q] = "asleep" THEN "ready" ELSE pc[q]]
  /\ ptlock' = {}
  /\ UNCHANGED <<lk, locked, owner>>

Unlock(p) ==
  /\ Move(p, "unlock", "out")
  /\ lk' = {}
  /\ UNCHANGED <<ptlock, locked, owner>>

(* kill() wakes a sleeper whose condition has not come true.               *)
Kill(p) ==
  /\ ptlock = {}
  /\ Move(p, "asleep", "ready")
  /\ UNCHANGED <<lk, ptlock, locked, owner>>

Step(p) ==
  \/ Acquire(p) \/ Take(p) \/ Busy(p) \/ Enter(p) \/ Drop(p) \/ Resume(p) \/ Leave(p)
  \/ StartRelease(p) \/ AcquireForRelease(p) \/ Clear(p) \/ LockTable(p) \/ Wake(p)
  \/ Unlock(p)

Next == \E p \in Proc : Start(p) \/ Step(p) \/ Kill(p)

Spec == Init /\ [][Next]_vars
-----------------------------------------------------------------------------
(* Properties.                                                             *)

Owns(p) == pc[p] \in {"hold", "release", "clear"}

(* At most one process is between acquiresleep() and releasesleep(), and   *)
(* lk->pid names it, so that holdingsleep() is true for it alone.          *)
Exclusive ==
  /\ \A p, q \in Proc : Owns(p) /\ Owns(q) => p = q
  /\ \A p \in Proc : Owns(p) <=> locked /\ owner = {p}
  /\ locked => \E p \in Proc : Owns(p)

(* No wakeup is lost: while a process sleeps the lock is taken, or the     *)
(* process that released it is about to call wakeup1().                    *)
NoLostWakeup ==
  (\E p \in Proc : pc[p] = "asleep") =>
    locked \/ \E q \in Proc : pc[q] \in {"wakeup", "wake"}

(* acquiresleep(), releasesleep(): both.                                   *)
SleepLockSound == Exclusive /\ NoLostWakeup
=============================================================================
