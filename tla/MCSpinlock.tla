----------------------------- MODULE MCSpinlock -----------------------------
(***************************************************************************)
(* The locks, for TLC: spin-locks (ptable.lock and cons.lock) on two CPUs  *)
(* with two processes, and a sleep-lock with the two spin-locks below it.  *)
(* The variable part says which of them a behaviour is about.  CPUs and    *)
(* processes only occur as values, so they may be permuted.                *)
(***************************************************************************)
EXTENDS Spinlock, TLC

CONSTANT Waiter    \* processes that want the sleep-lock

VARIABLES part, lk, ptlock, taken, owner, pc

sleepVars == <<lk, ptlock, taken, owner, pc>>
lockVars == <<part, vars, sleepVars>>

SL == INSTANCE SleepLock WITH Proc <- Waiter, locked <- taken

LocksInit == part \in {"spinlock", "sleeplock"} /\ Init /\ SL!Init

SpinPart == part = "spinlock" /\ Next /\ UNCHANGED <<part, sleepVars>>
SleepPart == part = "sleeplock" /\ SL!Next /\ UNCHANGED <<part, vars>>

LocksSpec == LocksInit /\ [][SpinPart \/ SleepPart]_lockVars

Symmetry == Permutations(Cpu) \cup Permutations(Proc) \cup Permutations(Waiter)

(* acquiresleep(), releasesleep(): a sleep-lock has one holder, whom       *)
(* lk->pid names, and no process sleeps for it when nobody will wake it.   *)
SleepLockSound == SL!SleepLockSound
=============================================================================
