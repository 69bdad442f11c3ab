-------------------------------- MODULE Clock --------------------------------
(***************************************************************************)
(* The clock: ticks, the timer interrupt of CPU 0 with modify_times() and  *)
(* wakeup(&ticks) (trap.c, proc.c), sys_sleep() (sysproc.c), and the times *)
(* that allocproc(), exit() and modify_times() keep for waitx() (proc.c).  *)
(*                                                                         *)
(* The handler holds tickslock from beginning to end, but ptable.lock only *)
(* in modify_times() and in wakeup(): in between the other CPUs fork, exit *)
(* and switch.  initproc stands for the processes that fork and wait; how  *)
(* it waits is in ProcTable, and nobody asks for its own times.            *)
(***************************************************************************)
EXTENDS Integers

CONSTANTS Proc, initproc, Cpu, cpu0, None,
          UINT,     \* ticks wraps here
          Sleeps    \* the arguments of sleep()

VARIABLES ticks,
          handler,     \* where the timer interrupt of CPU 0 is; "none" if there is none
          state, killed,
          cur,         \* the process of each CPU
          start_time, end_time, run_time,
          n, ticks0,   \* of sys_sleep(); n is None outside it
          falling,     \* the process between the test of sys_sleep() and its sleep(), or None
          waited       \* ticks that found the process not running (history)

times == <<start_time, end_time, run_time, waited>>
sleeping == <<n, ticks0, falling>>
vars == <<ticks, handler, state, killed, cur, times, sleeping>>

State == {"UNUSED", "EMBRYO", "SLEEPING", "RUNNABLE", "RUNNING", "ZOMBIE"}
Uint == 0 .. UINT - 1

TypeOK ==
  /\ ticks \in Uint /\ handler \in {"none", "times", "wakeup"}
  /\ state \in [Proc -> State] /\ killed \in [Proc -> BOOLEAN]
  /\ cur \in [Cpu -> Proc \cup {None}]
  /\ start_time \in [Proc -> Uint] /\ end_time \in [Proc -> Uint]
  /\ run_time \in [Proc -> Uint] /\ waited \in [Proc -> Uint]
  /\ n \in [Proc -> Sleeps \cup {None}] /\ ticks0 \in [Proc -> Uint]
  /\ falling \in Proc \cup {None}

Init ==
  /\ ticks = 0 /\ handler = "none"
  /\ state = [p \in Proc |-> IF p = initproc THEN "RUNNABLE" ELSE "UNUSED"]
  /\ killed = [p \in Proc |-> FALSE]
  /\ cur = [c \in Cpu |-> None]
  /\ start_time = [p \in Proc |-> 0] /\ end_time = start_time /\ run_time = start_time
  /\ waited = start_time
  /\ n = [p \in Proc |-> None] /\ ticks0 = start_time /\ falling = None
-----------------------------------------------------------------------------
(* A CPU goes on unless it is in the timer interrupt.                      *)
Goes(c) == c = cpu0 => handler = "none"

On(c, p) == cur[c] = p /\ falling # p /\ Goes(c)

Become(p, s) == state' = [state EXCEPT ![p] = s]

(* sched() from p.                                                         *)
Leave(c, p, s) == Become(p, s) /\ cur' = [cur EXCEPT ![c] = None]

schedule(c, p) ==
  /\ cur[c] = None /\ Goes(c) /\ state[p] = "RUNNABLE"
  /\ Become(p, "RUNNING")
  /\ cur' = [cur EXCEPT ![c] = p]
  /\ UNCHANGED <<ticks, handler, killed, times, sleeping>>

yield(c, p) ==
  /\ On(c, p)
  /\ Leave(c, p, "RUNNABLE")
  /\ UNCHANGED <<ticks, handler, killed, times, sleeping>>

(* Faulty: the time of the process that had the slot before is kept.       *)
allocprocKeeps(c, p) ==
  /\ On(c, initproc) /\ n[initproc] = None /\ state[p] = "UNUSED"
  /\ Become(p, "EMBRYO")
  /\ start_time' = [start_time EXCEPT ![p] = ticks]
  /\ end_time' = [end_time EXCEPT ![p] = 0]
  /\ UNCHANGED <<ticks, handler, killed, cur, run_time, waited, sleeping>>

(* fork(): allocproc() reads ticks without tickslock ...                   *)
allocproc(c, p) ==
  /\ On(c, initproc) /\ n[initproc] = None /\ state[p] = "UNUSED"
  /\ Become(p, "EMBRYO")
  /\ start_time' = [start_time EXCEPT ![p] = ticks]
  /\ end_time' = [end_time EXCEPT ![p] = 0]
  /\ run_time' = [run_time EXCEPT ![p] = 0]
  /\ UNCHANGED <<ticks, handler, killed, cur, waited, sleeping>>

(* ... and the process can run when the rest of fork() is done.            *)
fork(c, p) ==
  /\ On(c, initproc) /\ state[p] = "EMBRYO"
  /\ Become(p, "RUNNABLE")
  /\ UNCHANGED <<ticks, handler, killed, cur, times, sleeping>>

exit(c, p) ==
  /\ On(c, p) /\ p # initproc /\ n[p] = None
  /\ end_time' = [end_time EXCEPT ![p] = ticks]
  /\ Leave(c, p, "ZOMBIE")
  /\ UNCHANGED <<ticks, handler, killed, start_time, run_time, waited, sleeping>>

(* The results of waitx() for p.                                           *)
rtime(p) == run_time[p]
wtime(p) == (end_time[p] - start_time[p] - run_time[p]) % UINT

(* waitx() of initproc reaps a child.                                      *)
waitx(c, p) ==
  /\ On(c, initproc) /\ n[initproc] = None /\ state[p] = "ZOMBIE"
  /\ Become(p, "UNUSED")
  /\ killed' = [killed EXCEPT ![p] = FALSE]
  /\ waited' = [waited EXCEPT ![p] = 0]
  /\ UNCHANGED <<ticks, handler, cur, start_time, end_time, run_time, sleeping>>

(* kill() of a process other than the first.                               *)
kill(p) ==
  /\ p # initproc /\ state[p] # "UNUSED" /\ ~killed[p]
  /\ killed' = [killed EXCEPT ![p] = TRUE]
  /\ state' = [state EXCEPT ![p] = IF @ = "SLEEPING" THEN "RUNNABLE" ELSE @]
  /\ UNCHANGED <<ticks, handler, cur, times, sleeping>>
-----------------------------------------------------------------------------
(* sys_sleep().  The loop is entered, and entered again, with tickslock,   *)
(* which the handler and other sleepers then do not have; kill() does not  *)
(* ask for it.                                                             *)

Elapsed(t) == (ticks - t) % UINT

Short(t, k) == Elapsed(t) < k

tickslockFree == handler = "none" /\ falling = None

(* One test of the loop, for k ticks after t ...                           *)
Loop(c, p, t, k) ==
  /\ On(c, p) /\ tickslockFree
  /\ IF Short(t, k) /\ ~killed[p]
     THEN /\ n' = [n EXCEPT ![p] = k] /\ ticks0' = [ticks0 EXCEPT ![p] = t] /\ falling' = p
     ELSE /\ n' = [n EXCEPT ![p] = None] /\ ticks0' = [ticks0 EXCEPT ![p] = 0] /\ UNCHANGED falling
  /\ UNCHANGED <<ticks, handler, state, killed, cur, times>>

(* ... and the sleep(), which releases tickslock under ptable.lock.        *)
sleep(c, p) ==
  /\ cur[c] = p /\ falling = p
  /\ Leave(c, p, "SLEEPING")
  /\ falling' = None
  /\ UNCHANGED <<ticks, handler, killed, times, n, ticks0>>

sys_sleep(c, p, k) == n[p] = None /\ Loop(c, p, ticks, k)

(* Faulty: every turn of the loop reads ticks0 anew.                       *)
SleepAgainRestarts(c, p) == n[p] # None /\ Loop(c, p, ticks, n[p])

SleepAgain(c, p) == n[p] # None /\ Loop(c, p, ticks0[p], n[p])
-----------------------------------------------------------------------------
(* The timer interrupt of CPU 0.  A process that was woken is assumed to   *)
(* run before the clock has gone all the way round.                        *)
Tick ==
  /\ tickslockFree
  /\ \A p \in Proc : n[p] # None => Elapsed(ticks0[p]) # UINT - 1
  /\ ticks' = (ticks + 1) % UINT
  /\ handler' = "times"
  /\ UNCHANGED <<state, killed, cur, times, sleeping>>

modify_times ==
  LET Child == Proc \ {initproc}
      OneMore(field, Counted) ==
        [p \in Proc |-> IF p \in Child /\ state[p] \in Counted THEN (field[p] + 1) % UINT ELSE field[p]]
  IN /\ handler = "times"
     /\ run_time' = OneMore(run_time, {"RUNNING"})
     /\ waited' = OneMore(waited, {"EMBRYO", "SLEEPING", "RUNNABLE"})
     /\ handler' = "wakeup"
     /\ UNCHANGED <<ticks, state, killed, cur, start_time, end_time, sleeping>>

wakeup ==
  /\ handler = "wakeup"
  /\ state' = [p \in Proc |-> IF state[p] = "SLEEPING" THEN "RUNNABLE" ELSE state[p]]
  /\ handler' = "none"
  /\ UNCHANGED <<ticks, killed, cur, times, sleeping>>

Timer == Tick \/ modify_times \/ wakeup

OnCpu(c, p) ==
  \/ schedule(c, p) \/ yield(c, p) \/ allocproc(c, p) \/ fork(c, p) \/ exit(c, p) \/ waitx(c, p)
  \/ sleep(c, p) \/ SleepAgain(c, p) \/ \E k \in Sleeps : sys_sleep(c, p, k)

Next == Timer \/ (\E p \in Proc : kill(p)) \/ \E c \in Cpu, p \in Proc : OnCpu(c, p)

Spec == Init /\ [][Next]_vars
-----------------------------------------------------------------------------
(* Properties.                                                             *)

Off(a, b) == (a - b) % UINT

(* waitx(): of an exited process the time it reports as waited differs by  *)
(* at most one tick from the ticks that found the process waiting, because *)
(* fork() and exit() may come between the tick and its accounting.         *)
TimesRight ==
  \A p \in Proc : state[p] = "ZOMBIE" => Off(wtime(p), waited[p]) \in {0, 1, UINT - 1}

(* sys_sleep(): a process whose time is over sleeps only until the handler *)
(* that counted the last tick gets to its wakeup().                        *)
OnTime ==
  \A p \in Proc : state[p] = "SLEEPING" /\ handler = "none" => Elapsed(ticks0[p]) < n[p]

ClockSound == TimesRight /\ OnTime

(* sys_sleep() returns, also when ticks wraps around or the process is     *)
(* killed meanwhile.                                                       *)
SleepEnds == \A p \in Proc : n[p] # None ~> n[p] = None

(* waitx(): a process does not wait less than no time.                     *)
NeverNegative ==
  \A p \in Proc : state[p] = "ZOMBIE" /\ waited[p] = 0 => wtime(p) # UINT - 1
=============================================================================
