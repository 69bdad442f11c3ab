------------------------------ MODULE MCMachine ------------------------------
(***************************************************************************)
(* What the kernel makes of the machine: the address spaces over the page  *)
(* allocator, the boot that fills the allocator while it starts the CPUs,  *)
(* and the clock.  The variable part says which of them a behaviour is     *)
(* about.                                                                  *)
(***************************************************************************)
EXTENDS Vm

CONSTANTS ncpu, bsp, Early, BootPages, UserPages,     \* of Boot
          Core, cpu0, UINT, Sleeps                    \* of Clock

ASSUME BootConstants ==
  /\ ncpu \in Nat \ {0} /\ bsp \in 0 .. ncpu - 1
  /\ Early \in ncpu - 1 .. BootPages /\ UserPages \in 1 .. BootPages - Early

ASSUME ClockConstants ==
  /\ initproc \in Proc /\ cpu0 \in Core
  /\ UINT \in Nat /\ Sleeps \subseteq 0 .. UINT - 2

VARIABLES part,
          pc, after, mem, stack, started, slot, c,
          bootfree, next, use_lock, holder, vstart, ready, held,
          ticks, handler, pstate, killed, cur, start_time, end_time, run_time, n, ticks0, falling, waited

Booting == INSTANCE Boot WITH NPAGE <- BootPages, freelist <- bootfree
Time == INSTANCE Clock WITH Cpu <- Core, state <- pstate

bootVars == <<pc, after, mem, stack, started, slot, c, bootfree, next, use_lock, holder,
              vstart, ready, held>>
clockVars == <<ticks, handler, pstate, killed, cur, start_time, end_time, run_time, n, ticks0, falling, waited>>

(* A growth that leaves a page half used, one of two pages, a shrinking by *)
(* half a page, and one that takes everything from a process of two pages  *)
(* and wraps around for a smaller one.                                     *)
SomeGrow == {1, 4, -1, -4}

MachineInit == part \in {"vm", "boot", "clock"} /\ Init /\ Booting!Init /\ Time!Init

VmPart == part = "vm" /\ Next /\ UNCHANGED <<part, bootVars, clockVars>>
BootPart(A) == part = "boot" /\ A /\ UNCHANGED <<part, vars, clockVars>>
ClockPart(A) == part = "clock" /\ A /\ UNCHANGED <<part, vars, bootVars>>

MachineNext == VmPart \/ BootPart(Booting!Next) \/ ClockPart(Time!Next)

(* Every CPU goes on at boot.  Later the timer ticks, and a process that   *)
(* can run does, as the policies have it, and goes on when it runs.        *)
MachineSpec ==
  /\ MachineInit /\ [][MachineNext]_<<part, vars, bootVars, clockVars>>
  /\ WF_bootVars(BootPart(Booting!BootCpu))
  /\ \A x \in 0 .. ncpu - 1 :
       WF_bootVars(BootPart(Booting!Allocator(x) \/ Booting!mpenter(x) \/ Booting!mpmain(x)))
  /\ WF_clockVars(ClockPart(Time!Timer))
  /\ \A p \in Proc : /\ WF_clockVars(ClockPart(\E x \in Core : Time!yield(x, p) \/ Time!sleep(x, p)))
                     /\ SF_clockVars(ClockPart(\E x \in Core : Time!schedule(x, p)))
                     /\ SF_clockVars(ClockPart(\E x \in Core : Time!SleepAgain(x, p)))
-----------------------------------------------------------------------------
(* startothers(), kinit2(), userinit(): every CPU that was started has a   *)
(* stack of its own; and stacks, pages of processes and free pages stay    *)
(* apart, although the boot CPU uses the allocator without a lock while    *)
(* the others run.                                                         *)
PagesApart == Booting!PagesApart

(* startothers(), mpmain(): every CPU comes to its scheduler.              *)
AllStart == part = "boot" => Booting!AllStart

(* waitx(), sys_sleep(): the times of an exited process are right to one   *)
(* tick, and a process whose sleep is over is woken by that tick.          *)
ClockSound == Time!ClockSound

(* sys_sleep() returns, also when ticks wraps around or the process is     *)
(* killed meanwhile.                                                       *)
SleepEnds == Time!SleepEnds

(* waitx(): a process does not wait less than no time.                     *)
NeverNegative == Time!NeverNegative
=============================================================================
