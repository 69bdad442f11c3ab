-------------------------------- MODULE Boot --------------------------------
(***************************************************************************)
(* From startothers() in main() to the first processes (main.c,            *)
(* entryother.S, lapicstartap() of lapic.c), and the page allocator        *)
(* (kalloc.c) as it is used meanwhile: without its lock until kinit2() is  *)
(* done.                                                                   *)
(*                                                                         *)
(* The free list is followed pointer by pointer, and every kalloc() and    *)
(* kfree() is two steps: the list is read, and the list is changed.        *)
(***************************************************************************)
EXTENDS Integers, FiniteSets, FiniteSetsExt

CONSTANTS ncpu,         \* CPUs that mpinit() has found
          bsp,          \* the one that boots
          Early,        \* pages 1 .. Early are free after kinit1() and kvmalloc()
          NPAGE,        \* pages Early + 1 .. NPAGE are for kinit2()
          UserPages,    \* pages userinit() takes
          None

Cpu == 0 .. ncpu - 1
Page == 1 .. NPAGE

VARIABLES pc,           \* where a CPU is
          after,        \* and where it is after kalloc() or kfree()
          mem,          \* the page that these return or have got
          stack,        \* the stack a CPU runs on (the boot CPU has a static one)
          started,      \* cpu->started
          slot,         \* the word code-4 of the entry code: the stack to use
          c,            \* the CPU that startothers() is at
          freelist, next, use_lock,    \* kmem, and run->next of the pages
          holder,       \* who holds kmem.lock
          vstart,       \* the next page of kinit2() or userinit()
          ready,        \* the first process is RUNNABLE
          held          \* the pages that processes have

vars == <<pc, after, mem, stack, started, slot, c, freelist, next, use_lock, holder,
          vstart, ready, held>>
kmemVars == <<freelist, next, use_lock, holder>>

Place == {"halted", "startothers", "slots", "startap", "wait", "entry", "mpmain", "scheduler",
          "kinit2", "userinit", "kalloc", "kalloc1", "kfree", "kfree1", "panic"}

TypeOK ==
  /\ pc \in [Cpu -> Place] /\ after \in [Cpu -> Place \cup {None}]
  /\ mem \in [Cpu -> Page \cup {None}] /\ stack \in [Cpu -> Page \cup {None}]
  /\ started \in [Cpu -> BOOLEAN] /\ slot \in Page \cup {None} /\ c \in 0 .. ncpu
  /\ freelist \in Page \cup {None} /\ next \in [Page -> Page \cup {None}]
  /\ use_lock \in BOOLEAN /\ holder \in Cpu \cup {None}
  /\ vstart \in 0 .. NPAGE + 1 /\ ready \in BOOLEAN /\ held \subseteq Page

(* kinit1(): freerange() makes a list of the early pages; there is no lock *)
(* yet.                                                                    *)
kinit1 ==
  /\ freelist = Early /\ next = [q \in Page |-> IF q \in 2 .. Early THEN q - 1 ELSE None]
  /\ use_lock = FALSE /\ holder = None

(* main() up to startothers().                                             *)
Init ==
  /\ pc = [x \in Cpu |-> IF x = bsp THEN "startothers" ELSE "halted"]
  /\ after = [x \in Cpu |-> None] /\ mem = [x \in Cpu |-> None]
  /\ stack = [x \in Cpu |-> None] /\ started = [x \in Cpu |-> FALSE]
  /\ slot = None /\ c = 0
  /\ kinit1
  /\ vstart = Early + 1 /\ ready = FALSE /\ held = {}

At(x, place) == pc[x] = place

Goto(x, place) == pc' = [pc EXCEPT ![x] = place]
-----------------------------------------------------------------------------
(* kalloc.c                                                                *)

(* The lock is taken if it is used yet.                                    *)
Acquire(x) == IF use_lock THEN holder = None /\ holder' = x ELSE UNCHANGED holder

(* Whether it is used is asked again; release() panics if x has no lock.   *)
Release(x) == /\ pc' = [pc EXCEPT ![x] = IF use_lock /\ holder # x THEN "panic" ELSE after[x]]
              /\ holder' = IF use_lock THEN None ELSE holder

kalloc(x) ==
  /\ At(x, "kalloc")
  /\ Acquire(x)
  /\ mem' = [mem EXCEPT ![x] = freelist]
  /\ Goto(x, "kalloc1")
  /\ UNCHANGED <<after, stack, started, slot, c, freelist, next, use_lock, vstart, ready, held>>

(* A process keeps the page; others find it in mem.                        *)
kalloc1(x) ==
  /\ At(x, "kalloc1")
  /\ freelist' = IF mem[x] = None THEN freelist ELSE next[mem[x]]
  /\ held' = IF after[x] # "slots" /\ mem[x] # None THEN held \cup {mem[x]} ELSE held
  /\ Release(x)
  /\ UNCHANGED <<after, mem, stack, started, slot, c, next, use_lock, vstart, ready>>

kfree(x) ==
  /\ At(x, "kfree")
  /\ Acquire(x)
  /\ next' = [next EXCEPT ![mem[x]] = freelist]
  /\ Goto(x, "kfree1")
  /\ UNCHANGED <<after, mem, stack, started, slot, c, freelist, use_lock, vstart, ready, held>>

kfree1(x) ==
  /\ At(x, "kfree1")
  /\ freelist' = mem[x]
  /\ Release(x)
  /\ UNCHANGED <<after, mem, stack, started, slot, c, next, use_lock, vstart, ready, held>>

(* x calls kalloc(), or kfree(v), and goes on at place.                    *)
CallKalloc(x, place) ==
  /\ Goto(x, "kalloc") /\ after' = [after EXCEPT ![x] = place]
  /\ UNCHANGED <<mem, stack, started, slot, c, kmemVars>>

CallKfree(x, v, place) ==
  /\ Goto(x, "kfree") /\ after' = [after EXCEPT ![x] = place]
  /\ mem' = [mem EXCEPT ![x] = v]
  /\ UNCHANGED <<stack, started, slot, c, kmemVars>>
-----------------------------------------------------------------------------
(* The boot CPU.                                                           *)

(* startothers(): a stack for the next CPU ...                             *)
startothers ==
  /\ At(bsp, "startothers")
  /\ IF c = ncpu THEN Goto(bsp, "kinit2") /\ UNCHANGED <<after, mem, stack, started, slot, c, kmemVars>>
     ELSE IF c = bsp THEN c' = c + 1 /\ UNCHANGED <<pc, after, mem, stack, started, slot, kmemVars>>
     ELSE CallKalloc(bsp, "slots")
  /\ UNCHANGED <<vstart, ready, held>>

(* ... which the entry code finds below itself ...                         *)
WriteSlots ==
  /\ At(bsp, "slots")
  /\ slot' = mem[bsp]
  /\ Goto(bsp, "startap")
  /\ UNCHANGED <<after, mem, stack, started, c, kmemVars, vstart, ready, held>>

(* ... an interrupt that starts it (the second one finds it running) ...   *)
lapicstartap ==
  /\ At(bsp, "startap")
  /\ pc' = [pc EXCEPT ![bsp] = "wait", ![c] = "entry"]
  /\ UNCHANGED <<after, mem, stack, started, slot, c, kmemVars, vstart, ready, held>>

(* Faulty: the next CPU is not waited for.                                 *)
WaitNot ==
  /\ At(bsp, "wait")
  /\ c' = c + 1
  /\ Goto(bsp, "startothers")
  /\ UNCHANGED <<after, mem, stack, started, slot, kmemVars, vstart, ready, held>>

(* ... and a loop until it is up.                                          *)
WaitStarted ==
  /\ At(bsp, "wait") /\ started[c]
  /\ c' = c + 1
  /\ Goto(bsp, "startothers")
  /\ UNCHANGED <<after, mem, stack, started, slot, kmemVars, vstart, ready, held>>

(* kinit2() frees the other pages, and then the allocator uses its lock.   *)
kinit2 ==
  /\ At(bsp, "kinit2")
  /\ IF vstart <= NPAGE
     THEN CallKfree(bsp, vstart, "kinit2") /\ vstart' = vstart + 1
     ELSE /\ use_lock' = TRUE
          /\ Goto(bsp, "userinit") /\ vstart' = 0
          /\ UNCHANGED <<after, mem, stack, started, slot, c, freelist, next, holder>>
  /\ UNCHANGED <<ready, held>>

(* userinit(): the pages of the first process, and then it can run.        *)
userinit ==
  /\ At(bsp, "userinit")
  /\ IF vstart < UserPages
     THEN CallKalloc(bsp, "userinit") /\ vstart' = vstart + 1 /\ UNCHANGED ready
     ELSE /\ ready' = TRUE
          /\ Goto(bsp, "mpmain")
          /\ UNCHANGED <<after, mem, stack, started, slot, c, kmemVars, vstart>>
  /\ UNCHANGED held
-----------------------------------------------------------------------------
(* entryother.S: the CPU takes the stack that is in the slot when it gets  *)
(* there.                                                                  *)
entryother(x) == At(x, "entry") /\ stack' = [stack EXCEPT ![x] = slot]

mpenter(x) ==
  /\ entryother(x)
  /\ Goto(x, "mpmain")
  /\ UNCHANGED <<after, mem, started, slot, c, kmemVars, vstart, ready, held>>

(* Faulty: startothers() is not told.                                      *)
mpmainQuiet(x) ==
  /\ At(x, "mpmain")
  /\ Goto(x, "scheduler")
  /\ UNCHANGED <<after, mem, stack, started, slot, c, kmemVars, vstart, ready, held>>

mpmain(x) ==
  /\ At(x, "mpmain")
  /\ started' = [started EXCEPT ![x] = TRUE]
  /\ Goto(x, "scheduler")
  /\ UNCHANGED <<after, mem, stack, slot, c, kmemVars, vstart, ready, held>>

(* scheduler() loops while there is no process.  Once there are some, a    *)
(* CPU runs one that takes or frees a page.                                *)
scheduler(x) ==
  /\ At(x, "scheduler")
  /\ \/ ~ready /\ UNCHANGED <<pc, after, mem, stack, started, slot, c, kmemVars, held>>
     \/ ready /\ CallKalloc(x, "scheduler") /\ UNCHANGED held
     \/ ready /\ \E v \in held : CallKfree(x, v, "scheduler") /\ held' = held \ {v}
  /\ UNCHANGED <<vstart, ready>>

Allocator(x) == kalloc(x) \/ kalloc1(x) \/ kfree(x) \/ kfree1(x)

BootCpu == startothers \/ WriteSlots \/ lapicstartap \/ WaitStarted \/ kinit2 \/ userinit

Next == BootCpu \/ \E x \in Cpu : Allocator(x) \/ mpenter(x) \/ mpmain(x) \/ scheduler(x)

Spec == Init /\ [][Next]_vars
-----------------------------------------------------------------------------
(* Properties.                                                             *)

(* The pages on the free list.                                             *)
Free ==
  LET page[k \in 0 .. NPAGE] ==
        IF k = 0 THEN freelist ELSE IF page[k - 1] = None THEN None ELSE next[page[k - 1]]
  IN {page[k] : k \in 0 .. NPAGE} \ {None}

Stacks == {stack[x] : x \in Cpu} \ {None}

(* Every CPU that was started has a stack of its own; and stacks, pages of *)
(* processes and free pages stay apart, although the boot CPU fills the    *)
(* allocator without a lock while the others run.                          *)
PagesApart ==
  /\ \A x, y \in Cpu \ {bsp} : x # y /\ stack[x] # None => stack[x] # stack[y]
  /\ \A x \in Cpu \ {bsp} : pc[x] \notin {"halted", "entry"} => stack[x] # None
  /\ Free \cap held = {} /\ Free \cap Stacks = {} /\ held \cap Stacks = {}
  /\ \A x \in Cpu : pc[x] # "panic"

(* Every CPU comes to its scheduler: mpmain() says so just before.         *)
AllStart == <>(\A x \in Cpu : started[x])
=============================================================================
