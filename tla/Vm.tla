---------------------------------- MODULE Vm ---------------------------------
(***************************************************************************)
(* Physical memory (kalloc.c) and the address spaces that fork(), exec(),  *)
(* sbrk() and wait() build and free (vm.c, exec.c, proc.c).                *)
(*                                                                         *)
(* An address space belongs to one process at a time and only kmem is      *)
(* shared.  So every kalloc() is a step, since another process may take    *)
(* the last page before it, while the kfree() calls of a deallocuvm() or   *)
(* freevm() are made in one.  Sizes count bytes in a machine whose words   *)
(* go up to UintMod.                                                       *)
(***************************************************************************)
EXTENDS Integers, FiniteSets, FiniteSetsExt

CONSTANTS Proc, initproc, None,
          NPAGE,        \* physical pages 1 .. NPAGE
          PGSIZE,       \* bytes of a page
          NPTENTRIES,   \* pages a page table page maps
          KERNBASE,     \* end of user memory
          UintMod,      \* uint arithmetic is modulo UintMod
          Grow,         \* arguments of sbrk(): bound
          Program       \* sizes of the programs exec() loads: bound

Page == 1 .. NPAGE

ASSUME VmConstants ==
  /\ {NPAGE, PGSIZE, NPTENTRIES, KERNBASE, UintMod} \subseteq Nat \ {0}
  /\ KERNBASE % (PGSIZE * NPTENTRIES) = 0 /\ KERNBASE < UintMod
  /\ initproc \in Proc /\ None \notin Proc \cup Page
  /\ Grow \subseteq Int /\ Program \subseteq 1 .. KERNBASE - 1

VARIABLES freelist,   \* how often a page is on kmem.freelist
          state,      \* proc->state
          kstack, sz,
          space,      \* proc->pgdir, and the pages it leads to
          new,        \* the address space that fork() or exec() builds
          st          \* where a process is, and its local variables

vars == <<freelist, state, kstack, sz, space, new, st>>

(* User pages, and the page directory entries for them.                    *)
UserPage == 0 .. (KERNBASE \div PGSIZE) - 1

Pde == 0 .. (KERNBASE \div (PGSIZE * NPTENTRIES)) - 1

PDX(a) == a \div NPTENTRIES

(* kern is the one page table page for the mappings of the kernel.         *)
Space == [pgdir : Page \cup {None}, kern : Page \cup {None},
          pgtab : [Pde -> Page \cup {None}], pte : [UserPage -> Page \cup {None}]]

(* A loop of allocuvm() or copyuvm(): the next page a, the old size and    *)
(* the new size, and the page mem that is not mapped yet.                  *)
Local == [pc : {"user", "kstack", "pgdir", "kern", "alloc", "map", "panic"},
          call : {None, "grow", "fork", "exec", "stack"}, child : Proc \cup {None},
          a : Nat, oldsz : Nat, newsz : Nat, mem : Page \cup {None}]

TypeOK ==
  /\ freelist \in [Page -> Nat]
  /\ state \in [Proc -> {"UNUSED", "EMBRYO", "RUNNING", "ZOMBIE"}]
  /\ kstack \in [Proc -> Page \cup {None}]
  /\ sz \in [Proc -> 0 .. KERNBASE - 1]
  /\ space \in [Proc -> Space] /\ new \in [Proc -> Space]
  /\ st \in [Proc -> Local]

NoSpace == [pgdir |-> None, kern |-> None, pgtab |-> [d \in Pde |-> None], pte |-> [a \in UserPage |-> None]]

User == [pc |-> "user", call |-> None, child |-> None, a |-> 0, oldsz |-> 0, newsz |-> 0, mem |-> None]

PGROUNDUP(n) == ((n + PGSIZE - 1) \div PGSIZE) * PGSIZE

(* After userinit(): the first process has one page.                       *)
Init ==
  /\ state = [p \in Proc |-> IF p = initproc THEN "RUNNING" ELSE "UNUSED"]
  /\ freelist = [q \in Page |-> IF q <= 5 THEN 0 ELSE 1]
  /\ kstack = [p \in Proc |-> IF p = initproc THEN 1 ELSE None]
  /\ sz = [p \in Proc |-> IF p = initproc THEN PGSIZE ELSE 0]
  /\ space = [p \in Proc |->
                IF p = initproc
                THEN [NoSpace EXCEPT !.pgdir = 2, !.kern = 3, !.pgtab[0] = 4, !.pte[0] = 5]
                ELSE NoSpace]
  /\ new = [p \in Proc |-> NoSpace]
  /\ st = [p \in Proc |-> User]
-----------------------------------------------------------------------------
(* kalloc(): which page it returns does not matter, so it is the first.    *)
Available == {q \in Page : freelist[q] > 0}

kalloc == Min(Available)

Taken == [freelist EXCEPT ![kalloc] = @ - 1]

(* kfree() for every page that pages lists.                                *)
kfree(pages) == [q \in Page |-> freelist[q] + Cardinality({i \in DOMAIN pages : pages[i] = q})]

(* The pages deallocuvm() frees, by their place in the address space, and  *)
(* the space it leaves; page table pages stay.                             *)
Dealloc(v, oldsz, newsz) ==
  [x \in {<<"pte", a>> : a \in {a \in UserPage : a * PGSIZE >= PGROUNDUP(newsz) /\ a * PGSIZE < oldsz}} |->
     v.pte[x[2]]]

deallocuvm(v, oldsz, newsz) ==
  [v EXCEPT !.pte = [a \in UserPage |-> IF <<"pte", a>> \in DOMAIN Dealloc(v, oldsz, newsz) THEN None ELSE @[a]]]

(* The pages freevm() frees: everything.                                   *)
freevm(v) ==
  [x \in {<<"pte", a>> : a \in UserPage} \cup {<<"pgtab", d>> : d \in Pde}
         \cup {<<"pgdir", 0>>, <<"kern", 0>>} |->
     CASE x[1] = "pte" -> v.pte[x[2]]
       [] x[1] = "pgtab" -> v.pgtab[x[2]]
       [] x[1] = "pgdir" -> v.pgdir
       [] x[1] = "kern" -> v.kern]

At(p, loc) == st[p].pc = loc

(* p can make a system call: it executes code in some mapped page.         *)
Runs(p) == At(p, "user") /\ state[p] = "RUNNING" /\ \E a \in UserPage : space[p].pte[a] # None

Become(p, t) == st' = [st EXCEPT ![p] = t]

(* sbrk() works on the address space of the process, fork() and exec() on  *)
(* the one they build.                                                     *)
Target(p) == IF st[p].call = "grow" THEN space[p] ELSE new[p]

SetTarget(p, v) ==
  IF st[p].call = "grow"
  THEN space' = [space EXCEPT ![p] = v] /\ UNCHANGED new
  ELSE new' = [new EXCEPT ![p] = v] /\ UNCHANGED space
-----------------------------------------------------------------------------
(* growproc() with n > 0: nothing where allocuvm() finds no growth or no   *)
(* room, otherwise its loop.  /init calls no sbrk().                       *)
sbrkMore(p, n) ==
  LET newsz == (sz[p] + n) % UintMod
  IN /\ Runs(p) /\ p # initproc /\ n > 0
     /\ newsz < KERNBASE /\ newsz >= sz[p]
     /\ Become(p, [User EXCEPT !.pc = "alloc", !.call = "grow", !.a = PGROUNDUP(sz[p]) \div PGSIZE,
                               !.oldsz = sz[p], !.newsz = newsz])
     /\ UNCHANGED <<freelist, state, kstack, sz, space, new>>

(* growproc() with n < 0: deallocuvm() returns the new size, and growproc  *)
(* takes a size of 0 for a failure.                                        *)
sbrkLess(p, n) ==
  LET newsz == (sz[p] + n) % UintMod
  IN /\ Runs(p) /\ p # initproc /\ n < 0
     /\ newsz < sz[p]
     /\ freelist' = kfree(Dealloc(space[p], sz[p], newsz))
     /\ space' = [space EXCEPT ![p] = deallocuvm(@, sz[p], newsz)]
     /\ sz' = [sz EXCEPT ![p] = IF newsz = 0 THEN @ ELSE newsz]
     /\ UNCHANGED <<state, kstack, new, st>>

(* fork(): allocproc() finds a slot ...                                    *)
fork(p, c) ==
  /\ Runs(p) /\ state[c] = "UNUSED"
  /\ state' = [state EXCEPT ![c] = "EMBRYO"]
  /\ Become(p, [User EXCEPT !.pc = "kstack", !.call = "fork", !.child = c, !.newsz = sz[p]])
  /\ UNCHANGED <<freelist, kstack, sz, space, new>>

(* ... and a kernel stack for it.                                          *)
allocproc(p) ==
  LET c == st[p].child
  IN /\ At(p, "kstack")
     /\ \/ /\ Available = {}
           /\ state' = [state EXCEPT ![c] = "UNUSED"]
           /\ Become(p, User)
           /\ UNCHANGED <<freelist, kstack>>
        \/ /\ Available # {}
           /\ freelist' = Taken
           /\ kstack' = [kstack EXCEPT ![c] = kalloc]
           /\ Become(p, [st[p] EXCEPT !.pc = "pgdir"])
           /\ UNCHANGED state
     /\ UNCHANGED <<sz, space, new>>

(* exec() of a program of n bytes.                                         *)
exec(p, n) ==
  /\ Runs(p)
  /\ Become(p, [User EXCEPT !.pc = "pgdir", !.call = "exec", !.newsz = n])
  /\ UNCHANGED <<freelist, state, kstack, sz, space, new>>

(* fork() or exec() fails and gives back pages; fork() also the stack and  *)
(* the slot of the child.                                                  *)
Back(p, pages) ==
  LET c == st[p].child
      stack == IF c = None THEN <<>> ELSE [x \in {<<"kstack", 0>>} |-> kstack[c]]
  IN /\ freelist' = kfree([x \in DOMAIN pages \cup DOMAIN stack |->
                              IF x \in DOMAIN pages THEN pages[x] ELSE stack[x]])
     /\ new' = [new EXCEPT ![p] = NoSpace]
     /\ Become(p, User)
     /\ state' = IF c = None THEN state ELSE [state EXCEPT ![c] = "UNUSED"]
     /\ kstack' = IF c = None THEN kstack ELSE [kstack EXCEPT ![c] = None]
     /\ UNCHANGED <<sz, space>>

(* setupkvm(): the page directory and the page tables of the kernel.       *)
setupkvm(p) ==
  LET t == st[p]
  IN /\ t.pc \in {"pgdir", "kern"}
     /\ \/ Available = {} /\ Back(p, freevm(new[p]))
        \/ /\ Available # {}
           /\ freelist' = Taken
           /\ new' = IF t.pc = "pgdir" THEN [new EXCEPT ![p].pgdir = kalloc]
                                       ELSE [new EXCEPT ![p].kern = kalloc]
           /\ Become(p, [t EXCEPT !.pc = IF t.pc = "pgdir" THEN "kern" ELSE "alloc"])
           /\ UNCHANGED <<state, kstack, sz, space>>

(* The page mem, in the list of pages to be freed with those of pages.     *)
WithMem(pages, mem) == [x \in DOMAIN pages \cup {<<"mem", 0>>} |-> IF x = <<"mem", 0>> THEN mem ELSE pages[x]]

(* Faulty: the page that could not be mapped is lost.                      *)
OutOfMemoryLeak(p) ==
  LET t == st[p]
  IN IF t.call = "grow"
     THEN /\ freelist' = kfree(Dealloc(space[p], t.newsz, t.oldsz))
          /\ space' = [space EXCEPT ![p] = deallocuvm(@, t.newsz, t.oldsz)]
          /\ Become(p, User)
          /\ UNCHANGED <<state, kstack, sz, new>>
     ELSE Back(p, freevm(new[p]))

(* allocuvm() or copyuvm() fails: sbrk() is back at the old size, fork()   *)
(* and exec() free the new address space, and mem is freed.                *)
OutOfMemory(p) ==
  LET t == st[p]
  IN IF t.call = "grow"
     THEN /\ freelist' = kfree(WithMem(Dealloc(space[p], t.newsz, t.oldsz), t.mem))
          /\ space' = [space EXCEPT ![p] = deallocuvm(@, t.newsz, t.oldsz)]
          /\ Become(p, User)
          /\ UNCHANGED <<state, kstack, sz, new>>
     ELSE Back(p, WithMem(freevm(new[p]), t.mem))

(* The loops of allocuvm() and copyuvm(): a page ...                       *)
allocuvm(p) ==
  LET t == st[p]
  IN /\ At(p, "alloc") /\ t.a * PGSIZE < t.newsz
     /\ IF t.call = "fork" /\ space[p].pte[t.a] = None    \* "copyuvm: page not present"
        THEN Become(p, [t EXCEPT !.pc = "panic"]) /\ UNCHANGED <<freelist, state, kstack, sz, space, new>>
        ELSE \/ Available = {} /\ OutOfMemory(p)
             \/ /\ Available # {}
                /\ freelist' = Taken
                /\ Become(p, [t EXCEPT !.pc = "map", !.mem = kalloc])
                /\ UNCHANGED <<state, kstack, sz, space, new>>

(* ... a page table page for it, where walkpgdir() finds none ...          *)
walkpgdir(p) ==
  LET t == st[p]
  IN /\ At(p, "map") /\ Target(p).pgtab[PDX(t.a)] = None
     /\ \/ Available = {} /\ OutOfMemory(p)
        \/ /\ Available # {}
           /\ freelist' = Taken
           /\ SetTarget(p, [Target(p) EXCEPT !.pgtab[PDX(t.a)] = kalloc])
           /\ UNCHANGED <<state, kstack, sz, st>>

(* ... and the mapping.                                                    *)
mappages(p) ==
  LET t == st[p]
  IN /\ At(p, "map") /\ Target(p).pgtab[PDX(t.a)] # None
     /\ IF Target(p).pte[t.a] # None                      \* "remap"
        THEN Become(p, [t EXCEPT !.pc = "panic"]) /\ UNCHANGED <<space, new>>
        ELSE /\ SetTarget(p, [Target(p) EXCEPT !.pte[t.a] = t.mem])
             /\ Become(p, [t EXCEPT !.pc = "alloc", !.a = @ + 1, !.mem = None])
     /\ UNCHANGED <<freelist, state, kstack, sz>>
-----------------------------------------------------------------------------
(* The loop is done.                                                       *)
Done(p, call) == At(p, "alloc") /\ st[p].call = call /\ st[p].a * PGSIZE >= st[p].newsz

growproc(p) ==
  /\ Done(p, "grow")
  /\ sz' = [sz EXCEPT ![p] = st[p].newsz]
  /\ Become(p, User)
  /\ UNCHANGED <<freelist, state, kstack, space, new>>

forked(p) ==
  LET c == st[p].child
  IN /\ Done(p, "fork")
     /\ space' = [space EXCEPT ![c] = new[p]]
     /\ new' = [new EXCEPT ![p] = NoSpace]
     /\ sz' = [sz EXCEPT ![c] = sz[p]]
     /\ state' = [state EXCEPT ![c] = "RUNNING"]
     /\ Become(p, User)
     /\ UNCHANGED <<freelist, kstack>>

(* exec() adds two pages above the program for the guard page and the      *)
(* stack, if they fit below KERNBASE ...                                   *)
execStack(p) ==
  LET base == PGROUNDUP(st[p].newsz)
  IN /\ Done(p, "exec")
     /\ IF base + 2 * PGSIZE >= KERNBASE
        THEN Back(p, freevm(new[p]))
        ELSE /\ Become(p, [st[p] EXCEPT !.call = "stack", !.oldsz = base, !.newsz = base + 2 * PGSIZE])
             /\ UNCHANGED <<freelist, state, kstack, sz, space, new>>

(* ... and gives up where the program cannot be read or the arguments do   *)
(* not fit ...                                                             *)
execBad(p) ==
  /\ Done(p, "exec") \/ Done(p, "stack")
  /\ Back(p, freevm(new[p]))

(* ... and commits to the new image, and then frees the old one.           *)
execCommit(p) ==
  /\ Done(p, "stack")
  /\ freelist' = kfree(freevm(space[p]))
  /\ space' = [space EXCEPT ![p] = new[p]]
  /\ new' = [new EXCEPT ![p] = NoSpace]
  /\ sz' = [sz EXCEPT ![p] = st[p].newsz]
  /\ Become(p, User)
  /\ UNCHANGED <<state, kstack>>

(* exit(), also of a process that faults, which keeps the address space.   *)
exit(p) ==
  /\ At(p, "user") /\ state[p] = "RUNNING" /\ p # initproc
  /\ state' = [state EXCEPT ![p] = "ZOMBIE"]
  /\ UNCHANGED <<freelist, kstack, sz, space, new, st>>

(* wait() or waitx() of another process frees what the zombie held.        *)
wait(p, c) ==
  LET pages == freevm(space[c])
  IN /\ Runs(p) /\ state[c] = "ZOMBIE"
     /\ freelist' = kfree([x \in DOMAIN pages \cup {<<"kstack", 0>>} |->
                              IF x = <<"kstack", 0>> THEN kstack[c] ELSE pages[x]])
     /\ kstack' = [kstack EXCEPT ![c] = None]
     /\ space' = [space EXCEPT ![c] = NoSpace]
     /\ sz' = [sz EXCEPT ![c] = 0]         \* not read before fork() sets it
     /\ state' = [state EXCEPT ![c] = "UNUSED"]
     /\ UNCHANGED <<new, st>>

Next ==
  \E p \in Proc :
    \/ \E n \in Grow : sbrkMore(p, n) \/ sbrkLess(p, n)
    \/ \E c \in Proc : fork(p, c) \/ wait(p, c)
    \/ \E n \in Program : exec(p, n)
    \/ allocproc(p) \/ setupkvm(p)
    \/ allocuvm(p) \/ walkpgdir(p) \/ mappages(p)
    \/ growproc(p) \/ forked(p) \/ execStack(p) \/ execBad(p) \/ execCommit(p)
    \/ exit(p)

Spec == Init /\ [][Next]_vars
-----------------------------------------------------------------------------

(* The places that hold page q: kernel stacks, the page a loop has in      *)
(* hand, and page directories, page tables and mappings.                   *)
Places(q) ==
  LET held == [s \in {"new", "space"} |-> IF s = "new" THEN new ELSE space]
  IN {<<"kstack", p>> : p \in {p \in Proc : kstack[p] = q}}
       \cup {<<"mem", p>> : p \in {p \in Proc : st[p].mem = q}}
       \cup {x \in {"new", "space"} \X Proc \X {"pgdir"} : held[x[1]][x[2]].pgdir = q}
       \cup {x \in {"new", "space"} \X Proc \X {"kern"} : held[x[1]][x[2]].kern = q}
       \cup {x \in {"new", "space"} \X Proc \X {"pgtab"} \X Pde : held[x[1]][x[2]].pgtab[x[4]] = q}
       \cup {x \in {"new", "space"} \X Proc \X {"pte"} \X UserPage : held[x[1]][x[2]].pte[x[4]] = q}

(* kalloc(), kfree(): every page is on the free list or in one place, at   *)
(* every moment and on every error path of fork(), exec() and sbrk(), so   *)
(* no page is lost, freed twice, or shared by two address spaces.          *)
PageOnce == \A q \in Page : freelist[q] + Cardinality(Places(q)) = 1

Mapped(p) == {a \in UserPage : space[p].pte[a] # None}

(* allocuvm(), deallocuvm(), copyuvm(): in user mode a process has exactly *)
(* the pages below sz, which is what fork() relies on when it copies them, *)
(* or it has given up all of them and can do nothing but fault; and so     *)
(* "remap" and "copyuvm: page not present" are never reached.              *)
Backed ==
  \A p \in Proc :
    /\ ~At(p, "panic")
    /\ state[p] = "RUNNING" /\ At(p, "user") =>
         Mapped(p) \in {{a \in UserPage : a * PGSIZE < sz[p]}, {}}

(* Memory is sound: no page is lost, shared or mapped beyond the size, and *)
(* no panic is reached, although every kalloc() may fail.                  *)
MemorySound == PageOnce /\ Backed

(* proc.c:190, "Return 0 on success, -1 on failure": growproc() leaves sz  *)
(* and the mapped pages in agreement, whatever it returns.                 *)
SizeIsMapped ==
  \A p \in Proc : state[p] = "RUNNING" /\ At(p, "user") =>
    Mapped(p) = {a \in UserPage : a * PGSIZE < sz[p]}
=============================================================================
