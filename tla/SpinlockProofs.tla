--------------------------- MODULE SpinlockProofs ---------------------------
(***************************************************************************)
(* Proofs about the locks (MCSpinlock composes them): module Spinlock, for *)
(* any number of CPUs, processes and locks, and module SleepLock, for any  *)
(* set of processes that want the lock.                                    *)
(***************************************************************************)
EXTENDS MCSpinlock, FiniteSetTheorems, TLAPS

(* What an interrupt handler returns to: code that held no lock.           *)
Idle(place) == place.at = "code" /\ place.held = {}

IdleFrames(fs) == fs \in Seq(Frame) /\ \A i \in 1 .. Len(fs) : Idle(fs[i].place)

(* What a switched-out process comes back with: a new one in the frame for *)
(* its return to user mode, any other with its own intena.                 *)
ContextOK(context) ==
  /\ IdleFrames(context.frames)
  /\ context.intena \in BOOLEAN \/ context = NewCtx

(* The types the proofs need.                                              *)
Types ==
  /\ locked \in [Lock -> BOOLEAN] /\ cpu \in [Lock -> Holder]
  /\ ncli \in [Cpu -> Nat] /\ intena \in [Cpu -> BOOLEAN] /\ IF_on \in [Cpu -> BOOLEAN]
  /\ cur \in [Cpu -> Proc \cup {None}]
  /\ run \in [Cpu -> Place]
  /\ DOMAIN frames = Cpu /\ DOMAIN ctx = Proc
  /\ \A c \in Cpu : IdleFrames(frames[c])
  /\ \A p \in Proc : ctx[p] # None => ContextOK(ctx[p])

Between == {"test", "spin", "mark", "unlock", "pop"}

(* ncli counts the locks that the code on the CPU has, with the one it is  *)
(* about to have or to have no more; interrupts are on only when it has    *)
(* none.                                                                   *)
CountInv ==
  \A c \in Cpu :
    /\ ~At(c, "panic")
    /\ IsFiniteSet(Held(c))
    /\ ncli[c] = Cardinality(Held(c)) + (IF run[c].at \in Between THEN 1 ELSE 0)
    /\ IF_on[c] => Idle(run[c])

(* The code on CPU c has the lock l, or just took it, or is just giving it *)
(* up.                                                                     *)
Has(c, l) == l \in Held(c) \/ (run[c].lk = l /\ run[c].at \in {"mark", "unlock"})

(* lk->locked and lk->cpu say who has the lock.                            *)
LockInv ==
  /\ \A c \in Cpu, l \in Lock : cpu[l] = c <=> l \in Held(c)
  /\ \A c \in Cpu, l \in Lock : Has(c, l) => locked[l]
  /\ \A c, d \in Cpu, l \in Lock : Has(c, l) /\ Has(d, l) => c = d
  /\ \A c \in Cpu : run[c].at \in Between \ {"pop"} => run[c].lk \notin Held(c)

IInv == Types /\ CountInv /\ LockInv

(* A new process has one frame, and it held no lock.                       *)
LEMMA NewFrames ==
  /\ Code \in Place /\ Idle(Code)
  /\ NewCtx.frames = <<[kind |-> "fork", place |-> Code]>>
  /\ IdleFrames(NewCtx.frames)
<1>1. Code \in Place /\ Idle(Code)
  BY SpinlockConstants DEF Code, Place, Location, Idle
<1>2. NewCtx.frames = <<[kind |-> "fork", place |-> Code]>>
  BY DEF NewCtx
<1>3. [kind |-> "fork", place |-> Code] \in Frame
  BY <1>1 DEF Frame
<1> QED
  BY <1>1, <1>2, <1>3 DEF IdleFrames

(* Every CPU starts without a lock.                                        *)
LEMMA InitInv == Init => IInv
<1> SUFFICES ASSUME Init PROVE IInv
  OBVIOUS
<1>2. IdleFrames(<<>>)
  BY DEF IdleFrames
<1>5. Types
  BY <1>2, NewFrames DEF Init, Types, Holder, ContextOK
<1>6. CountInv
  <2>1. \A c \in Cpu : run[c] = Code /\ ncli[c] = 0 /\ IF_on[c] = FALSE
    BY DEF Init
  <2>2. Code.at = "code" /\ Code.held = {}
    BY DEF Code
  <2>3. IsFiniteSet({}) /\ Cardinality({}) = 0
    BY FS_EmptySet
  <2> QED
    BY <2>1, <2>2, <2>3 DEF CountInv, At, Held, Between
<1>7. LockInv
  BY SpinlockConstants DEF Init, LockInv, Has, Held, Code, Between
<1> QED
  BY <1>5, <1>6, <1>7 DEF IInv

(* What the steps of a CPU keep of the frames: those that are there, with  *)
(* one more for an interrupt or one less after it.                         *)
LEMMA FramesStep ==
  ASSUME NEW fs, IdleFrames(fs), NEW place \in Place, Idle(place)
  PROVE  /\ IdleFrames(<<[kind |-> "irq", place |-> place]>> \o fs)
         /\ fs # <<>> => IdleFrames(Tail(fs)) /\ Head(fs).place \in Place /\ Idle(Head(fs).place)
<1> DEFINE frame == [kind |-> "irq", place |-> place]
           new == <<frame>> \o fs
<1>1. frame \in Frame /\ Idle(frame.place)
  BY DEF Frame
<1>2. fs \in Seq(Frame) /\ \A i \in 1 .. Len(fs) : Idle(fs[i].place)
  BY DEF IdleFrames
<1>3. new \in Seq(Frame) /\ Len(new) = Len(fs) + 1
  BY <1>1, <1>2
<1>4. ASSUME NEW i \in 1 .. Len(new) PROVE Idle(new[i].place)
  <2>1. new[i] = IF i = 1 THEN frame ELSE fs[i - 1]
    BY <1>1, <1>2, <1>3, <1>4
  <2> QED
    BY <1>1, <1>2, <1>3, <2>1
<1>5. IdleFrames(new)
  BY <1>3, <1>4 DEF IdleFrames
<1>6. ASSUME fs # <<>>
      PROVE  IdleFrames(Tail(fs)) /\ Head(fs).place \in Place /\ Idle(Head(fs).place)
  <2>1. Tail(fs) \in Seq(Frame) /\ Len(Tail(fs)) = Len(fs) - 1
    BY <1>2, <1>6
  <2>2. \A i \in 1 .. Len(Tail(fs)) : Tail(fs)[i] = fs[i + 1] /\ i + 1 \in 1 .. Len(fs)
    BY <1>2, <1>6, <2>1
  <2>3. Head(fs) = fs[1] /\ 1 \in 1 .. Len(fs) /\ fs[1] \in Frame
    BY <1>2, <1>6
  <2> QED
    BY <1>2, <2>1, <2>2, <2>3 DEF IdleFrames, Frame
<1> QED
  BY <1>5, <1>6

(* A jump changes the location only.                                       *)
LEMMA GotoStep ==
  ASSUME run \in [Cpu -> Place], NEW c \in Cpu, NEW location \in Location, Goto(c, location)
  PROVE  /\ run' \in [Cpu -> Place]
         /\ run'[c].at = location /\ run'[c].lk = run[c].lk /\ run'[c].held = run[c].held
         /\ \A d \in Cpu \ {c} : run'[d] = run[d]
BY DEF Goto, Place

(* Mark(c) adds the lock to those that the code has.                       *)
LEMMA MarkStep ==
  ASSUME run \in [Cpu -> Place], NEW c \in Cpu, Mark(c)
  PROVE  /\ run' \in [Cpu -> Place]
         /\ run'[c].at = "code" /\ run'[c].held = run[c].held \cup {run[c].lk}
         /\ \A d \in Cpu \ {c} : run'[d] = run[d]
BY Zenon DEF Mark, Place, Location

(* The types are kept.                                                     *)
LEMMA TypesStep ==
  ASSUME IInv, [Next]_vars
  PROVE  Types'
<1> USE DEF IInv, Types
<1>1. CASE UNCHANGED vars
  BY <1>1 DEF vars
<1>2. ASSUME NEW c \in Cpu, NEW l \in Lock, Acquire(c, l) \/ Release(c, l)
      PROVE  Types'
  <2>1. run' \in [Cpu -> Place]
    BY <1>2, SMTT(30) DEF Acquire, Release, Goto, Place, Location, Held
  <2>2. cpu' \in [Lock -> Holder]
    BY <1>2 DEF Acquire, Release, Holder
  <2>3. ncli' \in [Cpu -> Nat]
    BY <1>2 DEF Acquire, Release, pushcli
  <2>4. intena' \in [Cpu -> BOOLEAN] /\ IF_on' \in [Cpu -> BOOLEAN]
    BY <1>2, Zenon DEF Acquire, Release, pushcli
  <2>5. UNCHANGED <<locked, cur, frames, ctx>>
    BY <1>2 DEF Acquire, Release
  <2> QED
    BY <2>1, <2>2, <2>3, <2>4, <2>5
<1>3. ASSUME NEW c \in Cpu, AcquireTest(c) \/ Xchg(c) \/ Mark(c) \/ Unlock(c)
      PROVE  Types'
  <2>1. run' \in [Cpu -> Place]
    BY <1>3, GotoStep, MarkStep DEF AcquireTest, Xchg, Unlock, Location
  <2>2. cpu' \in [Lock -> Holder]
    BY <1>3 DEF AcquireTest, Xchg, Mark, Unlock, Holder, Place
  <2>3. locked' \in [Lock -> BOOLEAN]
    BY <1>3, Zenon DEF AcquireTest, Xchg, Mark, Unlock, Place
  <2>4. UNCHANGED <<ncli, intena, IF_on, cur, frames, ctx>>
    BY <1>3 DEF AcquireTest, Xchg, Mark, Unlock
  <2> QED
    BY <2>1, <2>2, <2>3, <2>4
<1>4. ASSUME NEW c \in Cpu, popcli(c)
      PROVE  Types'
  <2>1. run' \in [Cpu -> Place]
    BY <1>4, GotoStep DEF popcli, Location
  <2>2. ncli' \in [Cpu -> Nat]
    BY <1>4 DEF popcli
  <2>3. IF_on' \in [Cpu -> BOOLEAN]
    BY <1>4 DEF popcli
  <2> QED
    BY <1>4, <2>1, <2>2, <2>3 DEF popcli
<1>5. ASSUME NEW c \in Cpu, Interrupt(c)
      PROVE  Types'
  <2>1. run[c] \in Place /\ Idle(run[c])
    BY <1>5 DEF Interrupt, CountInv
  <2>2. IdleFrames(<<[kind |-> "irq", place |-> run[c]]>> \o frames[c])
    BY <2>1, FramesStep, Zenon
  <2> QED
    BY <1>5, <2>2, NewFrames DEF Interrupt
<1>6. ASSUME NEW c \in Cpu, Iret(c)
      PROVE  Types'
  <2>2. IdleFrames(Tail(frames[c])) /\ Head(frames[c]).place \in Place
    BY <1>6, NewFrames, FramesStep, Zenon DEF Iret
  <2> QED
    BY <1>6, <2>2 DEF Iret
<1>7. ASSUME NEW c \in Cpu, Sti(c)
      PROVE  Types'
  BY <1>7 DEF Sti
<1>8. ASSUME NEW c \in Cpu, NEW exits \in BOOLEAN, sched(c, exits)
      PROVE  Types'
  <2>1. run' \in [Cpu -> Place]
    BY <1>8, GotoStep DEF sched, Location
  <2>2. cur' \in [Cpu -> Proc \cup {None}]
    BY <1>8, Zenon DEF sched
  <2>3. IdleFrames(<<>>)
    BY DEF IdleFrames
  <2>4. DOMAIN frames' = Cpu /\ \A d \in Cpu : IdleFrames(frames'[d])
    BY <1>8, <2>3, Zenon DEF sched
  <2>5. ContextOK(NewCtx) /\ ContextOK([intena |-> intena[c], frames |-> frames[c]])
    BY NewFrames DEF ContextOK
  <2>6. DOMAIN ctx' = Proc /\ \A p \in Proc : ctx'[p] # None => ContextOK(ctx'[p])
    BY <1>8, <2>5, Zenon DEF sched
  <2> QED
    BY <1>8, <2>1, <2>2, <2>4, <2>6 DEF sched
<1>9. ASSUME NEW c \in Cpu, NEW p \in Proc, Switch(c, p)
      PROVE  Types'
  <2>1. ctx[p].intena = None \/ ctx[p].intena \in BOOLEAN
    BY <1>9 DEF Switch, ContextOK, NewCtx
  <2>2. intena' \in [Cpu -> BOOLEAN]
    BY <1>9, <2>1 DEF Switch
  <2>3. IdleFrames(ctx[p].frames)
    BY <1>9 DEF Switch, ContextOK
  <2> QED
    BY <1>9, <2>2, <2>3 DEF Switch
<1> QED
  BY <1>1, <1>2, <1>3, <1>4, <1>5, <1>6, <1>7, <1>8, <1>9 DEF Next

(* Every step keeps the count, and with it no panic is reached.            *)
LEMMA CountStep ==
  ASSUME IInv, [Next]_vars
  PROVE  CountInv'
<1> USE DEF IInv, Types
<1> DEFINE Count(place, n, on) ==
             /\ place.at # "panic" /\ IsFiniteSet(place.held)
             /\ n = Cardinality(place.held) + (IF place.at \in Between THEN 1 ELSE 0)
             /\ on => Idle(place)
<1>0. /\ \A d \in Cpu : Count(run[d], ncli[d], IF_on[d])
      /\ (\A d \in Cpu : Count(run'[d], ncli'[d], IF_on'[d])) => CountInv'
  BY DEF CountInv, At, Held
<1>1. CASE UNCHANGED vars
  BY <1>0, <1>1 DEF vars
<1>2. ASSUME NEW c \in Cpu,
             Count(run'[c], ncli'[c], IF_on'[c]),
             \A d \in Cpu \ {c} : run'[d] = run[d] /\ ncli'[d] = ncli[d] /\ IF_on'[d] = IF_on[d]
      PROVE  CountInv'
  BY <1>0, <1>2
<1>2a. ASSUME NEW d \in Cpu
       PROVE  /\ IsFiniteSet(run[d].held) /\ Cardinality(run[d].held) \in Nat
              /\ run[d].at \in Between => ncli[d] = Cardinality(run[d].held) + 1
              /\ run[d].at \notin Between => ncli[d] = Cardinality(run[d].held)
              /\ IF_on[d] => Idle(run[d])
  <2>1. Count(run[d], ncli[d], IF_on[d])
    BY <1>0
  <2>2. IsFiniteSet(run[d].held) /\ Cardinality(run[d].held) \in Nat
    BY <2>1, FS_CardinalityType
  <2> QED
    BY <2>1, <2>2
<1> HIDE DEF Count
<1>3. ASSUME NEW c \in Cpu, NEW l \in Lock, Acquire(c, l)
      PROVE  CountInv'
  <2>1. /\ run[c].at = "code" /\ run'[c].at = "test" /\ run'[c].held = run[c].held
        /\ ncli'[c] = ncli[c] + 1 /\ IF_on'[c] = FALSE
    BY <1>3 DEF Acquire, pushcli, At, Place
  <2>2. Count(run'[c], ncli'[c], IF_on'[c])
    BY <1>2a, <2>1 DEF Count, Between
  <2> QED
    BY <1>2, <1>3, <2>2, Zenon DEF Acquire, pushcli
<1>4. ASSUME NEW c \in Cpu, NEW l \in Lock, Release(c, l)
      PROVE  CountInv'
  <2>1. run[c].at = "code" /\ l \in run[c].held /\ holding(c, l)
    BY <1>4 DEF Release, At, Held, LockInv, Has, holding
  <2>2. run'[c].at = "unlock" /\ run'[c].held = run[c].held \ {l}
    BY <1>4, <2>1 DEF Release, Place
  <2>3. /\ IsFiniteSet(run'[c].held)
        /\ Cardinality(run'[c].held) = Cardinality(run[c].held) - 1
    <3>1. \A S, x : IsFiniteSet(S) /\ x \in S =>
                      IsFiniteSet(S \ {x}) /\ Cardinality(S \ {x}) = Cardinality(S) - 1
      BY FS_RemoveElement, Zenon
    <3> QED
      BY <1>2a, <2>1, <2>2, <3>1, SMTT(30)
  <2>4. ncli'[c] = ncli[c] /\ IF_on'[c] = FALSE
    BY <1>0, <1>4, <2>1 DEF Release, Count, Idle
  <2>5. Count(run'[c], ncli'[c], IF_on'[c])
    BY <1>2a, <2>1, <2>2, <2>3, <2>4 DEF Count, Between
  <2> QED
    BY <1>2, <1>4, <2>1, <2>5 DEF Release
<1>5. ASSUME NEW c \in Cpu, AcquireTest(c)
      PROVE  CountInv'
  <2>1. run[c].at = "test" /\ ~holding(c, run[c].lk)
    BY <1>5 DEF AcquireTest, At, LockInv, Between, holding, Held, Place
  <2>2. Goto(c, "spin")
    BY <1>5, <2>1 DEF AcquireTest
  <2>3. Count(run'[c], ncli'[c], IF_on'[c])
    BY <1>0, <1>5, <2>1, <2>2, GotoStep DEF Count, Between, AcquireTest, Location, Idle
  <2> QED
    BY <1>2, <1>5, <2>2, <2>3, GotoStep DEF AcquireTest, Location
<1>6. ASSUME NEW c \in Cpu, Xchg(c) \/ Unlock(c)
      PROVE  CountInv'
  <2>1. PICK location \in {"mark", "pop"} : Goto(c, location)
    BY <1>6 DEF Xchg, Unlock
  <2>2. run[c].at \in Between
    BY <1>6 DEF Xchg, Unlock, At, Between
  <2>3. Count(run'[c], ncli'[c], IF_on'[c])
    BY <1>0, <1>6, <2>1, <2>2, GotoStep DEF Count, Between, Xchg, Unlock, Location, Idle
  <2> QED
    BY <1>2, <1>6, <2>1, <2>3, GotoStep DEF Xchg, Unlock, Location
<1>7. ASSUME NEW c \in Cpu, Mark(c)
      PROVE  CountInv'
  <2>1. run[c].at = "mark" /\ run[c].lk \notin run[c].held
    BY <1>7 DEF Mark, At, LockInv, Between, Held
  <2>2. run'[c].at = "code" /\ run'[c].held = run[c].held \cup {run[c].lk}
    BY <1>7, MarkStep
  <2>3. /\ IsFiniteSet(run'[c].held)
        /\ Cardinality(run'[c].held) = Cardinality(run[c].held) + 1
    <3>1. \A S, x : IsFiniteSet(S) /\ x \notin S =>
                      IsFiniteSet(S \cup {x}) /\ Cardinality(S \cup {x}) = Cardinality(S) + 1
      BY FS_AddElement
    <3>2. /\ IsFiniteSet(run[c].held \cup {run[c].lk})
          /\ Cardinality(run[c].held \cup {run[c].lk}) = Cardinality(run[c].held) + 1
      BY <1>2a, <2>1, <3>1, Zenon
    <3> QED
      BY <2>2, <3>2
  <2>4. ncli'[c] = ncli[c] /\ IF_on'[c] = FALSE
    BY <1>0, <1>7, <2>1 DEF Mark, Count, Idle
  <2>5. Count(run'[c], ncli'[c], IF_on'[c])
    BY <1>2a, <2>1, <2>2, <2>3, <2>4 DEF Count, Between
  <2> QED
    BY <1>2, <1>7, <2>5, MarkStep, Zenon DEF Mark
<1>8. ASSUME NEW c \in Cpu, popcli(c)
      PROVE  CountInv'
  <2>1. run[c].at = "pop" /\ ~IF_on[c] /\ ncli[c] = Cardinality(run[c].held) + 1
        /\ Cardinality(run[c].held) \in Nat /\ IsFiniteSet(run[c].held)
    BY <1>8, <1>2a DEF popcli, At, Between, Idle
  <2>2. /\ Goto(c, "code") /\ ncli'[c] = ncli[c] - 1
        /\ IF_on'[c] = (ncli[c] = 1 /\ intena[c])
    BY <1>8, <2>1, SMTT(30) DEF popcli
  <2>3. IF_on'[c] => run[c].held = {}
    BY <2>1, <2>2, FS_EmptySet, SMTT(30)
  <2>4. Count(run'[c], ncli'[c], IF_on'[c])
    BY <2>1, <2>2, <2>3, GotoStep DEF Count, Between, Location, Idle
  <2> QED
    BY <1>2, <1>8, <2>1, <2>2, <2>4, GotoStep DEF popcli, Location
<1>9. ASSUME NEW c \in Cpu, Interrupt(c)
      PROVE  CountInv'
  <2>1. run[c].at = "code" /\ run[c].held = {}
    BY <1>0, <1>9 DEF Interrupt, Count, Idle
  <2>2. run'[c] = Code /\ Code.at = "code" /\ Code.held = {} /\ ncli'[c] = ncli[c] /\ IF_on'[c] = FALSE
    BY <1>9 DEF Interrupt, Code
  <2>3. Count(run'[c], ncli'[c], IF_on'[c])
    BY <1>0, <2>1, <2>2, Zenon DEF Count, Between
  <2> QED
    BY <1>2, <1>9, <2>3, Zenon DEF Interrupt
<1>10. ASSUME NEW c \in Cpu, Iret(c)
      PROVE  CountInv'
  <2>1. run[c].at = "code" /\ run[c].held = {}
    BY <1>10 DEF Iret, At, Held
  <2>2. Idle(Head(frames[c]).place)
    BY <1>10, NewFrames, FramesStep, Zenon DEF Iret
  <2>3. run'[c] = Head(frames[c]).place /\ ncli'[c] = ncli[c]
    BY <1>10 DEF Iret
  <2>4. Count(run'[c], ncli'[c], IF_on'[c])
    BY <1>0, <2>1, <2>2, <2>3, Zenon DEF Count, Between, Idle
  <2> QED
    BY <1>2, <1>10, <2>4, Zenon DEF Iret
<1>11. ASSUME NEW c \in Cpu, Sti(c)
      PROVE  CountInv'
  <2>1. Idle(run[c])
    BY <1>11 DEF Sti, At, Held, Idle
  <2>2. Count(run'[c], ncli'[c], IF_on'[c])
    BY <1>0, <1>11, <2>1 DEF Count, Sti
  <2> QED
    BY <1>2, <1>11, <2>2, Zenon DEF Sti
<1>12. ASSUME NEW c \in Cpu, NEW exits \in BOOLEAN, sched(c, exits)
      PROVE  CountInv'
  <2>1. run[c].at = "code" /\ run[c].held = {ptable}
    BY <1>12 DEF sched, At, Held
  <2>2. Cardinality({ptable}) = 1
    BY FS_Singleton, Zenon
  <2>3. ncli[c] = 1 /\ ~IF_on[c]
    BY <1>2a, <2>1, <2>2, Zenon DEF Between, Idle
  <2>4. holding(c, ptable)
    BY <2>1, SpinlockConstants, SMTT(30) DEF LockInv, Has, Held, holding
  <2> QED
    BY <1>0, <1>12, <2>3, <2>4, SMTT(30) DEF sched
<1>13. ASSUME NEW c \in Cpu, NEW p \in Proc, Switch(c, p)
      PROVE  CountInv'
  BY <1>0, <1>13, SMTT(30) DEF Switch
<1> QED
  BY <1>1, <1>3, <1>4, <1>5, <1>6, <1>7, <1>8, <1>9, <1>10, <1>11, <1>12, <1>13 DEF Next

(* Every step keeps lk->locked and lk->cpu true to who has the lock.       *)
LEMMA LockStep ==
  ASSUME IInv, [Next]_vars
  PROVE  LockInv'
<1> USE DEF IInv, Types, Has, Held
<1>1. CASE UNCHANGED vars
  BY <1>1 DEF vars, LockInv
<1>2. ASSUME NEW c \in Cpu, NEW l \in Lock, Acquire(c, l)
      PROVE  LockInv'
  <2>1. /\ run[c].at = "code" /\ run'[c].at = "test" /\ run'[c].held = run[c].held /\ run'[c].lk = l
        /\ l \notin run[c].held
        /\ \A d \in Cpu \ {c} : run'[d] = run[d]
    BY <1>2, SpinlockConstants DEF Acquire, At, Place, MayAcquire
  <2> QED
    BY <1>2, <2>1 DEF Acquire, LockInv, Between
<1>3. ASSUME NEW c \in Cpu, NEW l \in Lock, Release(c, l)
      PROVE  LockInv'
  <2>1. run[c].at = "code" /\ l \in run[c].held /\ holding(c, l)
    BY <1>3 DEF Release, At, LockInv, holding
  <2>2. /\ run'[c].at = "unlock" /\ run'[c].held = run[c].held \ {l} /\ run'[c].lk = l
        /\ \A d \in Cpu \ {c} : run'[d] = run[d]
        /\ cpu' = [cpu EXCEPT ![l] = None] /\ locked' = locked
    BY <1>3, <2>1 DEF Release, Place
  <2>3. \A d \in Cpu, k \in Lock : cpu'[k] = d <=> k \in run'[d].held
    BY <2>1, <2>2, SpinlockConstants DEF LockInv
  <2>4. \A d \in Cpu, k \in Lock : Has(d, k)' => Has(d, k)
    BY <2>1, <2>2, SMTT(30)
  <2> QED
    BY <2>2, <2>3, <2>4 DEF LockInv, Between
<1>4. ASSUME NEW c \in Cpu, AcquireTest(c)
      PROVE  LockInv'
  <2>1. PICK location \in {"spin", "panic"} : Goto(c, location)
    BY <1>4 DEF AcquireTest
  <2>2. \A d \in Cpu : run'[d].held = run[d].held /\ run'[d].lk = run[d].lk
    BY <2>1, GotoStep DEF Location
  <2>3. \A d \in Cpu, k \in Lock : Has(d, k)' <=> Has(d, k)
    BY <1>4, <2>1, GotoStep DEF AcquireTest, At, Location
  <2>4. \A d \in Cpu : run'[d].at \in Between \ {"pop"} => run[d].at \in Between \ {"pop"}
    BY <1>4, <2>1, GotoStep DEF AcquireTest, At, Location, Between
  <2> QED
    BY <1>4, <2>2, <2>3, <2>4, SMTT(30) DEF LockInv, AcquireTest
<1>5. ASSUME NEW c \in Cpu, Xchg(c)
      PROVE  LockInv'
  <2> DEFINE l == run[c].lk
  <2>1. /\ run[c].at = "spin" /\ l \in Lock /\ locked[l] = FALSE
        /\ locked' = [locked EXCEPT ![l] = TRUE] /\ cpu' = cpu
    BY <1>5 DEF Xchg, At, Place
  <2>2. /\ run'[c].at = "mark" /\ run'[c].lk = l /\ run'[c].held = run[c].held
        /\ \A d \in Cpu \ {c} : run'[d] = run[d]
    BY <1>5, GotoStep DEF Xchg, Location
  <2>3. \A d \in Cpu : ~Has(d, l)
    BY <2>1 DEF LockInv
  <2>4. \A d \in Cpu, k \in Lock : Has(d, k)' <=> Has(d, k) \/ (d = c /\ k = l)
    BY <2>1, <2>2
  <2>5. l \notin run[c].held
    BY <2>1 DEF LockInv, Between
  <2> HIDE DEF l
  <2> QED
    BY <2>1, <2>2, <2>3, <2>4, <2>5, SMTT(30) DEF LockInv
<1>6. ASSUME NEW c \in Cpu, Mark(c)
      PROVE  LockInv'
  <2> DEFINE l == run[c].lk
  <2>1. run[c].at = "mark" /\ l \in Lock /\ cpu' = [cpu EXCEPT ![l] = c] /\ locked' = locked
    BY <1>6 DEF Mark, At, Place
  <2>2. /\ run'[c].at = "code" /\ run'[c].held = run[c].held \cup {l}
        /\ \A d \in Cpu \ {c} : run'[d] = run[d]
    BY <1>6, MarkStep
  <2>3. Has(c, l) /\ \A d \in Cpu \ {c} : l \notin run[d].held
    BY <2>1 DEF LockInv
  <2>4. \A d \in Cpu, k \in Lock : Has(d, k)' <=> Has(d, k)
    BY <2>1, <2>2
  <2> HIDE DEF l
  <2>5. \A d \in Cpu, k \in Lock : cpu'[k] = d <=> k \in run'[d].held
    BY <2>1, <2>2, <2>3 DEF LockInv
  <2> QED
    BY <2>1, <2>2, <2>4, <2>5 DEF LockInv, Between
<1>7. ASSUME NEW c \in Cpu, Unlock(c)
      PROVE  LockInv'
  <2> DEFINE l == run[c].lk
  <2>1. /\ run[c].at = "unlock" /\ l \in Lock /\ l \notin run[c].held
        /\ locked' = [locked EXCEPT ![l] = FALSE] /\ cpu' = cpu
    BY <1>7 DEF Unlock, At, Place, LockInv, Between
  <2>2. /\ run'[c].at = "pop" /\ run'[c].held = run[c].held
        /\ \A d \in Cpu \ {c} : run'[d] = run[d]
    BY <1>7, GotoStep DEF Unlock, Location
  <2>3. Has(c, l) /\ \A d \in Cpu \ {c} : ~Has(d, l)
    BY <2>1 DEF LockInv
  <2>4. \A d \in Cpu, k \in Lock : Has(d, k)' => Has(d, k) /\ k # l
    BY <2>1, <2>2, <2>3
  <2> HIDE DEF l
  <2>5. \A d \in Cpu : run'[d].held = run[d].held
    BY <2>2
  <2>6. \A d \in Cpu : run'[d].at \in Between \ {"pop"} => run[d] = run'[d]
    BY <2>2, SMTT(30)
  <2> QED
    BY <2>1, <2>4, <2>5, <2>6, SMTT(30) DEF LockInv
<1>8. ASSUME NEW c \in Cpu, popcli(c)
      PROVE  LockInv'
  <2>1. PICK location \in {"code", "panic"} : Goto(c, location)
    BY <1>8 DEF popcli
  <2>2. \A d \in Cpu : run'[d].held = run[d].held
    BY <2>1, GotoStep DEF Location
  <2>3. \A d \in Cpu, k \in Lock : Has(d, k)' <=> Has(d, k)
    BY <1>8, <2>1, GotoStep DEF popcli, At, Location
  <2>4. \A d \in Cpu : run'[d].at \in Between \ {"pop"} => run[d] = run'[d]
    BY <2>1, GotoStep DEF Location, Between
  <2> QED
    BY <1>8, <2>2, <2>3, <2>4 DEF LockInv, popcli
<1>9. ASSUME NEW c \in Cpu, Interrupt(c) \/ Iret(c)
      PROVE  LockInv'
  <2>1. run[c].at = "code" /\ run[c].held = {}
    BY <1>9 DEF Interrupt, Iret, At, CountInv, Idle
  <2>2. Code.at = "code" /\ Code.held = {}
    BY DEF Code
  <2>3. run'[c].at = "code" /\ run'[c].held = {}
    <3>1. CASE Interrupt(c)
      BY <2>2, <3>1 DEF Interrupt
    <3>2. CASE Iret(c)
      <4>1. Idle(Head(frames[c]).place)
        BY <3>2, NewFrames, FramesStep, Zenon DEF Iret
      <4> QED
        BY <3>2, <4>1, SMTT(30) DEF Iret, Idle
    <3> QED
      BY <1>9, <3>1, <3>2
  <2>4. \A d \in Cpu \ {c} : run'[d] = run[d]
    BY <1>9 DEF Interrupt, Iret
  <2>5. locked' = locked /\ cpu' = cpu
    BY <1>9 DEF Interrupt, Iret
  <2>6. \A d \in Cpu, k \in Lock : Has(d, k)' <=> Has(d, k)
    BY <2>1, <2>3, <2>4
  <2>7. \A d \in Cpu : run'[d].held = run[d].held
    BY <2>1, <2>3, <2>4, Zenon
  <2>8. \A d \in Cpu : run'[d].at \in Between \ {"pop"} => run[d] = run'[d]
    BY <2>3, <2>4, SMTT(30) DEF Between
  <2> QED
    BY <2>5, <2>6, <2>7, <2>8 DEF LockInv
<1>10. ASSUME NEW c \in Cpu, Sti(c)
      PROVE  LockInv'
  BY <1>10 DEF Sti, LockInv
<1>11. ASSUME NEW c \in Cpu, NEW exits \in BOOLEAN, sched(c, exits)
      PROVE  LockInv'
  <2>1. CASE Goto(c, "panic")
    <3>1. \A d \in Cpu : run'[d].held = run[d].held
      BY <2>1, GotoStep, SMTT(30) DEF Location
    <3>2. \A d \in Cpu, k \in Lock : Has(d, k)' <=> Has(d, k)
      BY <1>11, <2>1, GotoStep DEF sched, At, Location
    <3>3. \A d \in Cpu : run'[d].at \in Between \ {"pop"} => run[d] = run'[d]
      BY <2>1, GotoStep, SMTT(30) DEF Location, Between
    <3> QED
      BY <1>11, <3>1, <3>2, <3>3 DEF sched, LockInv
  <2>2. CASE UNCHANGED run
    BY <1>11, <2>2, SMTT(30) DEF sched, LockInv
  <2> QED
    BY <1>11, <2>1, <2>2, SMTT(30) DEF sched
<1>12. ASSUME NEW c \in Cpu, NEW p \in Proc, Switch(c, p)
      PROVE  LockInv'
  BY <1>12 DEF Switch, LockInv
<1> QED
  BY <1>1, <1>2, <1>3, <1>4, <1>5, <1>6, <1>7, <1>8, <1>9, <1>10, <1>11, <1>12 DEF Next

(* The three parts of LocksExact follow: the code that was interrupted has *)
(* no lock, so a CPU is inside a lock only where it is now.                *)
LEMMA InvExact == IInv => LocksExact
<1> SUFFICES ASSUME IInv PROVE LocksExact
  OBVIOUS
<1> USE DEF IInv, Types, Held
<1>1. ASSUME NEW c \in Cpu, NEW place \in Places(c)
      PROVE  place = run[c] \/ Idle(place)
  <2>1. frames[c] \in Seq(Frame) /\ \A i \in 1 .. Len(frames[c]) : Idle(frames[c][i].place)
    BY DEF IdleFrames
  <2>2. DOMAIN frames[c] = 1 .. Len(frames[c])
    BY <2>1
  <2> QED
    BY <1>1, <2>1, <2>2 DEF Places
<1>2. \A c \in Cpu : run[c] \in Places(c)
  BY DEF Places
<1>3. \A c \in Cpu, l \in Lock : Inside(c, l) => Has(c, l)
  BY <1>1 DEF Inside, Has, Idle
<1>4. MutualExclusion
  BY <1>3 DEF MutualExclusion, LockInv
<1>5. HoldingExact
  BY <1>1, <1>2 DEF HoldingExact, holding, LockInv, Has, Idle
<1>6. NoPanic
  BY DEF NoPanic, CountInv
<1> QED
  BY <1>4, <1>5, <1>6 DEF LocksExact

(* acquire(), release(): locks exclude each other's holders, holding() is  *)
(* exact although it reads without a lock, and no panic is reachable.      *)
THEOREM LocksStayExact == Spec => []LocksExact
<1>1. IInv /\ [Next]_vars => IInv'
  BY TypesStep, CountStep, LockStep DEF IInv
<1> QED
  BY <1>1, InitInv, InvExact, PTL DEF Spec
-----------------------------------------------------------------------------
(* The interrupt state of kernel threads.                                  *)

Handler(fs) == fs # <<>> /\ Head(fs).kind = "irq"

(* Only the last frame is an interrupt's: a handler is not interrupted.    *)
OneIrq(fs) == \A i \in 2 .. Len(fs) : fs[i].kind # "irq"

(* A handler has interrupts off, or saved as off while it has a lock; the  *)
(* code of a process outside handlers has them on, or saved as on.  A      *)
(* switched-out process keeps what was saved.                              *)
ThreadInv ==
  /\ \A c \in Cpu :
       /\ OneIrq(frames[c])
       /\ Handler(frames[c]) => ~IF_on[c] /\ (ncli[c] # 0 => ~intena[c])
       /\ cur[c] # None /\ frames[c] = <<>> => IF ncli[c] = 0 THEN IF_on[c] ELSE intena[c]
  /\ \A p \in Proc : ctx[p] # None =>
       /\ OneIrq(ctx[p].frames)
       /\ Handler(ctx[p].frames) => ctx[p].intena = FALSE
       /\ ctx[p].frames = <<>> => ctx[p].intena = TRUE

(* A new process is not in a handler.                                      *)
LEMMA NewThread == OneIrq(NewCtx.frames) /\ ~Handler(NewCtx.frames) /\ NewCtx.frames # <<>>
BY NewFrames DEF OneIrq, Handler

(* No CPU starts in a process or a handler.                                *)
LEMMA ThreadInit == Init => ThreadInv
<1>1. OneIrq(<<>>) /\ ~Handler(<<>>)
  BY DEF OneIrq, Handler
<1> QED
  BY <1>1, NewThread DEF Init, ThreadInv

(* Frames that come and go.                                                *)
LEMMA IrqFrames ==
  ASSUME NEW fs \in Seq(Frame), OneIrq(fs), NEW place \in Place
  PROVE  /\ ~Handler(fs) => OneIrq(<<[kind |-> "irq", place |-> place]>> \o fs)
         /\ fs # <<>> => OneIrq(Tail(fs)) /\ ~Handler(Tail(fs))
<1> DEFINE frame == [kind |-> "irq", place |-> place]
           new == <<frame>> \o fs
<1>1. frame \in Frame
  BY DEF Frame
<1>2. new \in Seq(Frame) /\ Len(new) = Len(fs) + 1 /\ \A i \in 2 .. Len(new) : new[i] = fs[i - 1]
  BY <1>1
<1>3. ASSUME ~Handler(fs) PROVE OneIrq(new)
  <2>1. \A i \in 1 .. Len(fs) : fs[i].kind # "irq"
    BY <1>3 DEF Handler, OneIrq
  <2> QED
    BY <1>2, <2>1 DEF OneIrq
<1>4. ASSUME fs # <<>> PROVE OneIrq(Tail(fs)) /\ ~Handler(Tail(fs))
  <2>1. Tail(fs) \in Seq(Frame) /\ Len(Tail(fs)) = Len(fs) - 1
    BY <1>4
  <2>2. \A i \in 1 .. Len(Tail(fs)) : Tail(fs)[i] = fs[i + 1] /\ i + 1 \in 2 .. Len(fs)
    BY <1>4, <2>1
  <2>3. \A i \in 1 .. Len(Tail(fs)) : Tail(fs)[i].kind # "irq"
    BY <2>2 DEF OneIrq
  <2>4. Tail(fs) # <<>> => 1 \in 1 .. Len(Tail(fs)) /\ Head(Tail(fs)) = Tail(fs)[1]
    BY <2>1
  <2> QED
    BY <2>3, <2>4, <2>1 DEF OneIrq, Handler
<1> QED
  BY <1>3, <1>4

(* The count says when the code on a CPU has a lock.                       *)
LEMMA CountFacts ==
  ASSUME IInv, NEW c \in Cpu
  PROVE  /\ run[c].at = "code" /\ Held(c) = {} => ncli[c] = 0
         /\ run[c].at = "code" /\ Held(c) = {ptable} => ncli[c] = 1 /\ ~IF_on[c]
         /\ run[c].at = "pop" => ncli[c] # 0 /\ ~IF_on[c]
         /\ IF_on[c] => run[c] \in Place /\ ncli[c] = 0
<1>1. /\ IsFiniteSet(run[c].held) /\ run[c] \in Place
      /\ ncli[c] = Cardinality(run[c].held) + (IF run[c].at \in Between THEN 1 ELSE 0)
      /\ IF_on[c] => Idle(run[c])
  BY DEF IInv, Types, CountInv, Held
<1>2. Cardinality(run[c].held) \in Nat
  BY <1>1, FS_CardinalityType
<1>3. Cardinality({}) = 0 /\ Cardinality({ptable}) = 1
  BY FS_EmptySet, FS_Singleton, SMTT(30)
<1>4. /\ run[c].at \notin Between => ncli[c] = Cardinality(run[c].held)
      /\ run[c].at \in Between => ncli[c] = Cardinality(run[c].held) + 1
  BY <1>1, <1>2
<1>5. ASSUME run[c].at = "code" PROVE ncli[c] = Cardinality(run[c].held)
  BY <1>4, <1>5 DEF Between
<1>6. run[c].at = "code" /\ Held(c) = {} => ncli[c] = 0
  BY <1>3, <1>5 DEF Held
<1>7. run[c].at = "code" /\ Held(c) = {ptable} => ncli[c] = 1 /\ ~IF_on[c]
  BY <1>1, <1>3, <1>5 DEF Held, Idle
<1>8. run[c].at = "pop" => ncli[c] # 0 /\ ~IF_on[c]
  BY <1>1, <1>2, <1>4 DEF Between, Idle
<1> QED
  BY <1>1, <1>6, <1>7, <1>8 DEF Idle, Held

(* An interrupt begins a handler with interrupts off.                      *)
LEMMA ThreadInterrupt ==
  ASSUME IInv, ThreadInv, NEW c \in Cpu, Interrupt(c)
  PROVE  ThreadInv'
<1>0. Types
  BY SMTT(30) DEF IInv
<1>1. IF_on[c] /\ run[c] \in Place /\ ncli[c] = 0 /\ ~Handler(frames[c])
  BY CountFacts, SMTT(30) DEF Interrupt, ThreadInv
<1>2. frames[c] \in Seq(Frame) /\ OneIrq(frames[c])
  BY <1>0 DEF IdleFrames, Types, ThreadInv
<1>3. /\ frames'[c] = <<[kind |-> "irq", place |-> run[c]]>> \o frames[c]
      /\ IF_on'[c] = FALSE
      /\ \A d \in Cpu \ {c} : frames'[d] = frames[d] /\ IF_on'[d] = IF_on[d]
  BY <1>0 DEF Interrupt, Types
<1>4. frames'[c] # <<>> /\ OneIrq(frames'[c])
  BY <1>1, <1>2, <1>3, IrqFrames
<1>5. UNCHANGED <<ncli, intena, cur, ctx>>
  BY DEF Interrupt
<1> QED
  BY <1>1, <1>3, <1>4, <1>5, Zenon DEF ThreadInv

(* A handler's return turns them on again.                                 *)
LEMMA ThreadIret ==
  ASSUME IInv, ThreadInv, NEW c \in Cpu, Iret(c)
  PROVE  ThreadInv'
<1>0. Types
  BY DEF IInv
<1>1. ncli[c] = 0 /\ run[c] \in Place
  BY <1>0, CountFacts, SMTT(30) DEF Iret, At, Types
<1>2. frames[c] \in Seq(Frame) /\ OneIrq(frames[c]) /\ frames[c] # <<>>
  BY <1>0, SMTT(30) DEF IdleFrames, Iret, Types, ThreadInv
<1>3. /\ frames'[c] = Tail(frames[c]) /\ IF_on'[c] = TRUE
      /\ \A d \in Cpu \ {c} : frames'[d] = frames[d] /\ IF_on'[d] = IF_on[d]
  BY <1>0 DEF Iret, Types
<1>4. OneIrq(frames'[c]) /\ ~Handler(frames'[c])
  BY <1>1, <1>2, <1>3, IrqFrames, Zenon
<1>5. UNCHANGED <<ncli, intena, cur, ctx>>
  BY DEF Iret
<1> QED
  BY <1>1, <1>3, <1>4, <1>5, SMTT(30) DEF ThreadInv

(* sched() keeps intena with the thread that it leaves.                    *)
LEMMA ThreadSched ==
  ASSUME IInv, ThreadInv, NEW c \in Cpu, NEW exits \in BOOLEAN, sched(c, exits)
  PROVE  ThreadInv'
<1>0. Types
  BY SMTT(30) DEF IInv
<1>1. cur[c] \in Proc /\ ncli[c] = 1
  BY <1>0, CountFacts, SMTT(30) DEF sched, At, Types
<1>2. CASE UNCHANGED <<ctx, cur, frames>>
  <2>1. UNCHANGED <<ncli, intena, IF_on, cur, frames, ctx>>
    BY <1>2, SMTT(30) DEF sched
  <2> QED
    BY <2>1 DEF ThreadInv
<1>3. ASSUME ~UNCHANGED <<ctx, cur, frames>>
      PROVE  ThreadInv'
  <2>1. /\ ctx' = [ctx EXCEPT ![cur[c]] =
                     IF exits THEN NewCtx ELSE [intena |-> intena[c], frames |-> frames[c]]]
        /\ cur' = [cur EXCEPT ![c] = None] /\ frames' = [frames EXCEPT ![c] = <<>>]
        /\ UNCHANGED <<ncli, intena, IF_on>>
    BY <1>3 DEF sched
  <2>2. OneIrq(<<>>) /\ ~Handler(<<>>)
    BY SMTT(30) DEF OneIrq, Handler
  <2>3. \A d \in Cpu : frames'[d] = (IF d = c THEN <<>> ELSE frames[d])
                         /\ cur'[d] = (IF d = c THEN None ELSE cur[d])
    BY <1>0, <2>1, SMTT(30) DEF Types
  <2>4. /\ OneIrq(ctx'[cur[c]].frames)
        /\ Handler(ctx'[cur[c]].frames) => ctx'[cur[c]].intena = FALSE
        /\ ctx'[cur[c]].frames = <<>> => ctx'[cur[c]].intena = TRUE
    BY <1>0, <1>1, <2>1, NewThread, SMTT(30) DEF sched, Types, ThreadInv
  <2>5. \A p \in Proc \ {cur[c]} : ctx'[p] = ctx[p]
    BY <1>0, <1>1, <2>1 DEF Types
  <2>6. \A d \in Cpu :
          /\ OneIrq(frames'[d])
          /\ Handler(frames'[d]) => ~IF_on'[d] /\ (ncli'[d] # 0 => ~intena'[d])
          /\ cur'[d] # None /\ frames'[d] = <<>> => IF ncli'[d] = 0 THEN IF_on'[d] ELSE intena'[d]
    BY <2>1, <2>2, <2>3, SMTT(30) DEF ThreadInv
  <2> QED
    BY <2>4, <2>5, <2>6, SMTT(30) DEF ThreadInv
<1> QED
  BY <1>2, <1>3

(* swtch() to a process brings its intena back.                            *)
LEMMA ThreadSwitch ==
  ASSUME IInv, ThreadInv, NEW c \in Cpu, NEW p \in Proc, Switch(c, p)
  PROVE  ThreadInv'
<1>0. Types
  BY SMTT(30) DEF IInv
<1>1. ctx[p] # None /\ ncli[c] = 1 /\ ~IF_on[c]
  BY CountFacts DEF Switch, At
<1>2. ctx[p].intena = None => ctx[p] = NewCtx
  BY <1>0, <1>1, SpinlockConstants, SMTT(30) DEF ContextOK, Types
<1>3. /\ frames'[c] = ctx[p].frames
      /\ ctx[p].intena # None => intena'[c] = ctx[p].intena
      /\ \A d \in Cpu \ {c} : frames'[d] = frames[d] /\ intena'[d] = intena[d] /\ cur'[d] = cur[d]
      /\ UNCHANGED <<ncli, IF_on>>
  BY <1>0, SMTT(30) DEF Switch, Types
<1>4. \A q \in Proc : ctx'[q] # None => ctx'[q] = ctx[q]
  BY <1>0 DEF Switch, Types
<1>5. /\ OneIrq(frames'[c])
      /\ Handler(frames'[c]) => intena'[c] = FALSE
      /\ frames'[c] = <<>> => intena'[c] = TRUE
  BY <1>1, <1>2, <1>3, NewThread DEF ThreadInv
<1>6. /\ OneIrq(frames'[c])
      /\ Handler(frames'[c]) => ~IF_on'[c] /\ (ncli'[c] # 0 => ~intena'[c])
      /\ cur'[c] # None /\ frames'[c] = <<>> => IF ncli'[c] = 0 THEN IF_on'[c] ELSE intena'[c]
  BY <1>1, <1>3, <1>5, SMTT(30)
<1>7. \A d \in Cpu \ {c} :
        /\ OneIrq(frames'[d])
        /\ Handler(frames'[d]) => ~IF_on'[d] /\ (ncli'[d] # 0 => ~intena'[d])
        /\ cur'[d] # None /\ frames'[d] = <<>> => IF ncli'[d] = 0 THEN IF_on'[d] ELSE intena'[d]
  BY <1>3, SMTT(30) DEF ThreadInv
<1>8. \A q \in Proc :
        ctx'[q] # None =>
          /\ OneIrq(ctx'[q].frames)
          /\ Handler(ctx'[q].frames) => ctx'[q].intena = FALSE
          /\ ctx'[q].frames = <<>> => ctx'[q].intena = TRUE
  BY <1>4, SMTT(30) DEF ThreadInv
<1>9. \A d \in Cpu :
        /\ OneIrq(frames'[d])
        /\ Handler(frames'[d]) => ~IF_on'[d] /\ (ncli'[d] # 0 => ~intena'[d])
        /\ cur'[d] # None /\ frames'[d] = <<>> => IF ncli'[d] = 0 THEN IF_on'[d] ELSE intena'[d]
  BY <1>6, <1>7, Zenon
<1> QED
  BY <1>8, <1>9, Zenon DEF ThreadInv

(* Every step keeps the interrupt state with its thread.                   *)
LEMMA ThreadStep ==
  ASSUME IInv, ThreadInv, [Next]_vars
  PROVE  ThreadInv'
<1>0. Types
  BY DEF IInv
<1>1. ASSUME UNCHANGED <<ncli, intena, IF_on, cur, frames, ctx>>
      PROVE  ThreadInv'
  BY <1>1 DEF ThreadInv
<1>2. ASSUME NEW c \in Cpu, NEW l \in Lock, Acquire(c, l)
      PROVE  ThreadInv'
  <2>1. /\ ncli'[c] = ncli[c] + 1 /\ ncli[c] \in Nat /\ IF_on'[c] = FALSE
        /\ intena'[c] = IF ncli[c] = 0 THEN IF_on[c] ELSE intena[c]
    BY <1>0, <1>2 DEF Acquire, pushcli, Types
  <2>2. \A d \in Cpu \ {c} : ncli'[d] = ncli[d] /\ IF_on'[d] = IF_on[d] /\ intena'[d] = intena[d]
    BY <1>0, <1>2 DEF Acquire, pushcli, Types
  <2>3. UNCHANGED <<cur, frames, ctx>>
    BY <1>2 DEF Acquire
  <2> QED
    BY <2>1, <2>2, <2>3 DEF ThreadInv
<1>3. ASSUME NEW c \in Cpu, popcli(c)
      PROVE  ThreadInv'
  <2>1. ncli[c] # 0 /\ ncli[c] \in Nat /\ ~IF_on[c]
    BY <1>0, <1>3, CountFacts, SMTT(30) DEF popcli, At, Types
  <2>2. ncli'[c] = ncli[c] - 1 /\ IF_on'[c] = (ncli[c] = 1 /\ intena[c])
    BY <1>0, <1>3, <2>1, SMTT(30) DEF popcli, Types
  <2>3. \A d \in Cpu \ {c} : ncli'[d] = ncli[d] /\ IF_on'[d] = IF_on[d]
    BY <1>0, <1>3, <2>1 DEF popcli, Types
  <2>4. UNCHANGED <<intena, cur, frames, ctx>>
    BY <1>3 DEF popcli
  <2>5. Handler(frames[c]) => IF_on'[c] = FALSE /\ ~intena[c]
    BY <2>1, <2>2, Zenon DEF ThreadInv
  <2>6. cur[c] # None /\ frames[c] = <<>> => intena[c] /\ (ncli'[c] = 0 => IF_on'[c])
    <3>1. cur[c] # None /\ frames[c] = <<>> => intena[c]
      BY <2>1 DEF ThreadInv
    <3>2. ncli'[c] = 0 => ncli[c] = 1
      BY <2>1, <2>2, SMTT(30)
    <3> QED
      BY <2>2, <3>1, <3>2, Zenon
  <2> QED
    BY <2>3, <2>4, <2>5, <2>6, SMTT(30) DEF ThreadInv
<1>4. ASSUME NEW c \in Cpu, Sti(c)
      PROVE  ThreadInv'
  <2>1. /\ cur[c] = None /\ ~Handler(frames[c])
        /\ \A d \in Cpu \ {c} : IF_on'[d] = IF_on[d]
    BY <1>0, <1>4, SMTT(30) DEF Sti, InScheduler, Handler, Types
  <2> QED
    BY <1>4, <2>1 DEF Sti, ThreadInv
<1> QED
  <2>1. CASE UNCHANGED vars
    BY <1>1, <2>1 DEF vars
  <2>2. ASSUME NEW c \in Cpu,
               (\E l \in Lock : Release(c, l)) \/ AcquireTest(c) \/ Xchg(c) \/ Mark(c) \/ Unlock(c)
        PROVE  ThreadInv'
    BY <1>1, <2>2 DEF Release, AcquireTest, Xchg, Mark, Unlock
  <2> QED
    BY <1>2, <1>3, <1>4, <2>1, <2>2, ThreadInterrupt, ThreadIret, ThreadSched,
       ThreadSwitch DEF Next

(* pushcli(), popcli(), sched(): interrupts are as the kernel thread left  *)
(* them, whatever ran on the CPU meanwhile.                                *)
THEOREM InterruptsStayRestored == Spec => []InterruptsRestored
<1>1. IInv /\ ThreadInv /\ [Next]_vars => IInv' /\ ThreadInv'
  BY TypesStep, CountStep, LockStep, ThreadStep, SMTT(30) DEF IInv
<1>2. ThreadInv => InterruptsRestored
  BY DEF ThreadInv, InterruptsRestored, Handler
<1> QED
  BY <1>1, <1>2, InitInv, ThreadInit, PTL DEF Spec
-----------------------------------------------------------------------------
(* Sleep-locks.                                                            *)

(* The spin-locks protect what they should: a process has them exactly in  *)
(* the sections between acquire() and release(), and from the test of      *)
(* lk->locked to the sleep the lock cannot be released.                    *)
InnerInv ==
  /\ \A p \in Waiter : p \in lk <=>
       pc[p] \in {"test", "enter", "drop", "clear", "wakeup", "wake", "unlock"}
  /\ \A p \in Waiter : p \in ptlock <=> pc[p] \in {"drop", "leave", "wake"}
  /\ \A p \in Waiter : pc[p] \in {"enter", "drop"} => taken

SleepInv == SL!TypeOK /\ InnerInv /\ SL!Exclusive /\ SL!NoLostWakeup

(* The lock starts free.                                                   *)
LEMMA SleepInitInv == SL!Init => SleepInv
<1> SUFFICES ASSUME SL!Init PROVE SleepInv
  OBVIOUS
<1>1. taken \in BOOLEAN
  BY Zenon DEF SL!Init
<1> QED
  BY <1>1
     DEF SL!Init, SleepInv, SL!TypeOK, SL!Holder, SL!Location, InnerInv, SL!Exclusive, SL!Owns,
         SL!NoLostWakeup

(* Every step keeps the types.                                             *)
LEMMA SleepTypeStep ==
  ASSUME SleepInv, [SL!Next]_SL!vars
  PROVE  SL!TypeOK'
<1> USE DEF SleepInv, SL!TypeOK, SL!Holder, SL!Move
<1>1. CASE UNCHANGED SL!vars
  BY <1>1 DEF SL!vars
<1>2. ASSUME NEW p \in Waiter, SL!Start(p) \/ SL!Step(p) \/ SL!Kill(p)
      PROVE  SL!TypeOK'
  <2>1. pc' \in [Waiter -> SL!Location]
    BY <1>2 DEF SL!Start, SL!Step, SL!Kill, SL!Acquire, SL!Take, SL!Busy, SL!Enter, SL!Drop,
                SL!Resume, SL!Leave, SL!StartRelease, SL!AcquireForRelease, SL!Clear,
                SL!LockTable, SL!Wake, SL!Unlock, SL!Location
  <2>2. /\ lk' \in SL!Holder /\ ptlock' \in SL!Holder
        /\ owner' \in SL!Holder
    BY <1>2 DEF SL!Start, SL!Step, SL!Kill, SL!Acquire, SL!Take, SL!Busy, SL!Enter, SL!Drop,
                SL!Resume, SL!Leave, SL!StartRelease, SL!AcquireForRelease, SL!Clear,
                SL!LockTable, SL!Wake, SL!Unlock
  <2>3. taken' \in BOOLEAN
    BY <1>2, Zenon DEF SL!Start, SL!Step, SL!Kill, SL!Acquire, SL!Take, SL!Busy, SL!Enter,
                       SL!Drop, SL!Resume, SL!Leave, SL!StartRelease, SL!AcquireForRelease,
                       SL!Clear, SL!LockTable, SL!Wake, SL!Unlock
  <2>4. taken' <=> owner' # {}
    BY <1>2 DEF SL!Start, SL!Step, SL!Kill, SL!Acquire, SL!Take, SL!Busy, SL!Enter, SL!Drop,
                SL!Resume, SL!Leave, SL!StartRelease, SL!AcquireForRelease, SL!Clear,
                SL!LockTable, SL!Wake, SL!Unlock
  <2> QED
    BY <2>1, <2>2, <2>3, <2>4
<1> QED
  BY <1>1, <1>2 DEF SL!Next

(* Every step respects the spin-locks.                                     *)
LEMMA InnerStep ==
  ASSUME SleepInv, [SL!Next]_SL!vars
  PROVE  InnerInv'
<1> USE DEF SleepInv, SL!TypeOK, SL!Holder, SL!Move, InnerInv, SL!Exclusive, SL!Owns
<1>1. CASE UNCHANGED SL!vars
  BY <1>1 DEF SL!vars
<1>2. ASSUME NEW p \in Waiter, SL!Start(p) \/ SL!Kill(p) \/ SL!StartRelease(p)
      PROVE  InnerInv'
  BY <1>2 DEF SL!Start, SL!Kill, SL!StartRelease
<1>3. ASSUME NEW p \in Waiter, SL!Acquire(p) \/ SL!AcquireForRelease(p) \/ SL!Unlock(p)
      PROVE  InnerInv'
  BY <1>3 DEF SL!Acquire, SL!AcquireForRelease, SL!Unlock
<1>4. ASSUME NEW p \in Waiter, SL!Take(p) \/ SL!Busy(p)
      PROVE  InnerInv'
  BY <1>4 DEF SL!Take, SL!Busy
<1>5. ASSUME NEW p \in Waiter, SL!Enter(p) \/ SL!LockTable(p)
      PROVE  InnerInv'
  BY <1>5 DEF SL!Enter, SL!LockTable
<1>6. ASSUME NEW p \in Waiter, SL!Resume(p) \/ SL!Leave(p)
      PROVE  InnerInv'
  BY <1>6 DEF SL!Resume, SL!Leave
<1>7. ASSUME NEW p \in Waiter, SL!Drop(p)
      PROVE  InnerInv'
  BY <1>7 DEF SL!Drop
<1>8. ASSUME NEW p \in Waiter, SL!Clear(p)
      PROVE  InnerInv'
  BY <1>8 DEF SL!Clear
<1>9. ASSUME NEW p \in Waiter, SL!Wake(p)
      PROVE  InnerInv'
  BY <1>9 DEF SL!Wake
<1> QED
  BY <1>1, <1>2, <1>3, <1>4, <1>5, <1>6, <1>7, <1>8, <1>9 DEF SL!Next, SL!Step

(* The sleep-lock changes hands only through Take and Clear.               *)
LEMMA SleepExclusiveStep ==
  ASSUME SleepInv, [SL!Next]_SL!vars
  PROVE  SL!Exclusive'
<1> USE DEF SleepInv, SL!TypeOK, SL!Holder, SL!Move, SL!Exclusive, SL!Owns
<1>1. CASE UNCHANGED SL!vars
  BY <1>1 DEF SL!vars
<1>2. ASSUME NEW p \in Waiter, SL!Take(p)
      PROVE  SL!Exclusive'
  BY <1>2 DEF SL!Take
<1>3. ASSUME NEW p \in Waiter, SL!Clear(p)
      PROVE  SL!Exclusive'
  BY <1>3 DEF SL!Clear
<1>4. ASSUME NEW p \in Waiter, SL!Start(p) \/ SL!Step(p) \/ SL!Kill(p), ~SL!Take(p), ~SL!Clear(p)
      PROVE  SL!Exclusive'
  <2>1. /\ taken' = taken /\ owner' = owner
        /\ \A q \in Waiter : SL!Owns(q)' <=> SL!Owns(q)
    BY <1>4, SMTT(30) DEF SL!Start, SL!Step, SL!Kill, SL!Acquire, SL!Busy, SL!Enter, SL!Drop,
                          SL!Resume, SL!Leave, SL!StartRelease, SL!AcquireForRelease,
                          SL!LockTable, SL!Wake, SL!Unlock
  <2> QED
    BY <2>1
<1> QED
  BY <1>1, <1>2, <1>3, <1>4 DEF SL!Next

(* No step leaves a sleeper behind.                                        *)
LEMMA SleepWakeupStep ==
  ASSUME SleepInv, [SL!Next]_SL!vars
  PROVE  SL!NoLostWakeup'
<1> USE DEF SleepInv, SL!TypeOK, SL!Holder, SL!Move, SL!NoLostWakeup
<1>1. CASE UNCHANGED SL!vars
  BY <1>1 DEF SL!vars
<1>2. ASSUME NEW p \in Waiter, SL!Take(p) \/ SL!Clear(p)
      PROVE  SL!NoLostWakeup'
  BY <1>2 DEF SL!Take, SL!Clear
<1>3. ASSUME NEW p \in Waiter, SL!Drop(p)
      PROVE  SL!NoLostWakeup'
  BY <1>3 DEF SL!Drop, InnerInv
<1>4. ASSUME NEW p \in Waiter, SL!Wake(p)
      PROVE  SL!NoLostWakeup'
  BY <1>4 DEF SL!Wake
<1>5. ASSUME NEW p \in Waiter,
             \/ SL!Start(p) \/ SL!Kill(p) \/ SL!Acquire(p) \/ SL!Busy(p) \/ SL!Enter(p)
             \/ SL!Resume(p) \/ SL!Leave(p)
             \/ SL!StartRelease(p) \/ SL!AcquireForRelease(p) \/ SL!LockTable(p) \/ SL!Unlock(p)
      PROVE  SL!NoLostWakeup'
  <2>1. /\ taken' = taken
        /\ \A q \in Waiter : pc'[q] = "asleep" => pc[q] = "asleep"
        /\ \A q \in Waiter : pc[q] \in {"wakeup", "wake"} => pc'[q] \in {"wakeup", "wake"}
    BY <1>5 DEF SL!Start, SL!Kill, SL!Acquire, SL!Busy, SL!Enter, SL!Resume, SL!Leave,
                SL!StartRelease, SL!AcquireForRelease, SL!LockTable, SL!Unlock
  <2> QED
    BY <2>1
<1> QED
  BY <1>1, <1>2, <1>3, <1>4, <1>5, Zenon DEF SL!Next, SL!Step

(* The inductive invariant holds in every reachable state.                 *)
THEOREM SleepInvariance == SL!Spec => []SleepInv
<1>1. SleepInv /\ [SL!Next]_SL!vars => SleepInv'
  BY SleepTypeStep, InnerStep, SleepExclusiveStep, SleepWakeupStep DEF SleepInv
<1> QED
  BY SleepInitInv, <1>1, PTL DEF SL!Spec

(* lk->locked and lk->pid agree.                                           *)
THEOREM SleepTypeCorrect == SL!Spec => []SL!TypeOK
<1>1. SleepInv => SL!TypeOK
  BY DEF SleepInv
<1> QED
  BY <1>1, SleepInvariance, PTL

(* acquiresleep() excludes: one holder at a time, whom lk->pid names.      *)
THEOREM SleepLockExcludes == SL!Spec => []SL!Exclusive
<1>1. SleepInv => SL!Exclusive
  BY DEF SleepInv
<1> QED
  BY <1>1, SleepInvariance, PTL

(* sleep() and wakeup() lose no wakeup.                                    *)
THEOREM WakeupKept == SL!Spec => []SL!NoLostWakeup
<1>1. SleepInv => SL!NoLostWakeup
  BY DEF SleepInv
<1> QED
  BY <1>1, SleepInvariance, PTL

(* A sleep-lock excludes and loses no wakeup.                              *)
THEOREM SleepLocksWork == SL!Spec => []SL!SleepLockSound
  BY SleepLockExcludes, WakeupKept, PTL DEF SL!SleepLockSound
-----------------------------------------------------------------------------
(* The locks together, as MCSpinlock composes them.                        *)

(* A behaviour of the composition is one of the spin-locks, and one of the *)
(* sleep-lock.                                                             *)
LEMMA LocksCompose == LocksSpec => Spec /\ SL!Spec
<1>1. LocksInit => Init /\ SL!Init
  BY DEF LocksInit
<1>2. [SpinPart \/ SleepPart]_lockVars => [Next]_vars /\ [SL!Next]_SL!vars
  BY DEF SpinPart, SleepPart, lockVars, sleepVars, vars, SL!vars
<1> QED
  BY <1>1, <1>2, PTL DEF LocksSpec, Spec, SL!Spec

(* acquiresleep(), releasesleep(): a sleep-lock has one holder, and no     *)
(* process sleeps for it when nobody will wake it.                         *)
THEOREM SleepLocksStaySound == LocksSpec => []SleepLockSound
  BY LocksCompose, SleepLocksWork, PTL DEF SleepLockSound
=============================================================================
