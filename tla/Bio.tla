--------------------------------- MODULE Bio ---------------------------------
(***************************************************************************)
(* The buffer cache (bio.c) over the IDE driver (ide.c).                   *)
(*                                                                         *)
(* A section under bcache.lock or idelock is one action, the buffer's      *)
(* sleep-lock is taken and released in one step (module SleepLock), and a  *)
(* process that sleeps in iderw() goes on only after the wakeup() of       *)
(* ideintr().  The callers are processes that use one block at a time and  *)
(* follow the rules of bio.c: they write a buffer they changed, with       *)
(* bwrite() or through log_write() (log.c), which leaves it dirty.         *)
(***************************************************************************)
EXTENDS Integers, Sequences, FiniteSets, SequencesExt

CONSTANTS Buf, Block, Proc, Value, None,
          MaxPinned,   \* bound of the log on the blocks it keeps dirty
          ReadErrors   \* whether reads of the disk may fail

(* A request to the disk.                                                  *)
Request == [blockno : Block, write : BOOLEAN, data : Value]

ASSUME BioConstants ==
  /\ IsFiniteSet(Buf) /\ IsFiniteSet(Proc) /\ MaxPinned \in Nat /\ ReadErrors \in BOOLEAN
  /\ None \notin Buf \cup Block \cup Proc \cup Request

VARIABLES buf,        \* the buffers
          lru,        \* bcache.head: most recently used first
          idequeue,
          active,     \* request the disk works on, or None
          disk,       \* contents of the disk
          pc, mine    \* location of a process and the buffer it uses

vars == <<buf, lru, idequeue, active, disk, pc, mine>>

(* owner is the holder of b->lock; dev is left out, there is one disk.     *)
BufRecord == [blockno : Block \cup {None}, refcnt : Nat, valid : BOOLEAN, dirty : BOOLEAN,
              data : Value, owner : Proc \cup {None}]

Location == {"idle", "lock", "hold", "iderw", "io", "woken", "unref", "nobuf", "panic"}

TypeOK ==
  /\ buf \in [Buf -> BufRecord]
  /\ Len(lru) = Cardinality(Buf) /\ ToSet(lru) = Buf
  /\ idequeue \in Seq(Buf) /\ IsInjective(idequeue)
  /\ active \in Request \cup {None}
  /\ disk \in [Block -> Value]
  /\ pc \in [Proc -> Location]
  /\ mine \in [Proc -> Buf \cup {None}]

(* binit(): no buffer has a block yet (dev is 0, which is not ROOTDEV).    *)
Init ==
  /\ \E v \in Value :
       buf = [b \in Buf |-> [blockno |-> None, refcnt |-> 0, valid |-> FALSE, dirty |-> FALSE,
                             data |-> v, owner |-> None]]
  /\ lru = SetToSeq(Buf)
  /\ idequeue = <<>> /\ active = None
  /\ disk \in [Block -> Value]
  /\ pc = [p \in Proc |-> "idle"] /\ mine = [p \in Proc |-> None]
-----------------------------------------------------------------------------
Move(p, from, to) == pc[p] = from /\ pc' = [pc EXCEPT ![p] = to]

(* bcache.lock can be had: the process that panics in bget() keeps it.     *)
LockFree == \A p \in Proc : pc[p] # "nobuf"

(* b->flags == B_VALID: the buffer and the disk agree.                     *)
Synced(b) == buf[b].valid /\ ~buf[b].dirty

(* bget(): the block is cached.                                            *)
bgetCached(p, n) ==
  /\ LockFree /\ Move(p, "idle", "lock")
  /\ \E b \in Buf :
       /\ buf[b].blockno = n
       /\ buf' = [buf EXCEPT ![b].refcnt = @ + 1]
       /\ mine' = [mine EXCEPT ![p] = b]
  /\ UNCHANGED <<lru, idequeue, active, disk>>

(* Faulty: a dirty buffer that nobody has is taken for unused.             *)
UnusedDirty(b) == buf[b].refcnt = 0

Unused(b) == buf[b].refcnt = 0 /\ ~buf[b].dirty

NotCached(n) == \A b \in Buf : buf[b].blockno # n

(* bget(): recycle the unused buffer that was used least recently, or      *)
(* panic("bget: no buffers") with bcache.lock held.                        *)
bgetRecycle(p, n) ==
  /\ LockFree /\ NotCached(n)
  /\ IF \E b \in Buf : Unused(b)
     THEN \E i \in DOMAIN lru :
            /\ Unused(lru[i]) /\ \A j \in DOMAIN lru : j > i => ~Unused(lru[j])
            /\ Move(p, "idle", "lock")
            /\ buf' = [buf EXCEPT ![lru[i]].blockno = n, ![lru[i]].valid = FALSE,
                                  ![lru[i]].dirty = FALSE, ![lru[i]].refcnt = 1]
            /\ mine' = [mine EXCEPT ![p] = lru[i]]
     ELSE Move(p, "idle", "nobuf") /\ UNCHANGED <<buf, mine>>
  /\ UNCHANGED <<lru, idequeue, active, disk>>

(* acquiresleep() at the end of bget(); bread() reads an invalid buffer.   *)
Lock(p) ==
  /\ mine[p] # None /\ buf[mine[p]].owner = None
  /\ Move(p, "lock", IF buf[mine[p]].valid THEN "hold" ELSE "iderw")
  /\ buf' = [buf EXCEPT ![mine[p]].owner = p]
  /\ UNCHANGED <<lru, idequeue, active, disk, mine>>

(* The caller changes the data and calls bwrite().                         *)
bwrite(p, v) ==
  /\ Move(p, "hold", IF buf[mine[p]].owner = p THEN "iderw" ELSE "panic")
  /\ buf' = [buf EXCEPT ![mine[p]].data = v, ![mine[p]].dirty = TRUE]
  /\ UNCHANGED <<lru, idequeue, active, disk, mine>>

Pinned == {b \in Buf : buf[b].dirty}

(* The caller changes the data and calls log_write(), which sets B_DIRTY.  *)
log_write(p, v) ==
  /\ pc[p] = "hold"
  /\ Cardinality(Pinned \cup {mine[p]}) <= MaxPinned
  /\ buf' = [buf EXCEPT ![mine[p]].data = v, ![mine[p]].dirty = TRUE]
  /\ UNCHANGED <<lru, idequeue, active, disk, pc, mine>>

(* brelse(): releasesleep().                                               *)
brelse(p) ==
  /\ Move(p, "hold", IF buf[mine[p]].owner = p THEN "unref" ELSE "panic")
  /\ buf' = [buf EXCEPT ![mine[p]].owner = None]
  /\ UNCHANGED <<lru, idequeue, active, disk, mine>>

(* The list with b moved to the front, as the most recently used one.      *)
ToFront(b) == <<b>> \o RemoveAt(lru, CHOOSE i \in DOMAIN lru : lru[i] = b)

(* Faulty: the reference is kept when others wait for the buffer.          *)
brelseUnrefKeeps(p) ==
  LET b == mine[p] IN
  /\ LockFree /\ Move(p, "unref", "idle")
  /\ buf' = [buf EXCEPT ![b].refcnt = IF @ = 1 THEN 0 ELSE @]
  /\ lru' = IF buf[b].refcnt = 1 THEN ToFront(b) ELSE lru
  /\ mine' = [mine EXCEPT ![p] = None]
  /\ UNCHANGED <<idequeue, active, disk>>

(* brelse(): the section under bcache.lock.                                *)
brelseUnref(p) ==
  LET b == mine[p] IN
  /\ LockFree /\ Move(p, "unref", "idle")
  /\ buf' = [buf EXCEPT ![b].refcnt = @ - 1]
  /\ lru' = IF buf[b].refcnt = 1 THEN ToFront(b) ELSE lru
  /\ mine' = [mine EXCEPT ![p] = None]
  /\ UNCHANGED <<idequeue, active, disk>>
-----------------------------------------------------------------------------
(* The disk driver.                                                        *)

(* idestart(): the command and, for a write, the data go to the disk.      *)
idestart(b) == [blockno |-> buf[b].blockno, write |-> buf[b].dirty, data |-> buf[b].data]

(* iderw() up to the sleep().                                              *)
iderw(p) ==
  LET b == mine[p] IN
  /\ Move(p, "iderw", IF Synced(b) \/ buf[b].owner # p THEN "panic" ELSE "io")
  /\ idequeue' = Append(idequeue, b)
  /\ active' = IF idequeue = <<>> THEN idestart(b) ELSE active
  /\ UNCHANGED <<buf, lru, disk, mine>>

(* A sleeper of iderw() that was woken tests the flags again.              *)
iderwWoken(p) ==
  /\ Move(p, "woken", IF Synced(mine[p]) THEN "hold" ELSE "io")
  /\ UNCHANGED <<buf, lru, idequeue, active, disk, mine>>

(* What ideintr() leaves in the buffer: the data of a read that succeeded. *)
Finished(b, error) ==
  [buf[b] EXCEPT !.data = IF ~buf[b].dirty /\ ~error THEN disk[active.blockno] ELSE @,
                 !.valid = TRUE, !.dirty = FALSE]

(* Faulty: the next request is not started.                                *)
ideintrStops(error) ==
  /\ active # None
  /\ disk' = IF active.write THEN [disk EXCEPT ![active.blockno] = active.data] ELSE disk
  /\ idequeue' = Tail(idequeue)
  /\ buf' = [buf EXCEPT ![Head(idequeue)] = Finished(Head(idequeue), error)]
  /\ pc' = [p \in Proc |->
              IF pc[p] = "io" /\ mine[p] = Head(idequeue) THEN "woken" ELSE pc[p]]
  /\ active' = None
  /\ UNCHANGED <<lru, mine>>

(* The disk is done and interrupts.  (The disk interrupts for requests     *)
(* only, so ideintr() does not find the queue empty.)                      *)
ideintr(error) ==
  /\ active # None
  /\ disk' = IF active.write THEN [disk EXCEPT ![active.blockno] = active.data] ELSE disk
  /\ idequeue' = Tail(idequeue)
  /\ buf' = [buf EXCEPT ![Head(idequeue)] = Finished(Head(idequeue), error)]
  /\ pc' = [p \in Proc |->
              IF pc[p] = "io" /\ mine[p] = Head(idequeue) THEN "woken" ELSE pc[p]]
  /\ active' = IF Tail(idequeue) # <<>> THEN idestart(Head(Tail(idequeue))) ELSE None
  /\ UNCHANGED <<lru, mine>>

Interrupt == \E error \in BOOLEAN : (error => ReadErrors) /\ ideintr(error)

(* panic() ends in an endless loop.                                        *)
panic(p) == pc[p] \in {"nobuf", "panic"} /\ UNCHANGED vars

Continue(p) == Lock(p) \/ iderw(p) \/ iderwWoken(p) \/ brelse(p) \/ brelseUnref(p) \/ panic(p)

Next ==
  \/ \E p \in Proc, n \in Block : bgetCached(p, n) \/ bgetRecycle(p, n)
  \/ \E p \in Proc : Continue(p) \/ \E v \in Value : bwrite(p, v) \/ log_write(p, v)
  \/ Interrupt

Spec == Init /\ [][Next]_vars
-----------------------------------------------------------------------------
(* Properties.                                                             *)

(* refcnt counts the processes between bget() and the end of brelse(), so  *)
(* that a buffer is never recycled under a process that waits for it.      *)
RefcntExact ==
  \A b \in Buf : buf[b].refcnt = Cardinality({p \in Proc : mine[p] = b})

(* The disk works exactly while the queue is not empty, on the request at  *)
(* its head: no request is left behind, none is started twice.             *)
QueueServed ==
  /\ active = None <=> idequeue = <<>>
  /\ idequeue # <<>> => active = idestart(Head(idequeue))

(* The buffers that no process uses.                                       *)
Spare == {b \in Buf : \A p \in Proc : mine[p] # b}

(* No panic of the buffer cache or the driver is reachable but the one of  *)
(* bget(), and that one only when the buffers have really run out: every   *)
(* buffer is in the hands of a process or dirty for the log, with no more  *)
(* than MaxPinned of them spare.                                           *)
PanicJustified ==
  \A p \in Proc :
    /\ pc[p] # "panic"
    /\ pc[p] = "nobuf" => (\A b \in Spare : buf[b].dirty) /\ Cardinality(Spare) <= MaxPinned

(* bget(), brelse(), iderw(): the counts are exact, so that no buffer is   *)
(* recycled under its users and none is lost to the cache.                 *)
BuffersSound == RefcntExact /\ PanicJustified

(* The contents of a block: the valid buffer, or the disk.                 *)
BufOf(n) == CHOOSE b \in Buf : buf[b].blockno = n

Contents ==
  [n \in Block |-> IF ~NotCached(n) /\ buf[BufOf(n)].valid THEN buf[BufOf(n)].data ELSE disk[n]]

(* A process has a block when its locked buffer is valid.                  *)
Holder ==
  [n \in Block |-> IF ~NotCached(n) /\ buf[BufOf(n)].valid THEN buf[BufOf(n)].owner ELSE None]

Store == INSTANCE BlockStore WITH value <- Contents, holder <- Holder

(* The cache is coherent: it implements the block store, in which only the *)
(* process that has a block changes it.  Recycling, reads, writes and the  *)
(* order of requests change the contents of no block.                      *)
AsBlockStore == Store!Spec
=============================================================================
