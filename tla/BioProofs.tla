------------------------------ MODULE BioProofs ------------------------------
(***************************************************************************)
(* Proofs about the buffer cache and the disk queue (module Bio), for any  *)
(* number of processes, buffers and blocks.  Nothing depends on how many   *)
(* buffers there are: bget() may run out of them.                          *)
(***************************************************************************)
EXTENDS MCBio, FiniteSetTheorems, TLAPS

(* The reads of the disk do not fail.                                      *)
GoodDisk == ReadErrors = FALSE
-----------------------------------------------------------------------------
(* The inductive invariant.                                                *)

Types ==
  /\ buf \in [Buf -> BufRecord]
  /\ lru \in Seq(Buf) /\ Len(lru) = Cardinality(Buf) /\ ToSet(lru) = Buf
  /\ idequeue \in Seq(Buf)
  /\ active \in Request \cup {None}
  /\ disk \in [Block -> Value]
  /\ pc \in [Proc -> Location]
  /\ mine \in [Proc -> Buf \cup {None}]

(* Locations at which a process has the lock of its buffer.                *)
Locked == {"hold", "iderw", "io", "woken"}

(* A process has a buffer, which has a block, between bget() and brelse(). *)
(* A buffer is locked by the process that is past acquiresleep() for it.   *)
UseInv ==
  /\ \A p \in Proc : mine[p] = None <=> pc[p] \in {"idle", "nobuf"}
  /\ \A p \in Proc : mine[p] # None => buf[mine[p]].blockno # None
  /\ \A p \in Proc, b \in Buf : buf[b].owner = p <=> mine[p] = b /\ pc[p] \in Locked

(* The flags: a caller has a valid buffer, iderw() is called for a buffer  *)
(* that needs it and returns when it does not; only valid data are dirty.  *)
FlagInv ==
  /\ \A b \in Buf : buf[b].dirty => buf[b].valid
  /\ \A b \in Buf : buf[b].valid => buf[b].blockno # None
  /\ \A p \in Proc :
       /\ pc[p] = "hold" => buf[mine[p]].valid
       /\ pc[p] \in {"iderw", "io"} => ~Synced(mine[p])
       /\ pc[p] = "woken" => Synced(mine[p])

(* The queue has the buffers of the processes that sleep in iderw(), each  *)
(* once.                                                                   *)
QueueInv ==
  /\ \A i, j \in 1..Len(idequeue) : idequeue[i] = idequeue[j] => i = j
  /\ \A i \in 1..Len(idequeue) : \E p \in Proc : pc[p] = "io" /\ mine[p] = idequeue[i]
  /\ \A p \in Proc : pc[p] = "io" => \E i \in 1..Len(idequeue) : idequeue[i] = mine[p]

(* No block has two buffers.                                               *)
OneBuffer ==
  \A b, c \in Buf : buf[b].blockno = buf[c].blockno /\ buf[b].blockno # None => b = c

(* The dirty buffers that are not being written: the blocks of the log.    *)
Parked ==
  {b \in Buf : buf[b].dirty /\ \A p \in Proc : mine[p] = b => pc[p] \notin {"iderw", "io"}}

RoomInv == Cardinality(Parked) <= MaxPinned

(* No panic but the one of bget() is reached.                              *)
NoPanic == \A p \in Proc : pc[p] # "panic"

(* A process that panics in bget() found only buffers that processes use   *)
(* and buffers that the log pins; without bcache.lock that stays so.       *)
RunOut ==
  (\E p \in Proc : pc[p] = "nobuf") =>
    (\A b \in Spare : buf[b].dirty) /\ Cardinality(Spare) <= MaxPinned

(* A buffer that is valid and not dirty has what the disk has.             *)
Coherent == \A b \in Buf : Synced(b) => buf[b].data = disk[buf[b].blockno]

BioInv ==
  Types /\ UseInv /\ FlagInv /\ QueueInv /\ QueueServed /\ RefcntExact /\ OneBuffer /\ RoomInv
-----------------------------------------------------------------------------
(* Facts about one state.                                                  *)

(* RefcntExact: a buffer that a process uses is counted, and one that is   *)
(* not counted is used by no process.                                      *)
LEMMA UsersCounted ==
  ASSUME BioInv, NEW b \in Buf
  PROVE  /\ \A p \in Proc : mine[p] = b => buf[b].refcnt >= 1
         /\ buf[b].refcnt \in Nat
         /\ buf[b].refcnt # 0 => \E p \in Proc : mine[p] = b
<1> DEFINE U == {p \in Proc : mine[p] = b}
<1>1. IsFiniteSet(U)
  BY BioConstants, FS_Subset
<1>2. buf[b].refcnt = Cardinality(U)
  BY DEF BioInv, RefcntExact
<1>3. Cardinality(U) \in Nat /\ (Cardinality(U) = 0 <=> U = {})
  BY <1>1, FS_CardinalityType, FS_EmptySet
<1> QED
  BY <1>2, <1>3

(* QueueInv: the buffer of a process that has the lock and does not sleep  *)
(* in iderw() is not in the queue.                                         *)
LEMMA QueuedApart ==
  ASSUME BioInv, NEW p \in Proc, pc[p] \in Locked \ {"io"}, NEW i \in 1..Len(idequeue)
  PROVE  idequeue[i] # mine[p]
<1>1. PICK q \in Proc : pc[q] = "io" /\ mine[q] = idequeue[i]
  BY DEF BioInv, QueueInv
<1>2. idequeue[i] \in Buf
  BY DEF BioInv, Types
<1>3. pc[p] # "io" /\ pc[q] \in Locked
  BY <1>1 DEF Locked
<1>4. buf[idequeue[i]].owner = q
  BY <1>1, <1>2, <1>3 DEF BioInv, UseInv
<1>5. mine[p] = idequeue[i] => buf[idequeue[i]].owner = p
  BY <1>2 DEF BioInv, UseInv
<1> QED
  BY <1>1, <1>3, <1>4, <1>5

(* QueueInv, RefcntExact: a buffer in the queue is counted.                *)
LEMMA QueuedCounted ==
  ASSUME BioInv, NEW i \in 1..Len(idequeue)
  PROVE  idequeue[i] \in Buf /\ buf[idequeue[i]].refcnt # 0
<1>1. PICK q \in Proc : pc[q] = "io" /\ mine[q] = idequeue[i]
  BY DEF BioInv, QueueInv
<1>2. idequeue[i] \in Buf
  BY DEF BioInv, Types
<1> QED
  BY <1>1, <1>2, UsersCounted

(* UseInv: the buffer of a process that has its lock.                      *)
LEMMA LockedBuffer ==
  ASSUME BioInv, NEW p \in Proc, pc[p] \in Location \ {"idle", "nobuf"}
  PROVE  /\ mine[p] \in Buf /\ buf[mine[p]].blockno \in Block
         /\ pc[p] \in Locked => buf[mine[p]].owner = p
         /\ pc[p] \in Locked => \A q \in Proc : q # p /\ mine[q] = mine[p] => pc[q] \notin Locked
<1>1. mine[p] \in Buf
  BY DEF BioInv, Types, UseInv
<1>2. buf[mine[p]] \in BufRecord /\ buf[mine[p]].blockno # None
  BY <1>1, BioConstants DEF BioInv, Types, UseInv
<1>3. buf[mine[p]].blockno \in Block
  BY <1>2 DEF BufRecord
<1> QED
  BY <1>1, <1>3 DEF BioInv, UseInv

(* No block has two buffers: the buffer of a block is the one BufOf finds. *)
LEMMA BufOfIs ==
  ASSUME OneBuffer, BioConstants, NEW b \in Buf, buf[b].blockno \in Block
  PROVE  BufOf(buf[b].blockno) = b
<1>1. \E c \in Buf : buf[c].blockno = buf[b].blockno
  OBVIOUS
<1>2. /\ BufOf(buf[b].blockno) \in Buf
      /\ buf[BufOf(buf[b].blockno)].blockno = buf[b].blockno
  BY <1>1 DEF BufOf
<1> QED
  BY <1>2 DEF OneBuffer
-----------------------------------------------------------------------------
(* What a step leaves alone.                                               *)

(* The step changes no buffer but b, and no process but p.                 *)
OnlyBuf(b) == \A c \in Buf : c # b => buf'[c] = buf[c]

OnlyProc(p) == \A q \in Proc : q # p => pc'[q] = pc[q] /\ mine'[q] = mine[q]

(* What the disk sees of buffer c.                                         *)
SameRequest(c) ==
  buf'[c].blockno = buf[c].blockno /\ buf'[c].dirty = buf[c].dirty /\ buf'[c].data = buf[c].data

(* QueueInv, QueueServed: a step of a process that neither starts nor ends *)
(* a sleep in iderw() and leaves the requests in the queue alone.          *)
LEMMA QueueStays ==
  ASSUME BioInv, NEW p \in Proc, OnlyProc(p), pc[p] # "io", pc'[p] # "io",
         UNCHANGED <<idequeue, active>>,
         \A i \in 1..Len(idequeue) : SameRequest(idequeue[i])
  PROVE  QueueInv' /\ QueueServed'
<1>1. QueueInv'
  <2>1. \A q \in Proc : pc'[q] = "io" <=> pc[q] = "io"
    BY DEF OnlyProc
  <2>2. \A q \in Proc : pc[q] = "io" => mine'[q] = mine[q]
    BY DEF OnlyProc
  <2> QED
    BY <2>1, <2>2 DEF BioInv, QueueInv
<1>2. idequeue # << >> => 1 \in 1..Len(idequeue) /\ Head(idequeue) = idequeue[1]
  BY DEF BioInv, Types
<1>3. idequeue # << >> => idestart(Head(idequeue))' = idestart(Head(idequeue))
  BY <1>2 DEF SameRequest, idestart
<1>4. QueueServed'
  BY <1>3 DEF BioInv, QueueServed
<1> QED
  BY <1>1, <1>4

(* RefcntExact: a step that changes no buffer of a process and no count.   *)
LEMMA CountStays ==
  ASSUME RefcntExact, mine' = mine, \A c \in Buf : buf'[c].refcnt = buf[c].refcnt
  PROVE  RefcntExact'
BY DEF RefcntExact

(* RoomInv: a step that parks no buffer.                                   *)
LEMMA RoomStays ==
  ASSUME RoomInv, Parked' \subseteq Parked
  PROVE  RoomInv'
<1>1. IsFiniteSet(Parked)
  BY BioConstants, FS_Subset DEF Parked
<1>2. Cardinality(Parked') <= Cardinality(Parked)
  BY <1>1, FS_Subset
<1>3. Cardinality(Parked) \in Nat /\ Cardinality(Parked') \in Nat
  BY <1>1, FS_Subset, FS_CardinalityType
<1> QED
  BY <1>2, <1>3, BioConstants DEF RoomInv

(* RefcntExact: p takes or drops a reference to b.                         *)
LEMMA CountGain ==
  ASSUME BioInv, NEW p \in Proc, NEW b \in Buf, mine[p] = None, OnlyProc(p), mine'[p] = b,
         buf'[b].refcnt = buf[b].refcnt + 1,
         \A c \in Buf \ {b} : buf'[c].refcnt = buf[c].refcnt
  PROVE  RefcntExact'
<1> DEFINE U(c) == {q \in Proc : mine[q] = c}
<1>1. \A c \in Buf : IsFiniteSet(U(c)) /\ buf[c].refcnt = Cardinality(U(c))
  BY BioConstants, FS_Subset DEF BioInv, RefcntExact
<1>2. b # None /\ p \notin U(b)
  BY BioConstants
<1>3. U(b)' = U(b) \cup {p}
  BY DEF OnlyProc
<1>4. \A c \in Buf \ {b} : U(c)' = U(c)
  BY BioConstants DEF OnlyProc
<1>5. Cardinality(U(b)') = Cardinality(U(b)) + 1
  BY <1>1, <1>2, <1>3, FS_AddElement
<1>6. \A c \in Buf : buf'[c].refcnt = Cardinality(U(c)')
  BY <1>1, <1>4, <1>5
<1> QED
  BY <1>6 DEF RefcntExact

LEMMA CountLoss ==
  ASSUME BioInv, NEW p \in Proc, NEW b \in Buf, mine[p] = b, OnlyProc(p), mine'[p] = None,
         buf'[b].refcnt = buf[b].refcnt - 1,
         \A c \in Buf \ {b} : buf'[c].refcnt = buf[c].refcnt
  PROVE  RefcntExact'
<1> DEFINE U(c) == {q \in Proc : mine[q] = c}
<1>1. \A c \in Buf : IsFiniteSet(U(c)) /\ buf[c].refcnt = Cardinality(U(c))
  BY BioConstants, FS_Subset DEF BioInv, RefcntExact
<1>2. b # None /\ p \in U(b)
  BY BioConstants
<1>3. U(b)' = U(b) \ {p}
  BY <1>2 DEF OnlyProc
<1>4. \A c \in Buf \ {b} : U(c)' = U(c)
  BY BioConstants DEF OnlyProc
<1>5. Cardinality(U(b)') = Cardinality(U(b)) - 1
  BY <1>1, <1>2, <1>3, FS_RemoveElement
<1>6. \A c \in Buf : buf'[c].refcnt = Cardinality(U(c)')
  BY <1>1, <1>4, <1>5
<1> QED
  BY <1>6 DEF RefcntExact
-----------------------------------------------------------------------------
(* The steps of the buffer cache, one lemma each.                          *)

(* bget() of a cached block.                                               *)
LEMMA bgetCachedKeeps ==
  ASSUME BioInv, NEW p \in Proc, NEW n \in Block, bgetCached(p, n)
  PROVE  BioInv'
<1>1. PICK b \in Buf : /\ buf[b].blockno = n
                       /\ buf' = [buf EXCEPT ![b].refcnt = @ + 1]
                       /\ mine' = [mine EXCEPT ![p] = b]
  BY DEF bgetCached
<1>2. pc[p] = "idle" /\ pc' = [pc EXCEPT ![p] = "lock"] /\ UNCHANGED <<lru, idequeue, active, disk>>
  BY DEF bgetCached, Move
<1>3. mine[p] = None /\ buf[b].refcnt \in Nat
  BY <1>2, UsersCounted DEF BioInv, UseInv
<1>4. /\ buf' \in [Buf -> BufRecord] /\ OnlyBuf(b) /\ buf'[b].refcnt = buf[b].refcnt + 1
      /\ \A c \in Buf : /\ SameRequest(c)
                        /\ buf'[c].valid = buf[c].valid /\ buf'[c].owner = buf[c].owner
  <2> DEFINE r == [buf[b] EXCEPT !.refcnt = buf[b].refcnt + 1]
  <2>1. buf[b] \in BufRecord
    BY DEF BioInv, Types
  <2>2. r \in BufRecord /\ r.refcnt = buf[b].refcnt + 1 /\ r.blockno = buf[b].blockno
        /\ r.dirty = buf[b].dirty /\ r.data = buf[b].data /\ r.valid = buf[b].valid
        /\ r.owner = buf[b].owner
    BY <1>3, <2>1 DEF BufRecord
  <2>3. buf' = [buf EXCEPT ![b] = r]
    BY <1>1
  <2> HIDE DEF r
  <2>4. buf' \in [Buf -> BufRecord] /\ OnlyBuf(b) /\ buf'[b] = r
    BY <2>2, <2>3 DEF BioInv, Types, OnlyBuf
  <2> QED
    BY <2>2, <2>4 DEF OnlyBuf, SameRequest
<1>5. /\ OnlyProc(p) /\ pc'[p] = "lock" /\ mine'[p] = b
      /\ pc' \in [Proc -> Location] /\ mine' \in [Proc -> Buf \cup {None}]
  BY <1>1, <1>2 DEF BioInv, Types, Location, OnlyProc
<1>6. Types'
  BY <1>2, <1>4, <1>5 DEF BioInv, Types
<1>7. UseInv'
  <2>1. b # None /\ n # None
    BY BioConstants
  <2>2. \A q \in Proc : mine'[q] = None <=> pc'[q] \in {"idle", "nobuf"}
    BY <1>5, <2>1 DEF BioInv, UseInv, OnlyProc
  <2>3. \A q \in Proc : mine'[q] # None => buf'[mine'[q]].blockno # None
    BY <1>1, <1>4, <1>5, <2>1 DEF BioInv, UseInv, OnlyProc, SameRequest
  <2>4. \A q \in Proc, c \in Buf : buf'[c].owner = q <=> mine'[q] = c /\ pc'[q] \in Locked
    BY <1>2, <1>3, <1>4, <1>5, <2>1, BioConstants DEF BioInv, UseInv, OnlyProc, Locked
  <2> QED
    BY <2>2, <2>3, <2>4 DEF UseInv
<1>8. FlagInv'
  <2>1. \A c \in Buf : Synced(c)' <=> Synced(c)
    BY <1>4 DEF Synced, SameRequest
  <2>2. \A q \in Proc : pc[q] \in Locked => mine[q] \in Buf
    BY DEF BioInv, Types, UseInv, Locked
  <2>3. \A q \in Proc : pc'[q] \in Locked => pc'[q] = pc[q] /\ mine'[q] = mine[q]
    BY <1>5 DEF OnlyProc, Locked
  <2> QED
    BY <1>4, <2>1, <2>2, <2>3 DEF BioInv, FlagInv, Locked, SameRequest
<1>9. QueueInv' /\ QueueServed'
  BY <1>2, <1>4, <1>5, QueueStays, QueuedCounted
<1>10. RefcntExact'
  BY <1>3, <1>4, <1>5, CountGain DEF OnlyBuf
<1>11. OneBuffer'
  BY <1>4 DEF BioInv, OneBuffer, SameRequest
<1>12. RoomInv'
  <2>1. Parked' \subseteq Parked
    BY <1>2, <1>3, <1>4, <1>5, BioConstants DEF Parked, SameRequest, OnlyProc
  <2> QED
    BY <2>1, RoomStays DEF BioInv
<1> QED
  BY <1>6, <1>7, <1>8, <1>9, <1>10, <1>11, <1>12 DEF BioInv
-----------------------------------------------------------------------------
(* A step of process p that changes buffer b only.                         *)

LEMMA Changed ==
  ASSUME BioInv, NEW b \in Buf, NEW r \in BufRecord, buf' = [buf EXCEPT ![b] = r]
  PROVE  buf' \in [Buf -> BufRecord] /\ OnlyBuf(b) /\ buf'[b] = r
BY DEF BioInv, Types, OnlyBuf

LEMMA Moved ==
  ASSUME BioInv, NEW p \in Proc, NEW t \in Location, pc' = [pc EXCEPT ![p] = t], mine' = mine
  PROVE  /\ pc' \in [Proc -> Location] /\ mine' \in [Proc -> Buf \cup {None}]
         /\ OnlyProc(p) /\ pc'[p] = t
BY DEF BioInv, Types, OnlyProc

(* UseInv: p has a buffer where it should, and owns it where it should.    *)
LEMMA UseStays ==
  ASSUME BioInv, NEW p \in Proc, OnlyProc(p),
         mine'[p] = None <=> pc'[p] \in {"idle", "nobuf"},
         mine'[p] # None => buf'[mine'[p]].blockno # None,
         \A c \in Buf : buf[c].blockno # None => buf'[c].blockno # None,
         \A q \in Proc, c \in Buf : q # p => (buf'[c].owner = q <=> buf[c].owner = q),
         \A c \in Buf : buf'[c].owner = p <=> mine'[p] = c /\ pc'[p] \in Locked
  PROVE  UseInv'
<1>1. \A q \in Proc : mine'[q] = None <=> pc'[q] \in {"idle", "nobuf"}
  BY DEF BioInv, UseInv, OnlyProc
<1>2. \A q \in Proc : mine'[q] # None => buf'[mine'[q]].blockno # None
  BY DEF BioInv, UseInv, OnlyProc, Types
<1>3. \A q \in Proc, c \in Buf : buf'[c].owner = q <=> mine'[q] = c /\ pc'[q] \in Locked
  BY DEF BioInv, UseInv, OnlyProc
<1> QED
  BY <1>1, <1>2, <1>3 DEF UseInv

(* FlagInv: nobody else has the lock of b, and p is where the flags allow. *)
LEMMA FlagStays ==
  ASSUME BioInv, NEW p \in Proc, NEW b \in Buf, OnlyProc(p), OnlyBuf(b),
         buf'[b].dirty => buf'[b].valid,
         buf'[b].valid => buf'[b].blockno # None,
         \A q \in Proc : q # p /\ mine[q] = b => pc[q] \notin Locked,
         pc'[p] = "hold" => buf'[mine'[p]].valid,
         pc'[p] \in {"iderw", "io"} => ~Synced(mine[p])',
         pc'[p] = "woken" => Synced(mine[p])'
  PROVE  FlagInv'
<1>1. \A q \in Proc : q # p /\ pc[q] \in Locked => mine[q] \in Buf /\ mine[q] # b
  BY DEF BioInv, Types, UseInv, Locked
<1>2. \A q \in Proc : q # p /\ pc[q] \in Locked => buf'[mine'[q]] = buf[mine[q]]
  BY <1>1 DEF OnlyProc, OnlyBuf
<1>3. \A q \in Proc : q # p /\ pc[q] \in Locked => (Synced(mine[q])' <=> Synced(mine[q]))
  BY <1>2 DEF Synced
<1>4. \A q \in Proc : q # p =>
          /\ pc'[q] = "hold" => buf'[mine'[q]].valid
          /\ pc'[q] \in {"iderw", "io"} => ~Synced(mine[q])'
          /\ pc'[q] = "woken" => Synced(mine[q])'
  BY <1>2, <1>3 DEF BioInv, FlagInv, Locked, OnlyProc
<1>5. \A c \in Buf : (buf'[c].dirty => buf'[c].valid) /\ (buf'[c].valid => buf'[c].blockno # None)
  BY DEF BioInv, FlagInv, OnlyBuf
<1> QED
  BY <1>4, <1>5 DEF FlagInv

(* OneBuffer: no buffer gets a block.                                      *)
LEMMA BlocksStay ==
  ASSUME OneBuffer, \A c \in Buf : buf'[c].blockno = buf[c].blockno
  PROVE  OneBuffer'
BY DEF OneBuffer

(* bget() that recycles a buffer.                                          *)
LEMMA bgetRecycleKeeps ==
  ASSUME BioInv, NEW p \in Proc, NEW n \in Block, bgetRecycle(p, n)
  PROVE  BioInv'
<1>1. UNCHANGED <<lru, idequeue, active, disk>> /\ NotCached(n)
  BY DEF bgetRecycle
<1>2. CASE \E b \in Buf : Unused(b)
  <2>1. PICK i \in DOMAIN lru :
          /\ Unused(lru[i]) /\ Move(p, "idle", "lock")
          /\ buf' = [buf EXCEPT ![lru[i]].blockno = n, ![lru[i]].valid = FALSE,
                                ![lru[i]].dirty = FALSE, ![lru[i]].refcnt = 1]
          /\ mine' = [mine EXCEPT ![p] = lru[i]]
    BY <1>2, Zenon DEF bgetRecycle
  <2> DEFINE b == lru[i]
             r == [buf[b] EXCEPT !.blockno = n, !.valid = FALSE, !.dirty = FALSE, !.refcnt = 1]
  <2>2. b \in Buf
    BY DEF BioInv, Types
  <2>3. /\ r \in BufRecord /\ r.blockno = n /\ r.valid = FALSE /\ r.dirty = FALSE
        /\ r.refcnt = 1 /\ r.owner = buf[b].owner
    <3>1. buf[b] \in BufRecord
      BY <2>2 DEF BioInv, Types
    <3> QED
      BY <3>1 DEF BufRecord
  <2>4. buf' = [buf EXCEPT ![b] = r]
    BY <2>1, <2>2 DEF BioInv, Types
  <2>5. pc[p] = "idle" /\ pc' = [pc EXCEPT ![p] = "lock"] /\ mine' = [mine EXCEPT ![p] = b]
    BY <2>1 DEF Move
  <2>6. buf[b].refcnt = 0 /\ ~buf[b].dirty
    BY <2>1 DEF Unused
  <2> HIDE DEF b, r
  <2>7. mine[p] = None /\ \A q \in Proc : mine[q] # b
    BY <2>2, <2>5, <2>6, UsersCounted DEF BioInv, UseInv
  <2>8. buf' \in [Buf -> BufRecord] /\ OnlyBuf(b) /\ buf'[b] = r
    BY <2>2, <2>3, <2>4, Changed
  <2>9. /\ OnlyProc(p) /\ pc'[p] = "lock" /\ mine'[p] = b
        /\ pc' \in [Proc -> Location] /\ mine' \in [Proc -> Buf \cup {None}]
    BY <2>2, <2>5 DEF BioInv, Types, Location, OnlyProc
  <2>10. b # None /\ n # None /\ \A q \in Proc : buf[b].owner # q
    BY <2>2, <2>7, BioConstants DEF BioInv, UseInv
  <2>11. Types'
    BY <1>1, <2>8, <2>9 DEF BioInv, Types
  <2>12. UseInv'
    <3>1. \A c \in Buf : buf[c].blockno # None => buf'[c].blockno # None
      BY <2>3, <2>8, <2>10 DEF OnlyBuf
    <3>2. \A q \in Proc, c \in Buf : buf'[c].owner = q <=> buf[c].owner = q
      BY <2>3, <2>8 DEF OnlyBuf
    <3>3. \A c \in Buf : buf[c].owner # p
      BY <2>7, BioConstants DEF BioInv, UseInv
    <3>4. \A c \in Buf : buf'[c].owner = p <=> mine'[p] = c /\ pc'[p] \in Locked
      BY <2>9, <3>2, <3>3 DEF Locked
    <3> QED
      BY <2>2, <2>3, <2>8, <2>9, <2>10, <3>1, <3>2, <3>4, UseStays
  <2>13. FlagInv'
    <3>1. pc'[p] = "lock" /\ buf'[b].dirty = FALSE /\ buf'[b].valid = FALSE
      BY <2>3, <2>8, <2>9
    <3> QED
      BY <2>2, <2>7, <2>8, <2>9, <3>1, FlagStays
  <2>14. QueueInv' /\ QueueServed'
    <3>1. \A k \in 1..Len(idequeue) : SameRequest(idequeue[k])
      BY <2>6, <2>8, QueuedCounted DEF OnlyBuf, SameRequest
    <3> QED
      BY <1>1, <2>5, <2>9, <3>1, QueueStays
  <2>15. RefcntExact'
    <3>1. buf'[b].refcnt = buf[b].refcnt + 1 /\ \A c \in Buf \ {b} : buf'[c].refcnt = buf[c].refcnt
      BY <2>3, <2>6, <2>8 DEF OnlyBuf
    <3> QED
      BY <2>2, <2>7, <2>9, <3>1, CountGain
  <2>16. OneBuffer'
    BY <1>1, <2>2, <2>3, <2>8 DEF BioInv, OneBuffer, OnlyBuf, NotCached
  <2>17. RoomInv'
    <3>1. Parked' \subseteq Parked
      BY <2>3, <2>5, <2>7, <2>8, <2>9 DEF Parked, OnlyBuf, OnlyProc, BioInv, Types
    <3> QED
      BY <3>1, RoomStays DEF BioInv
  <2> QED
    BY <2>11, <2>12, <2>13, <2>14, <2>15, <2>16, <2>17 DEF BioInv
<1>3. CASE ~\E b \in Buf : Unused(b)
  <2>1. pc[p] = "idle" /\ pc' = [pc EXCEPT ![p] = "nobuf"] /\ UNCHANGED <<buf, mine>>
    BY <1>3 DEF bgetRecycle, Move
  <2>2. /\ pc' \in [Proc -> Location] /\ mine' \in [Proc -> Buf \cup {None}]
        /\ OnlyProc(p) /\ pc'[p] = "nobuf"
    BY <2>1, Moved DEF Location
  <2>3. mine[p] = None /\ mine'[p] = None
    BY <2>1 DEF BioInv, UseInv
  <2>4. Types'
    BY <1>1, <2>1, <2>2 DEF BioInv, Types
  <2>5. UseInv'
    <3>1. \A c \in Buf : buf'[c].owner = p <=> mine'[p] = c /\ pc'[p] \in Locked
      BY <2>1, <2>2, <2>3, BioConstants DEF BioInv, UseInv, Locked
    <3> QED
      BY <2>1, <2>2, <2>3, <3>1, UseStays
  <2>6. FlagInv'
    BY <2>1, <2>2 DEF BioInv, FlagInv, Synced, OnlyProc
  <2>7. QueueInv' /\ QueueServed'
    BY <1>1, <2>1, <2>2, QueueStays DEF SameRequest
  <2>8. RefcntExact' /\ OneBuffer'
    BY <2>1, CountStays, BlocksStay DEF BioInv
  <2>9. RoomInv'
    <3>1. Parked' \subseteq Parked
      BY <2>1, <2>2 DEF Parked, OnlyProc
    <3> QED
      BY <3>1, RoomStays DEF BioInv
  <2> QED
    BY <2>4, <2>5, <2>6, <2>7, <2>8, <2>9 DEF BioInv
<1> QED
  BY <1>2, <1>3

(* Lock(), bwrite(), log_write(), brelse(): a step of p to location t that *)
(* makes buffer b of p the record r, with nobody else at work on b.        *)
LEMMA OwnBufferKeeps ==
  ASSUME BioInv, NEW p \in Proc, NEW b \in Buf, mine[p] = b, pc[p] \in {"lock", "hold"},
         \A q \in Proc : q # p /\ mine[q] = b => pc[q] \notin Locked,
         NEW r \in BufRecord, buf' = [buf EXCEPT ![b] = r],
         r.blockno = buf[b].blockno, r.refcnt = buf[b].refcnt,
         NEW t \in {"hold", "iderw", "unref"}, pc' = [pc EXCEPT ![p] = t],
         r.owner = IF t = "unref" THEN None ELSE p,
         r.dirty => r.valid, r.valid \/ t = "iderw",
         t = "iderw" => ~(r.valid /\ ~r.dirty),
         UNCHANGED <<lru, idequeue, active, disk, mine>>,
         RoomInv'
  PROVE  BioInv'
<1>1. buf' \in [Buf -> BufRecord] /\ OnlyBuf(b) /\ buf'[b] = r
  BY Changed
<1>2. /\ pc' \in [Proc -> Location] /\ mine' \in [Proc -> Buf \cup {None}]
      /\ OnlyProc(p) /\ pc'[p] = t
  BY Moved DEF Location
<1>3. /\ b # None /\ buf[b].blockno # None
      /\ \A q \in Proc : q # p => buf[b].owner # q
      /\ \A c \in Buf : c # b => buf[c].owner # p
  BY BioConstants DEF BioInv, UseInv
<1>4. Types'
  BY <1>1, <1>2 DEF BioInv, Types
<1>5. UseInv'
  <2>1. mine'[p] = b /\ pc'[p] \notin {"idle", "nobuf"} /\ (pc'[p] \in Locked <=> t # "unref")
    BY <1>2 DEF Locked
  <2>2. \A c \in Buf : buf[c].blockno # None => buf'[c].blockno # None
    BY <1>1 DEF OnlyBuf
  <2>3. \A q \in Proc, c \in Buf : q # p => (buf'[c].owner = q <=> buf[c].owner = q)
    BY <1>1, <1>3, BioConstants DEF OnlyBuf
  <2>4. \A c \in Buf : buf'[c].owner = p <=> mine'[p] = c /\ pc'[p] \in Locked
    BY <1>1, <1>3, <2>1, BioConstants DEF OnlyBuf
  <2> QED
    BY <1>1, <1>2, <1>3, <2>1, <2>2, <2>3, <2>4, UseStays
<1>6. FlagInv'
  <2>1. pc'[p] = "hold" => buf'[mine'[p]].valid
    BY <1>1, <1>2
  <2>2. pc'[p] \in {"iderw", "io"} => ~Synced(mine[p])'
    BY <1>1, <1>2 DEF Synced
  <2>3. pc'[p] # "woken"
    BY <1>2
  <2> QED
    BY <1>1, <1>2, <1>3, <2>1, <2>2, <2>3, FlagStays
<1>7. QueueInv' /\ QueueServed'
  <2>1. \A i \in 1..Len(idequeue) : idequeue[i] \in Buf /\ idequeue[i] # b
    BY DEF BioInv, Types, QueueInv, Locked
  <2>2. \A i \in 1..Len(idequeue) : SameRequest(idequeue[i])
    BY <1>1, <2>1 DEF OnlyBuf, SameRequest
  <2> QED
    BY <1>2, <2>2, QueueStays
<1>8. RefcntExact' /\ OneBuffer'
  BY <1>1, CountStays, BlocksStay DEF BioInv, OnlyBuf
<1> QED
  BY <1>4, <1>5, <1>6, <1>7, <1>8 DEF BioInv

(* acquiresleep() at the end of bget().                                    *)
LEMMA LockKeeps ==
  ASSUME BioInv, NEW p \in Proc, Lock(p)
  PROVE  BioInv'
<1> DEFINE b == mine[p]
           r == [buf[b] EXCEPT !.owner = p]
           t == IF buf[b].valid THEN "hold" ELSE "iderw"
<1>1. /\ b # None /\ buf[b].owner = None /\ pc[p] = "lock" /\ pc' = [pc EXCEPT ![p] = t]
      /\ buf' = [buf EXCEPT ![b].owner = p] /\ UNCHANGED <<lru, idequeue, active, disk, mine>>
  BY DEF Lock, Move
<1>2. b \in Buf /\ buf[b] \in BufRecord
  BY <1>1 DEF BioInv, Types
<1>3. /\ r \in BufRecord /\ r.blockno = buf[b].blockno /\ r.refcnt = buf[b].refcnt
      /\ r.valid = buf[b].valid /\ r.dirty = buf[b].dirty /\ r.owner = p
  BY <1>2 DEF BufRecord
<1>4. buf' = [buf EXCEPT ![b] = r]
  BY <1>1
<1>5. t \in {"hold", "iderw"} /\ (t = "hold" <=> buf[b].valid) /\ t \in Location
  BY DEF Location
<1> HIDE DEF b, r, t
<1>6. \A q \in Proc : mine[q] = b => pc[q] \notin Locked
  BY <1>1, <1>2, BioConstants DEF BioInv, UseInv
<1>7. buf[b].dirty => buf[b].valid
  BY <1>2 DEF BioInv, FlagInv
<1>8. RoomInv'
  <2>1. OnlyBuf(b) /\ buf'[b] = r
    BY <1>2, <1>3, <1>4, Changed
  <2>2. OnlyProc(p) /\ pc'[p] = t /\ mine' = mine
    BY <1>1, <1>5, Moved
  <2>3. \A c \in Buf : buf'[c].dirty = buf[c].dirty
    BY <1>3, <2>1 DEF OnlyBuf
  <2>4. \A q \in Proc : pc[q] \in {"iderw", "io"} => pc'[q] = pc[q]
    BY <1>1, <2>2 DEF OnlyProc
  <2>5. Parked' \subseteq Parked
    BY <2>2, <2>3, <2>4 DEF Parked
  <2> QED
    BY <2>5, RoomStays DEF BioInv
<1>9. mine[p] = b
  BY DEF b
<1>10. t # "unref" /\ (r.dirty => r.valid) /\ (r.valid \/ t = "iderw")
       /\ (t = "iderw" => ~(r.valid /\ ~r.dirty))
  BY <1>3, <1>5, <1>7
<1> QED
  BY <1>1, <1>2, <1>3, <1>4, <1>5, <1>6, <1>8, <1>9, <1>10, OwnBufferKeeps

(* bwrite(): the buffer becomes dirty until the disk has it.               *)
LEMMA bwriteKeeps ==
  ASSUME BioInv, NEW p \in Proc, NEW v \in Value, bwrite(p, v)
  PROVE  BioInv'
<1> DEFINE b == mine[p]
           r == [buf[b] EXCEPT !.data = v, !.dirty = TRUE]
<1>1. /\ pc[p] = "hold" /\ buf' = [buf EXCEPT ![b].data = v, ![b].dirty = TRUE]
      /\ pc' = [pc EXCEPT ![p] = IF buf[b].owner = p THEN "iderw" ELSE "panic"]
      /\ UNCHANGED <<lru, idequeue, active, disk, mine>>
  BY DEF bwrite, Move
<1>2. /\ b \in Buf /\ buf[b] \in BufRecord /\ buf[b].owner = p /\ buf[b].valid
      /\ \A q \in Proc : q # p /\ mine[q] = b => pc[q] \notin Locked
  BY <1>1, LockedBuffer DEF BioInv, Types, FlagInv, Location, Locked
<1>3. /\ r \in BufRecord /\ r.blockno = buf[b].blockno /\ r.refcnt = buf[b].refcnt
      /\ r.valid = buf[b].valid /\ r.dirty = TRUE /\ r.owner = p
  BY <1>2 DEF BufRecord
<1>4. buf' = [buf EXCEPT ![b] = r] /\ pc' = [pc EXCEPT ![p] = "iderw"]
  BY <1>1, <1>2 DEF BioInv, Types
<1>5. mine[p] = b
  OBVIOUS
<1> HIDE DEF b, r
<1>6. RoomInv'
  <2>1. OnlyBuf(b) /\ buf'[b] = r
    BY <1>2, <1>3, <1>4, Changed
  <2>2. OnlyProc(p) /\ pc'[p] = "iderw" /\ mine' = mine
    BY <1>1, <1>4, Moved DEF Location
  <2>3. \A c \in Parked' : c # b
    BY <1>5, <2>2 DEF Parked
  <2>4. \A q \in Proc : pc[q] \in {"iderw", "io"} => pc'[q] = pc[q]
    BY <1>1, <2>2 DEF OnlyProc
  <2>5. Parked' \subseteq Parked
    BY <2>1, <2>2, <2>3, <2>4 DEF Parked, OnlyBuf
  <2> QED
    BY <2>5, RoomStays DEF BioInv
<1> QED
  BY <1>1, <1>2, <1>3, <1>4, <1>5, <1>6, OwnBufferKeeps

(* log_write(): the buffer stays dirty, as one of the blocks of the log.   *)
LEMMA log_writeKeeps ==
  ASSUME BioInv, NEW p \in Proc, NEW v \in Value, log_write(p, v)
  PROVE  BioInv'
<1> DEFINE b == mine[p]
           r == [buf[b] EXCEPT !.data = v, !.dirty = TRUE]
<1>1. /\ pc[p] = "hold" /\ buf' = [buf EXCEPT ![b].data = v, ![b].dirty = TRUE]
      /\ Cardinality(Pinned \cup {b}) <= MaxPinned
      /\ UNCHANGED <<lru, idequeue, active, disk, pc, mine>>
  BY DEF log_write
<1>2. /\ b \in Buf /\ buf[b] \in BufRecord /\ buf[b].owner = p /\ buf[b].valid
      /\ \A q \in Proc : q # p /\ mine[q] = b => pc[q] \notin Locked
  BY <1>1, LockedBuffer DEF BioInv, Types, FlagInv, Location, Locked
<1>3. /\ r \in BufRecord /\ r.blockno = buf[b].blockno /\ r.refcnt = buf[b].refcnt
      /\ r.valid = buf[b].valid /\ r.dirty = TRUE /\ r.owner = p
  BY <1>2 DEF BufRecord
<1>4. buf' = [buf EXCEPT ![b] = r] /\ pc' = [pc EXCEPT ![p] = "hold"]
  BY <1>1, <1>2 DEF BioInv, Types
<1>5. mine[p] = b
  OBVIOUS
<1> HIDE DEF b, r
<1>6. RoomInv'
  <2>1. OnlyBuf(b)
    BY <1>2, <1>3, <1>4, Changed
  <2>2. IsFiniteSet(Pinned \cup {b})
    BY <1>2, BioConstants, FS_Subset DEF Pinned
  <2>3. Parked' \subseteq Pinned \cup {b}
    BY <2>1 DEF Parked, Pinned, OnlyBuf
  <2>4. Cardinality(Parked') <= Cardinality(Pinned \cup {b}) /\ IsFiniteSet(Parked')
    BY <2>2, <2>3, FS_Subset
  <2>5. Cardinality(Parked') \in Nat /\ Cardinality(Pinned \cup {b}) \in Nat
    BY <2>2, <2>4, FS_CardinalityType
  <2> QED
    BY <1>1, <2>4, <2>5, BioConstants DEF RoomInv
<1> QED
  BY <1>1, <1>2, <1>3, <1>4, <1>5, <1>6, OwnBufferKeeps

(* brelse(): releasesleep().                                               *)
LEMMA brelseKeeps ==
  ASSUME BioInv, NEW p \in Proc, brelse(p)
  PROVE  BioInv'
<1> DEFINE b == mine[p]
           r == [buf[b] EXCEPT !.owner = None]
<1>1. /\ pc[p] = "hold" /\ buf' = [buf EXCEPT ![b].owner = None]
      /\ pc' = [pc EXCEPT ![p] = IF buf[b].owner = p THEN "unref" ELSE "panic"]
      /\ UNCHANGED <<lru, idequeue, active, disk, mine>>
  BY DEF brelse, Move
<1>2. /\ b \in Buf /\ buf[b] \in BufRecord /\ buf[b].owner = p /\ buf[b].valid
      /\ \A q \in Proc : q # p /\ mine[q] = b => pc[q] \notin Locked
  BY <1>1, LockedBuffer DEF BioInv, Types, FlagInv, Location, Locked
<1>3. /\ r \in BufRecord /\ r.blockno = buf[b].blockno /\ r.refcnt = buf[b].refcnt
      /\ r.valid = buf[b].valid /\ r.dirty = buf[b].dirty /\ r.owner = None
  BY <1>2 DEF BufRecord
<1>4. buf' = [buf EXCEPT ![b] = r] /\ pc' = [pc EXCEPT ![p] = "unref"]
  BY <1>1, <1>2 DEF BioInv, Types
<1>5. mine[p] = b
  OBVIOUS
<1> HIDE DEF b, r
<1>6. RoomInv'
  <2>1. OnlyBuf(b) /\ buf'[b] = r
    BY <1>2, <1>3, <1>4, Changed
  <2>2. OnlyProc(p) /\ mine' = mine
    BY <1>1, <1>4, Moved DEF Location
  <2>3. \A q \in Proc : pc[q] \in {"iderw", "io"} => pc'[q] = pc[q]
    BY <1>1, <2>2 DEF OnlyProc
  <2>4. Parked' \subseteq Parked
    BY <1>3, <2>1, <2>2, <2>3 DEF Parked, OnlyBuf
  <2> QED
    BY <2>4, RoomStays DEF BioInv
<1> QED
  BY <1>1, <1>2, <1>3, <1>4, <1>5, <1>6, OwnBufferKeeps

(* The elements of a concatenation.                                        *)
LEMMA Concat ==
  ASSUME NEW S, NEW f \in Seq(S), NEW g \in Seq(S)
  PROVE  /\ f \o g \in Seq(S) /\ Len(f \o g) = Len(f) + Len(g)
         /\ \A i \in 1..(Len(f) + Len(g)) :
              (f \o g)[i] = IF i <= Len(f) THEN f[i] ELSE g[i - Len(f)]
OBVIOUS

(* brelse(): moving a buffer to the front keeps every buffer in the list.  *)
LEMMA FrontKeeps ==
  ASSUME NEW b \in Buf, lru \in Seq(Buf), ToSet(lru) = Buf
  PROVE  ToFront(b) \in Seq(Buf) /\ Len(ToFront(b)) = Len(lru) /\ ToSet(ToFront(b)) = Buf
<1> DEFINE k == CHOOSE i \in DOMAIN lru : lru[i] = b
           n == Len(lru)
           f == SubSeq(lru, 1, k - 1)
           g == SubSeq(lru, k + 1, n)
           s == <<b>> \o (f \o g)
<1>1. \E i \in DOMAIN lru : lru[i] = b
  BY DEF ToSet
<1>2. k \in 1..n /\ lru[k] = b /\ n \in Nat
  <2>1. k \in DOMAIN lru /\ lru[k] = b
    BY <1>1
  <2> QED
    BY <2>1
<1>3. ToFront(b) = s
  BY DEF ToFront, RemoveAt
<1> HIDE DEF k
<1>4. f \in Seq(Buf) /\ Len(f) = k - 1 /\ \A i \in 1..(k - 1) : f[i] = lru[i]
  BY <1>2
<1>5. g \in Seq(Buf) /\ Len(g) = n - k /\ \A i \in 1..(n - k) : g[i] = lru[k + i]
  BY <1>2
<1> HIDE DEF f, g, n
<1>6. /\ f \o g \in Seq(Buf) /\ Len(f \o g) = n - 1
      /\ \A i \in 1..(n - 1) : (f \o g)[i] = IF i <= k - 1 THEN f[i] ELSE g[i - (k - 1)]
  <2>1. Len(f) \in Nat /\ Len(g) \in Nat /\ Len(f) + Len(g) = n - 1
    BY <1>2, <1>4, <1>5
  <2>2. /\ f \o g \in Seq(Buf) /\ Len(f \o g) = Len(f) + Len(g)
        /\ \A i \in 1..(Len(f) + Len(g)) :
             (f \o g)[i] = IF i <= Len(f) THEN f[i] ELSE g[i - Len(f)]
    BY <1>4, <1>5, Concat
  <2> QED
    BY <1>4, <2>1, <2>2
<1>7. /\ s \in Seq(Buf) /\ Len(s) = n /\ s[1] = b
      /\ \A i \in 2..n : s[i] = (f \o g)[i - 1]
  BY <1>2, <1>6
<1> HIDE DEF s
<1>8. \A i \in 1..(k - 1) : i + 1 \in 1..n /\ s[i + 1] = lru[i]
  BY <1>2, <1>4, <1>6, <1>7
<1>9. \A i \in (k + 1)..n : i \in 1..n /\ s[i] = lru[i]
  <2> TAKE i \in (k + 1)..n
  <2>1. i \in 2..n /\ i - 1 \in 1..(n - 1) /\ ~(i - 1 <= k - 1) /\ (i - 1) - (k - 1) = i - k
        /\ i - k \in 1..(n - k) /\ k + (i - k) = i
    BY <1>2
  <2>2. s[i] = (f \o g)[i - 1] /\ (f \o g)[i - 1] = g[i - k]
    BY <1>6, <1>7, <2>1
  <2> QED
    BY <1>5, <2>1, <2>2
<1>10. \A c \in Buf : \E i \in 1..n : s[i] = c
  <2> TAKE c \in Buf
  <2>1. PICK j \in 1..n : lru[j] = c
    BY DEF ToSet, n
  <2>2. CASE j < k
    BY <1>2, <1>8, <2>1, <2>2
  <2>3. CASE j = k
    BY <1>2, <1>7, <2>1, <2>3
  <2>4. CASE j > k
    BY <1>2, <1>9, <2>1, <2>4
  <2> QED
    BY <1>2, <2>2, <2>3, <2>4
<1>11. ToSet(s) = Buf
  <2>1. DOMAIN s = 1..n /\ \A i \in 1..n : s[i] \in Buf
    BY <1>7
  <2>2. ToSet(s) = {s[i] : i \in 1..n}
    BY <2>1 DEF ToSet
  <2> QED
    BY <1>10, <2>1, <2>2
<1> QED
  BY <1>3, <1>7, <1>11 DEF n

(* brelse(): the section under bcache.lock.                                *)
LEMMA UnrefKeeps ==
  ASSUME BioInv, NEW p \in Proc, brelseUnref(p)
  PROVE  BioInv'
<1> DEFINE b == mine[p]
           r == [buf[b] EXCEPT !.refcnt = buf[b].refcnt - 1]
<1>1. /\ pc[p] = "unref" /\ buf' = [buf EXCEPT ![b].refcnt = @ - 1]
      /\ pc' = [pc EXCEPT ![p] = "idle"] /\ mine' = [mine EXCEPT ![p] = None]
      /\ lru' = IF buf[b].refcnt = 1 THEN ToFront(b) ELSE lru
      /\ UNCHANGED <<idequeue, active, disk>>
  BY DEF brelseUnref, Move
<1>2. b \in Buf /\ buf[b] \in BufRecord
  BY <1>1, LockedBuffer DEF BioInv, Types, Location
<1>3. buf[b].refcnt >= 1 /\ buf[b].refcnt \in Nat
  BY <1>2, UsersCounted
<1>4. /\ r \in BufRecord /\ r.blockno = buf[b].blockno /\ r.refcnt = buf[b].refcnt - 1
      /\ r.valid = buf[b].valid /\ r.dirty = buf[b].dirty /\ r.data = buf[b].data
      /\ r.owner = buf[b].owner
  BY <1>2, <1>3 DEF BufRecord
<1>5. buf' = [buf EXCEPT ![b] = r]
  BY <1>1
<1>6. mine[p] = b
  OBVIOUS
<1> HIDE DEF b, r
<1>7. /\ buf' \in [Buf -> BufRecord] /\ OnlyBuf(b) /\ buf'[b] = r
      /\ \A c \in Buf : /\ SameRequest(c)
                        /\ buf'[c].valid = buf[c].valid /\ buf'[c].owner = buf[c].owner
  <2>1. buf' \in [Buf -> BufRecord] /\ OnlyBuf(b) /\ buf'[b] = r
    BY <1>2, <1>4, <1>5, Changed
  <2> QED
    BY <1>4, <2>1 DEF OnlyBuf, SameRequest
<1>8. /\ OnlyProc(p) /\ pc'[p] = "idle" /\ mine'[p] = None
      /\ pc' \in [Proc -> Location] /\ mine' \in [Proc -> Buf \cup {None}]
  BY <1>1 DEF BioInv, Types, Location, OnlyProc
<1>9. Types'
  <2>1. lru' \in Seq(Buf) /\ Len(lru') = Cardinality(Buf) /\ ToSet(lru') = Buf
    BY <1>1, <1>2, FrontKeeps DEF BioInv, Types
  <2> QED
    BY <1>1, <1>7, <1>8, <2>1 DEF BioInv, Types
<1>10. UseInv'
  <2>1. \A c \in Buf : buf[c].owner # p
    BY <1>1 DEF BioInv, UseInv, Locked
  <2>2. \A c \in Buf : buf'[c].owner = p <=> mine'[p] = c /\ pc'[p] \in Locked
    BY <1>7, <1>8, <2>1 DEF Locked
  <2> QED
    BY <1>7, <1>8, <2>2, UseStays DEF SameRequest
<1>11. FlagInv'
  <2>1. \A c \in Buf : Synced(c)' <=> Synced(c)
    BY <1>7 DEF Synced, SameRequest
  <2>2. \A q \in Proc : pc[q] \in Locked => mine[q] \in Buf
    BY DEF BioInv, Types, UseInv, Locked
  <2>3. \A q \in Proc : pc'[q] \in Locked => pc'[q] = pc[q] /\ mine'[q] = mine[q]
    BY <1>8 DEF OnlyProc, Locked
  <2> QED
    BY <1>7, <2>1, <2>2, <2>3 DEF BioInv, FlagInv, Locked, SameRequest
<1>12. QueueInv' /\ QueueServed'
  BY <1>1, <1>7, <1>8, QueueStays, QueuedCounted
<1>13. RefcntExact'
  BY <1>2, <1>4, <1>6, <1>7, <1>8, CountLoss DEF OnlyBuf
<1>14. OneBuffer'
  BY <1>7, BlocksStay DEF BioInv, SameRequest
<1>15. RoomInv'
  <2>1. \A q \in Proc : pc[q] \in {"iderw", "io"} => pc'[q] = pc[q] /\ mine'[q] = mine[q]
    BY <1>1, <1>8 DEF OnlyProc
  <2>2. Parked' \subseteq Parked
    BY <1>7, <2>1 DEF Parked, SameRequest
  <2> QED
    BY <2>2, RoomStays DEF BioInv
<1> QED
  BY <1>9, <1>10, <1>11, <1>12, <1>13, <1>14, <1>15 DEF BioInv
-----------------------------------------------------------------------------
(* The steps of the disk driver.                                           *)

(* iderw(): the buffer goes to the end of the queue.                       *)
LEMMA iderwKeeps ==
  ASSUME BioInv, NEW p \in Proc, iderw(p)
  PROVE  BioInv'
<1> DEFINE b == mine[p]
           n == Len(idequeue)
<1>1. /\ pc[p] = "iderw" /\ idequeue' = Append(idequeue, b)
      /\ pc' = [pc EXCEPT ![p] = IF Synced(b) \/ buf[b].owner # p THEN "panic" ELSE "io"]
      /\ active' = IF idequeue = << >> THEN idestart(b) ELSE active
      /\ UNCHANGED <<buf, lru, disk, mine>>
  BY DEF iderw, Move
<1>2. /\ b \in Buf /\ buf[b] \in BufRecord /\ buf[b].owner = p /\ ~Synced(b)
      /\ buf[b].blockno \in Block
  BY <1>1, LockedBuffer DEF BioInv, Types, FlagInv, Location, Locked
<1>3. pc' = [pc EXCEPT ![p] = "io"]
  BY <1>1, <1>2
<1>4. /\ pc' \in [Proc -> Location] /\ mine' \in [Proc -> Buf \cup {None}]
      /\ OnlyProc(p) /\ pc'[p] = "io"
  BY <1>1, <1>3, Moved DEF Location
<1>5. mine[p] = b /\ n \in Nat
  BY DEF BioInv, Types
<1>6. /\ idequeue' \in Seq(Buf) /\ Len(idequeue') = n + 1 /\ idequeue'[n + 1] = b
      /\ \A i \in 1..n : i \in 1..(n + 1) /\ idequeue'[i] = idequeue[i]
  BY <1>1, <1>2 DEF BioInv, Types
<1>7. \A i \in 1..n : idequeue[i] # b
  BY <1>1, QueuedApart DEF Locked
<1>8. idestart(b) \in Request
  BY <1>2 DEF idestart, BufRecord, Request
<1> HIDE DEF b, n
<1>9. Types'
  BY <1>1, <1>4, <1>6, <1>8 DEF BioInv, Types
<1>10. UseInv'
  <2>1. \A c \in Buf : buf'[c].owner = p <=> mine'[p] = c /\ pc'[p] \in Locked
    BY <1>1, <1>4 DEF BioInv, UseInv, Locked
  <2>2. mine'[p] # None /\ buf'[mine'[p]].blockno # None
    BY <1>1, <1>2, <1>5, BioConstants
  <2> QED
    BY <1>1, <1>4, <2>1, <2>2, UseStays
<1>11. FlagInv'
  BY <1>1, <1>4 DEF BioInv, FlagInv, Synced, OnlyProc
<1>12. QueueInv'
  <2>1. \A i \in 1..(n + 1) : i = n + 1 \/ i \in 1..n
    BY <1>5
  <2>2. \A i, j \in 1..(n + 1) : idequeue'[i] = idequeue'[j] => i = j
    BY <1>6, <1>7, <2>1 DEF BioInv, QueueInv, n
  <2>3. \A q \in Proc : pc[q] = "io" => pc'[q] = "io"
    BY <1>1, <1>4 DEF OnlyProc
  <2>4. \A i \in 1..(n + 1) : \E q \in Proc : pc'[q] = "io" /\ mine'[q] = idequeue'[i]
    BY <1>1, <1>4, <1>5, <1>6, <2>1, <2>3 DEF BioInv, QueueInv, n
  <2>5. \A q \in Proc : pc'[q] = "io" => q = p \/ pc[q] = "io"
    BY <1>4 DEF OnlyProc
  <2>6. n + 1 \in 1..(n + 1)
    BY <1>5
  <2>7. \A q \in Proc : pc'[q] = "io" => \E i \in 1..(n + 1) : idequeue'[i] = mine'[q]
    BY <1>1, <1>5, <1>6, <2>5, <2>6 DEF BioInv, QueueInv, n
  <2> QED
    BY <1>6, <2>2, <2>4, <2>7 DEF QueueInv
<1>13. QueueServed'
  <2>1. idequeue' # << >> /\ Head(idequeue') = idequeue'[1]
    BY <1>5, <1>6
  <2>2. CASE idequeue = << >>
    <3>1. n = 0 /\ idequeue'[1] = b
      BY <1>6, <2>2 DEF n
    <3>2. active' = idestart(b) /\ idestart(Head(idequeue))' = idestart(b)
      BY <1>1, <2>1, <2>2, <3>1 DEF idestart
    <3> QED
      BY <1>8, <2>1, <3>2, BioConstants DEF QueueServed
  <2>3. CASE idequeue # << >>
    <3>1. Head(idequeue) = idequeue[1] /\ 1 \in 1..n
      BY <2>3 DEF BioInv, Types, n
    <3>2. active' = active /\ idestart(Head(idequeue))' = idestart(Head(idequeue))
      BY <1>1, <1>6, <2>1, <2>3, <3>1 DEF idestart
    <3> QED
      BY <2>1, <2>3, <3>2 DEF BioInv, QueueServed
  <2> QED
    BY <2>2, <2>3
<1>14. RefcntExact' /\ OneBuffer'
  BY <1>1, CountStays, BlocksStay DEF BioInv
<1>15. RoomInv'
  <2>1. \A q \in Proc : pc[q] \in {"iderw", "io"} => pc'[q] \in {"iderw", "io"}
    BY <1>4 DEF OnlyProc
  <2>2. Parked' \subseteq Parked
    BY <1>1, <2>1 DEF Parked
  <2> QED
    BY <2>2, RoomStays DEF BioInv
<1> QED
  BY <1>9, <1>10, <1>11, <1>12, <1>13, <1>14, <1>15 DEF BioInv

(* iderw() after the wakeup: the flags are set, and the loop ends.         *)
LEMMA iderwWokenKeeps ==
  ASSUME BioInv, NEW p \in Proc, iderwWoken(p)
  PROVE  BioInv'
<1>1. /\ pc[p] = "woken" /\ pc' = [pc EXCEPT ![p] = IF Synced(mine[p]) THEN "hold" ELSE "io"]
      /\ UNCHANGED <<buf, lru, idequeue, active, disk, mine>>
  BY DEF iderwWoken, Move
<1>2. Synced(mine[p]) /\ mine[p] \in Buf /\ buf[mine[p]].blockno \in Block
  BY <1>1, LockedBuffer DEF BioInv, FlagInv, Location
<1>3. pc' = [pc EXCEPT ![p] = "hold"]
  BY <1>1, <1>2
<1>4. /\ pc' \in [Proc -> Location] /\ mine' \in [Proc -> Buf \cup {None}]
      /\ OnlyProc(p) /\ pc'[p] = "hold"
  BY <1>1, <1>3, Moved DEF Location
<1>5. Types'
  BY <1>1, <1>4 DEF BioInv, Types
<1>6. UseInv'
  <2>1. \A c \in Buf : buf'[c].owner = p <=> mine'[p] = c /\ pc'[p] \in Locked
    BY <1>1, <1>4 DEF BioInv, UseInv, Locked
  <2>2. mine'[p] # None /\ buf'[mine'[p]].blockno # None
    BY <1>1, <1>2, BioConstants
  <2> QED
    BY <1>1, <1>4, <2>1, <2>2, UseStays
<1>7. FlagInv'
  BY <1>1, <1>2, <1>4 DEF BioInv, FlagInv, Synced, OnlyProc
<1>8. QueueInv' /\ QueueServed'
  BY <1>1, <1>4, QueueStays DEF SameRequest
<1>9. RefcntExact' /\ OneBuffer'
  BY <1>1, CountStays, BlocksStay DEF BioInv
<1>10. RoomInv'
  <2>1. \A q \in Proc : pc[q] \in {"iderw", "io"} => pc'[q] = pc[q]
    BY <1>1, <1>4 DEF OnlyProc
  <2>2. Parked' \subseteq Parked
    BY <1>1, <2>1 DEF Parked
  <2> QED
    BY <2>2, RoomStays DEF BioInv
<1> QED
  BY <1>5, <1>6, <1>7, <1>8, <1>9, <1>10 DEF BioInv

(* QueueServed: what the disk works on when it interrupts, and the process *)
(* that waits for it.                                                      *)
LEMMA HeadOfQueue ==
  ASSUME BioInv, active # None
  PROVE  /\ idequeue # << >> /\ Len(idequeue) \in Nat /\ Len(idequeue) >= 1
         /\ Head(idequeue) = idequeue[1] /\ idequeue[1] \in Buf
         /\ active = idestart(idequeue[1]) /\ active \in Request
         /\ \E p \in Proc : pc[p] = "io" /\ mine[p] = idequeue[1]
<1>1. idequeue # << >> /\ active = idestart(Head(idequeue)) /\ active \in Request
  BY DEF BioInv, QueueServed, Types
<1>2. /\ Len(idequeue) \in Nat /\ Len(idequeue) >= 1
      /\ Head(idequeue) = idequeue[1] /\ idequeue[1] \in Buf
  BY <1>1 DEF BioInv, Types
<1> QED
  BY <1>1, <1>2 DEF BioInv, QueueInv

(* A buffer in the queue makes a request.                                  *)
LEMMA QueuedRequests ==
  ASSUME BioInv, NEW i \in 1..Len(idequeue)
  PROVE  idestart(idequeue[i]) \in Request
<1>1. PICK q \in Proc : pc[q] = "io" /\ mine[q] = idequeue[i]
  BY DEF BioInv, QueueInv
<1>2. idequeue[i] \in Buf /\ buf[idequeue[i]].blockno \in Block
  BY <1>1, LockedBuffer DEF Location
<1>3. buf[idequeue[i]] \in BufRecord
  BY <1>2 DEF BioInv, Types
<1> QED
  BY <1>2, <1>3 DEF idestart, Request, BufRecord

(* What ideintr() does to process p, whose buffer b heads the queue.       *)
Interrupts(p, b, error) ==
  /\ pc[p] = "io" /\ mine[p] = b /\ b = idequeue[1] /\ buf[b].owner = p
  /\ buf[b].blockno \in Block /\ active = idestart(b)
  /\ OnlyProc(p) /\ pc'[p] = "woken" /\ mine' = mine /\ pc' \in [Proc -> Location]
  /\ OnlyBuf(b) /\ buf' \in [Buf -> BufRecord]
  /\ buf'[b].blockno = buf[b].blockno /\ buf'[b].refcnt = buf[b].refcnt
  /\ buf'[b].owner = p /\ buf'[b].valid = TRUE /\ buf'[b].dirty = FALSE
  /\ buf'[b].data = IF ~buf[b].dirty /\ ~error THEN disk[buf[b].blockno] ELSE buf[b].data
  /\ disk' = IF buf[b].dirty THEN [disk EXCEPT ![buf[b].blockno] = buf[b].data] ELSE disk

LEMMA ideintrDoes ==
  ASSUME BioInv, NEW error \in BOOLEAN, ideintr(error)
  PROVE  \E p \in Proc, b \in Buf : Interrupts(p, b, error)
<1>1. /\ active # None
      /\ disk' = IF active.write THEN [disk EXCEPT ![active.blockno] = active.data] ELSE disk
      /\ buf' = [buf EXCEPT ![Head(idequeue)] = Finished(Head(idequeue), error)]
      /\ pc' = [p \in Proc |->
                  IF pc[p] = "io" /\ mine[p] = Head(idequeue) THEN "woken" ELSE pc[p]]
      /\ mine' = mine
  BY DEF ideintr
<1>2. PICK p \in Proc : pc[p] = "io" /\ mine[p] = idequeue[1]
  BY <1>1, HeadOfQueue
<1> DEFINE b == idequeue[1]
           r == Finished(b, error)
<1>3. b \in Buf /\ Head(idequeue) = b /\ active = idestart(b)
  BY <1>1, HeadOfQueue
<1>4. /\ buf[b].blockno \in Block /\ buf[b].owner = p
      /\ \A q \in Proc : q # p /\ mine[q] = b => pc[q] # "io"
  BY <1>2, LockedBuffer DEF Location, Locked
<1>5. /\ active.write = buf[b].dirty /\ active.blockno = buf[b].blockno
      /\ active.data = buf[b].data
  BY <1>3 DEF idestart
<1>6. buf[b] \in BufRecord /\ disk[buf[b].blockno] \in Value
  BY <1>3, <1>4 DEF BioInv, Types
<1>7. /\ r \in BufRecord /\ r.blockno = buf[b].blockno /\ r.refcnt = buf[b].refcnt
      /\ r.owner = p /\ r.valid = TRUE /\ r.dirty = FALSE
      /\ r.data = IF ~buf[b].dirty /\ ~error THEN disk[buf[b].blockno] ELSE buf[b].data
  <2> DEFINE d == IF ~buf[b].dirty /\ ~error THEN disk[buf[b].blockno] ELSE buf[b].data
  <2>1. d \in Value
    BY <1>6 DEF BufRecord
  <2>2. r = [buf[b] EXCEPT !.data = d, !.valid = TRUE, !.dirty = FALSE]
    BY <1>5 DEF Finished
  <2> HIDE DEF d, r
  <2>3. /\ r \in BufRecord /\ r.blockno = buf[b].blockno /\ r.refcnt = buf[b].refcnt
        /\ r.owner = p /\ r.valid = TRUE /\ r.dirty = FALSE /\ r.data = d
    BY <1>4, <1>6, <2>1, <2>2 DEF BufRecord
  <2> QED
    BY <2>3 DEF d
<1> HIDE DEF r
<1>8. buf' = [buf EXCEPT ![b] = r]
  BY <1>1, <1>3 DEF r
<1>9. buf' \in [Buf -> BufRecord] /\ OnlyBuf(b) /\ buf'[b] = r
  BY <1>3, <1>7, <1>8, Changed
<1>10. pc'[p] = "woken" /\ OnlyProc(p) /\ pc' \in [Proc -> Location]
  BY <1>1, <1>2, <1>3, <1>4 DEF OnlyProc, BioInv, Types, Location
<1>11. disk' = IF buf[b].dirty THEN [disk EXCEPT ![buf[b].blockno] = buf[b].data] ELSE disk
  BY <1>1, <1>5
<1>12. Interrupts(p, b, error)
  BY <1>1, <1>2, <1>3, <1>4, <1>7, <1>9, <1>10, <1>11 DEF Interrupts
<1> QED
  BY <1>3, <1>12

(* ideintr(): the next request is started, and no other buffer is touched. *)
LEMMA ideintrKeeps ==
  ASSUME BioInv, NEW error \in BOOLEAN, ideintr(error)
  PROVE  BioInv'
<1> DEFINE n == Len(idequeue)
           s == Tail(idequeue)
<1>1. /\ active # None /\ idequeue' = s /\ lru' = lru
      /\ active' = IF s # << >> THEN idestart(Head(s)) ELSE None
  BY DEF ideintr
<1>2. PICK p \in Proc, b \in Buf : Interrupts(p, b, error)
  BY ideintrDoes
<1>3. n \in Nat /\ n >= 1 /\ idequeue[1] = b /\ idequeue # << >>
  BY <1>1, <1>2, HeadOfQueue DEF Interrupts
<1>4. /\ s \in Seq(Buf) /\ Len(s) = n - 1
      /\ \A i \in 1..(n - 1) : i + 1 \in 1..n /\ s[i] = idequeue[i + 1]
      /\ \A i \in 2..n : i - 1 \in 1..(n - 1) /\ s[i - 1] = idequeue[i]
  BY <1>3 DEF BioInv, Types
<1>5. s # << >> => Head(s) = s[1] /\ 1 \in 1..(n - 1)
  BY <1>3, <1>4
<1> HIDE DEF s
<1>6. \A i \in 1..n : i # 1 => idequeue[i] # b /\ idequeue[i] \in Buf
  BY <1>3 DEF BioInv, QueueInv, Types, n
<1>7. \A i \in 1..(n - 1) : s[i] # b /\ s[i] \in Buf
  BY <1>3, <1>4, <1>6
<1>8. Types'
  <2>1. s # << >> => idestart(Head(s)) \in Request
    <3>1. \A i \in 1..(n - 1) : idestart(s[i]) \in Request
      BY <1>4, QueuedRequests DEF n
    <3> QED
      BY <1>5, <3>1
  <2>2. disk' \in [Block -> Value]
    <3>1. buf[b] \in BufRecord /\ buf[b].blockno \in Block
      BY <1>2 DEF BioInv, Types, Interrupts
    <3>2. buf[b].data \in Value
      BY <3>1 DEF BufRecord
    <3> QED
      BY <1>2, <3>1, <3>2 DEF BioInv, Types, Interrupts
  <2>3. active' \in Request \cup {None} /\ idequeue' \in Seq(Buf)
    BY <1>1, <1>4, <2>1
  <2> QED
    BY <1>1, <1>2, <2>2, <2>3 DEF BioInv, Types, Interrupts
<1>9. UseInv'
  <2>1. /\ OnlyProc(p) /\ mine'[p] = b /\ pc'[p] = "woken" /\ pc'[p] \in Locked
        /\ buf[b].owner = p /\ buf[b].blockno # None /\ b # None
    BY <1>2, BioConstants DEF Interrupts, Locked
  <2>2. \A c \in Buf : buf'[c].blockno = buf[c].blockno /\ buf'[c].owner = buf[c].owner
    BY <1>2 DEF Interrupts, OnlyBuf
  <2>3. \A c \in Buf : buf[c].owner = p <=> b = c
    BY <1>2 DEF BioInv, UseInv, Interrupts, Locked
  <2> QED
    BY <2>1, <2>2, <2>3, UseStays
<1>10. FlagInv'
  <2>1. /\ OnlyProc(p) /\ OnlyBuf(b) /\ buf'[b].valid = TRUE /\ buf'[b].dirty = FALSE
        /\ buf'[b].blockno # None /\ pc'[p] = "woken" /\ mine'[p] = b
    BY <1>2, BioConstants DEF Interrupts
  <2>2. Synced(mine[p])'
    BY <2>1 DEF Synced
  <2>3. \A q \in Proc : q # p /\ mine[q] = b => pc[q] \notin Locked
    BY <1>2, LockedBuffer DEF Interrupts, Locked, Location
  <2> QED
    BY <2>1, <2>2, <2>3, FlagStays
<1>11. QueueInv'
  <2>1. \A i, j \in 1..(n - 1) : s[i] = s[j] => i = j
    BY <1>3, <1>4 DEF BioInv, QueueInv, n
  <2>2. \A q \in Proc : pc[q] = "io" /\ mine[q] # b => pc'[q] = "io" /\ mine'[q] = mine[q]
    BY <1>2 DEF Interrupts, OnlyProc
  <2>3. \A i \in 1..(n - 1) : \E q \in Proc : pc'[q] = "io" /\ mine'[q] = s[i]
    <3> TAKE i \in 1..(n - 1)
    <3>1. PICK q \in Proc : pc[q] = "io" /\ mine[q] = s[i]
      BY <1>4 DEF BioInv, QueueInv, n
    <3> QED
      BY <1>7, <2>2, <3>1
  <2>4. \A q \in Proc : pc'[q] = "io" => pc[q] = "io" /\ mine'[q] = mine[q] /\ mine[q] # b
    <3>1. \A q \in Proc : q # p /\ mine[q] = b => pc[q] # "io"
      BY <1>2, LockedBuffer DEF Interrupts, Locked, Location
    <3> QED
      BY <1>2, <3>1 DEF Interrupts, OnlyProc
  <2>5. \A q \in Proc : pc'[q] = "io" => \E i \in 1..(n - 1) : s[i] = mine'[q]
    <3> TAKE q \in Proc
    <3> HAVE pc'[q] = "io"
    <3>1. PICK i \in 1..n : idequeue[i] = mine[q]
      BY <2>4 DEF BioInv, QueueInv, n
    <3>2. i # 1
      BY <1>3, <2>4, <3>1
    <3>3. i \in 2..n
      BY <1>3, <3>2
    <3> QED
      BY <1>4, <2>4, <3>1, <3>3
  <2> QED
    BY <1>1, <1>4, <2>1, <2>3, <2>5 DEF QueueInv
<1>12. QueueServed'
  <2>1. CASE s = << >>
    BY <1>1, <2>1 DEF QueueServed
  <2>2. CASE s # << >>
    <3>1. Head(s) \in Buf /\ Head(s) # b
      BY <1>5, <1>7, <2>2
    <3>2. idestart(Head(s)) = idestart(Head(idequeue))'
      BY <1>1, <1>2, <3>1 DEF idestart, Interrupts, OnlyBuf
    <3>3. idestart(Head(s)) # None
      <4>1. active' = idestart(Head(s)) /\ active' \in Request \cup {None}
        BY <1>1, <1>8, <2>2 DEF Types
      <4>2. \E i \in 1..n : Head(s) = idequeue[i]
        BY <1>4, <1>5, <2>2
      <4>3. idestart(Head(s)) \in Request
        BY <4>2, QueuedRequests DEF n
      <4> QED
        BY <4>3, BioConstants
    <3> QED
      BY <1>1, <2>2, <3>2, <3>3 DEF QueueServed
  <2> QED
    BY <2>1, <2>2
<1>13. RefcntExact' /\ OneBuffer'
  <2>1. /\ mine' = mine
        /\ \A c \in Buf : buf'[c].refcnt = buf[c].refcnt /\ buf'[c].blockno = buf[c].blockno
    BY <1>2 DEF Interrupts, OnlyBuf
  <2> QED
    BY <2>1, CountStays, BlocksStay DEF BioInv
<1>14. RoomInv'
  <2>1. \A c \in Parked' : c # b
    BY <1>2 DEF Parked, Interrupts
  <2>2. Parked' \subseteq Parked
    BY <1>2, <2>1 DEF Parked, Interrupts, OnlyProc, OnlyBuf
  <2> QED
    BY <2>2, RoomStays DEF BioInv
<1> QED
  BY <1>8, <1>9, <1>10, <1>11, <1>12, <1>13, <1>14 DEF BioInv
-----------------------------------------------------------------------------
(* binit(): every buffer is in the list.                                   *)
LEMMA ListHasAll ==
  SetToSeq(Buf) \in Seq(Buf) /\ Len(SetToSeq(Buf)) = Cardinality(Buf) /\ ToSet(SetToSeq(Buf)) = Buf
<1> DEFINE n == Cardinality(Buf)
           s == SetToSeq(Buf)
<1>1. n \in Nat /\ ExistsBijection(1..n, Buf)
  BY BioConstants, FS_CardinalityType
<1>2. PICK g : g \in Bijection(1..n, Buf)
  BY <1>1 DEF ExistsBijection
<1>3. g \in [1..n -> Buf] /\ IsInjective(g)
  BY <1>2 DEF Bijection, Injection, IsInjective
<1>4. s \in [1..n -> Buf] /\ IsInjective(s)
  <2>1. \E f \in [1..n -> Buf] : IsInjective(f)
    BY <1>3
  <2> QED
    BY <2>1, Zenon DEF SetToSeq
<1> HIDE DEF s
<1>5. s \in Injection(1..n, Buf)
  BY <1>4 DEF Injection, IsInjective
<1>6. Cardinality(1..n) = n
  BY <1>1, FS_Interval
<1> HIDE DEF n
<1>7. s \in Surjection(1..n, Buf)
  BY <1>5, <1>6, BioConstants, FS_Injection DEF n
<1>8. s \in Seq(Buf) /\ Len(s) = n /\ DOMAIN s = 1..n
  BY <1>1, <1>4
<1>9. ToSet(s) = Buf
  BY <1>4, <1>7, <1>8 DEF ToSet, Surjection
<1> QED
  BY <1>8, <1>9 DEF n, s

(* After binit() nothing is in use.                                        *)
LEMMA BioInit == Init => BioInv /\ Coherent /\ NoPanic /\ RunOut
<1> SUFFICES ASSUME Init PROVE BioInv /\ Coherent /\ NoPanic /\ RunOut
  OBVIOUS
<1>1. PICK v \in Value :
        buf = [b \in Buf |-> [blockno |-> None, refcnt |-> 0, valid |-> FALSE, dirty |-> FALSE,
                              data |-> v, owner |-> None]]
  BY DEF Init
<1>2. /\ lru = SetToSeq(Buf) /\ idequeue = << >> /\ active = None /\ disk \in [Block -> Value]
      /\ pc = [p \in Proc |-> "idle"] /\ mine = [p \in Proc |-> None]
  BY DEF Init
<1>3. /\ buf \in [Buf -> BufRecord]
      /\ \A b \in Buf : /\ buf[b].blockno = None /\ buf[b].refcnt = 0 /\ buf[b].valid = FALSE
                        /\ buf[b].dirty = FALSE /\ buf[b].owner = None
  BY <1>1 DEF BufRecord
<1>4. Types
  BY <1>2, <1>3, ListHasAll DEF Types, Location
<1>5. UseInv /\ FlagInv /\ OneBuffer /\ Coherent /\ NoPanic /\ RunOut
  BY <1>2, <1>3, BioConstants DEF UseInv, FlagInv, OneBuffer, Coherent, NoPanic, RunOut, Synced
<1>6. QueueInv /\ QueueServed
  BY <1>2 DEF QueueInv, QueueServed
<1>7. RefcntExact
  <2>1. \A b \in Buf : {p \in Proc : mine[p] = b} = {}
    BY <1>2, BioConstants
  <2> QED
    BY <1>3, <2>1, FS_EmptySet DEF RefcntExact
<1>8. RoomInv
  <2>1. Parked = {}
    BY <1>3 DEF Parked
  <2> QED
    BY <2>1, BioConstants, FS_EmptySet DEF RoomInv
<1> QED
  BY <1>4, <1>5, <1>6, <1>7, <1>8 DEF BioInv

(* Every step keeps the invariant.                                         *)
LEMMA BioNext == BioInv /\ [Next]_vars => BioInv'
<1> SUFFICES ASSUME BioInv, [Next]_vars PROVE BioInv'
  OBVIOUS
<1>1. CASE UNCHANGED vars
  <2>0. buf' = buf /\ lru' = lru /\ idequeue' = idequeue /\ active' = active /\ disk' = disk /\ pc' = pc /\ mine' = mine
    BY <1>1 DEF vars
  <2>1. Types' /\ UseInv'
    BY <2>0, Zenon DEF BioInv, Types, UseInv
  <2>2. FlagInv'
    BY <2>0, Zenon DEF BioInv, FlagInv, Synced
  <2>3. QueueInv' /\ QueueServed'
    BY <2>0, Zenon DEF BioInv, QueueInv, QueueServed, idestart
  <2>4. RefcntExact' /\ OneBuffer' /\ RoomInv'
    BY <2>0, Zenon DEF BioInv, RefcntExact, OneBuffer, RoomInv, Parked
  <2> QED
    BY <2>1, <2>2, <2>3, <2>4 DEF BioInv
<1>2. ASSUME NEW p \in Proc, NEW n \in Block, bgetCached(p, n) \/ bgetRecycle(p, n)
      PROVE  BioInv'
  BY <1>2, bgetCachedKeeps, bgetRecycleKeeps
<1>3. ASSUME NEW p \in Proc, Continue(p)
      PROVE  BioInv'
  BY <1>3, LockKeeps, iderwKeeps, iderwWokenKeeps, brelseKeeps, UnrefKeeps, <1>1 DEF Continue, panic
<1>4. ASSUME NEW p \in Proc, NEW v \in Value, bwrite(p, v) \/ log_write(p, v)
      PROVE  BioInv'
  BY <1>4, bwriteKeeps, log_writeKeeps
<1>5. CASE Interrupt
  BY <1>5, ideintrKeeps DEF Interrupt
<1> QED
  BY <1>1, <1>2, <1>3, <1>4, <1>5 DEF Next

(* The invariant holds throughout.                                         *)
LEMMA BioStays == Spec => []BioInv
<1>1. Init => BioInv
  BY BioInit
<1> QED
  BY <1>1, BioNext, PTL DEF Spec

(* The disk works exactly while idequeue is not empty, on the request at   *)
(* its head: iderw() and ideintr() start every request once.               *)
THEOREM QueueStaysServed == Spec => []QueueServed
<1>1. BioInv => QueueServed
  BY DEF BioInv
<1> QED
  BY <1>1, BioStays, PTL

(* refcnt counts the processes that use a buffer, however few buffers      *)
(* there are.                                                              *)
THEOREM RefcntStaysExact == Spec => []RefcntExact
<1>1. BioInv => RefcntExact
  BY DEF BioInv
<1> QED
  BY <1>1, BioStays, PTL
-----------------------------------------------------------------------------
(* No step reaches a panic but the one of bget().                          *)
LEMMA NobodyPanics ==
  ASSUME BioInv, NoPanic, [Next]_vars
  PROVE  NoPanic'
<1>1. CASE UNCHANGED vars
  BY <1>1 DEF vars, NoPanic
<1>2. ASSUME NEW p \in Proc, NEW n \in Block, bgetCached(p, n)
      PROVE  NoPanic'
  BY <1>2 DEF bgetCached, Move, NoPanic, BioInv, Types
<1>3. ASSUME NEW p \in Proc, NEW n \in Block, bgetRecycle(p, n)
      PROVE  NoPanic'
  <2>1. pc' = [pc EXCEPT ![p] = "lock"] \/ pc' = [pc EXCEPT ![p] = "nobuf"]
    BY <1>3, Zenon DEF bgetRecycle, Move
  <2> QED
    BY <2>1 DEF NoPanic, BioInv, Types
<1>4. ASSUME NEW p \in Proc, Lock(p) \/ iderwWoken(p) \/ brelseUnref(p)
      PROVE  NoPanic'
  BY <1>4 DEF Lock, iderwWoken, brelseUnref, Move, NoPanic, BioInv, Types
<1>5. ASSUME NEW p \in Proc, pc[p] \in Locked, pc[p] = "iderw" => ~Synced(mine[p]),
             iderw(p) \/ brelse(p) \/ \E v \in Value : bwrite(p, v) \/ log_write(p, v)
      PROVE  NoPanic'
  <2>1. buf[mine[p]].owner = p
    BY <1>5, LockedBuffer DEF Locked, Location
  <2> QED
    BY <1>5, <2>1 DEF iderw, brelse, bwrite, log_write, Move, NoPanic, BioInv, Types
<1>6. ASSUME NEW p \in Proc,
             iderw(p) \/ brelse(p) \/ \E v \in Value : bwrite(p, v) \/ log_write(p, v)
      PROVE  NoPanic'
  <2>1. pc[p] \in {"iderw", "hold"} /\ (pc[p] = "iderw" => ~Synced(mine[p]))
    BY <1>6 DEF iderw, brelse, bwrite, log_write, Move, BioInv, FlagInv
  <2>2. pc[p] \in Locked
    BY <2>1 DEF Locked
  <2> QED
    BY <1>5, <1>6, <2>1, <2>2
<1>7. CASE Interrupt
  BY <1>7 DEF Interrupt, ideintr, NoPanic
<1> QED
  BY <1>1, <1>2, <1>3, <1>4, <1>6, <1>7 DEF Next, Continue, panic

(* RunOut: a step that takes and gives back no buffer, brings no process   *)
(* to the panic and cleans no spare buffer.                                *)
LEMMA RunOutStays ==
  ASSUME RunOut, mine' = mine, \A p \in Proc : pc'[p] = "nobuf" => pc[p] = "nobuf",
         \A b \in Spare : buf'[b].dirty = buf[b].dirty
  PROVE  RunOut'
<1>1. Spare' = Spare
  BY DEF Spare
<1> QED
  BY <1>1 DEF RunOut

(* bget(): a buffer that is spare when none is unused is pinned, and       *)
(* RoomInv bounds those.                                                   *)
LEMMA SparePinned ==
  ASSUME BioInv, \A b \in Buf : ~Unused(b)
  PROVE  (\A b \in Spare : buf[b].dirty) /\ Cardinality(Spare) <= MaxPinned
<1>1. \A b \in Spare : b \in Buf /\ buf[b].dirty
  BY UsersCounted DEF Spare, Unused
<1>2. Spare \subseteq Parked
  BY <1>1 DEF Spare, Parked
<1>3. IsFiniteSet(Parked)
  BY BioConstants, FS_Subset DEF Parked
<1>4. /\ Cardinality(Spare) <= Cardinality(Parked)
      /\ Cardinality(Spare) \in Nat /\ Cardinality(Parked) \in Nat
  BY <1>2, <1>3, FS_Subset, FS_CardinalityType
<1> QED
  BY <1>1, <1>4, BioConstants DEF BioInv, RoomInv

(* A step under bcache.lock that panics finds the buffers run out; no step *)
(* under bcache.lock follows, and the others change no spare buffer.       *)
LEMMA RunOutNext ==
  ASSUME BioInv, RunOut, [Next]_vars
  PROVE  RunOut'
<1>1. CASE UNCHANGED vars
  BY <1>1, RunOutStays DEF vars
<1>2. ASSUME NEW p \in Proc, (\E n \in Block : bgetCached(p, n)) \/ brelseUnref(p)
      PROVE  RunOut'
  BY <1>2 DEF bgetCached, brelseUnref, LockFree, Move, RunOut, BioInv, Types
<1>3. ASSUME NEW p \in Proc, NEW n \in Block, bgetRecycle(p, n)
      PROVE  RunOut'
  <2>1. CASE \E b \in Buf : Unused(b)
    <3>1. LockFree /\ pc' = [pc EXCEPT ![p] = "lock"]
      BY <1>3, <2>1, Zenon DEF bgetRecycle, Move
    <3> QED
      BY <3>1 DEF LockFree, RunOut, BioInv, Types
  <2>2. CASE \A b \in Buf : ~Unused(b)
    <3>1. UNCHANGED <<buf, mine>>
      BY <1>3, <2>2 DEF bgetRecycle
    <3> QED
      BY <2>2, <3>1, SparePinned DEF RunOut, Spare
  <2> QED
    BY <2>1, <2>2
<1>4. ASSUME NEW p \in Proc,
             Lock(p) \/ iderw(p) \/ iderwWoken(p) \/ brelse(p)
               \/ \E v \in Value : bwrite(p, v) \/ log_write(p, v)
      PROVE  RunOut'
  <2>1. mine' = mine /\ \A q \in Proc : pc'[q] = "nobuf" => pc[q] = "nobuf"
    BY <1>4 DEF Lock, iderw, iderwWoken, brelse, bwrite, log_write, Move, BioInv, Types
  <2>2. \A b \in Spare : b \in Buf /\ b # mine[p]
    BY DEF Spare
  <2>3. \A b \in Spare : buf'[b].dirty = buf[b].dirty
    BY <1>4, <2>2 DEF Lock, iderw, iderwWoken, brelse, bwrite, log_write, BioInv, Types
  <2> QED
    BY <2>1, <2>3, RunOutStays
<1>5. CASE Interrupt
  <2>1. /\ active # None /\ mine' = mine
        /\ \A q \in Proc : pc'[q] = "nobuf" => pc[q] = "nobuf"
        /\ \E r : buf' = [buf EXCEPT ![Head(idequeue)] = r]
    BY <1>5 DEF Interrupt, ideintr
  <2>2. Head(idequeue) \in Buf /\ \E q \in Proc : mine[q] = Head(idequeue)
    <3>1. idequeue # << >>
      BY <2>1 DEF BioInv, QueueServed
    <3>2. 1 \in 1..Len(idequeue) /\ Head(idequeue) = idequeue[1] /\ idequeue[1] \in Buf
      BY <3>1 DEF BioInv, Types
    <3> QED
      BY <3>2 DEF BioInv, QueueInv
  <2>3. \A b \in Spare : b \in Buf /\ b # Head(idequeue)
    BY <2>2 DEF Spare
  <2>4. \A b \in Spare : buf'[b].dirty = buf[b].dirty
    BY <2>1, <2>3 DEF BioInv, Types
  <2> QED
    BY <2>1, <2>4, RunOutStays
<1> QED
  BY <1>1, <1>2, <1>3, <1>4, <1>5 DEF Next, Continue, panic

(* bget(), brelse(), iderw(): the counts are exact, and no panic is        *)
(* reachable but that of bget(), which happens only when every buffer is   *)
(* in use or pinned by the log, whatever NBUF and NPROC are.               *)
THEOREM BuffersStaySound == Spec => []BuffersSound
<1>1. Init => NoPanic /\ RunOut
  BY BioInit
<1>2. BioInv /\ NoPanic /\ RunOut /\ [Next]_vars => NoPanic' /\ RunOut'
  BY NobodyPanics, RunOutNext
<1>3. BioInv /\ NoPanic /\ RunOut => BuffersSound
  BY DEF BioInv, NoPanic, RunOut, BuffersSound, PanicJustified
<1> QED
  BY <1>1, <1>2, <1>3, BioStays, PTL DEF Spec
-----------------------------------------------------------------------------
(* The cache implements the block store.                                   *)

(* The contents and the holder of block n, by its buffer if it has one.    *)
View(n) ==
  /\ \A b \in Buf : buf[b].blockno = n =>
       /\ Contents[n] = IF buf[b].valid THEN buf[b].data ELSE disk[n]
       /\ Holder[n] = IF buf[b].valid THEN buf[b].owner ELSE None
  /\ NotCached(n) => Contents[n] = disk[n] /\ Holder[n] = None

Views ==
  /\ \A n \in Block : View(n)
  /\ DOMAIN Contents = Block /\ DOMAIN Holder = Block
  /\ Contents = [n \in Block |-> Contents[n]] /\ Holder = [n \in Block |-> Holder[n]]

LEMMA ViewsHold == OneBuffer => Views
<1> SUFFICES ASSUME OneBuffer PROVE Views
  OBVIOUS
<1>1. ASSUME NEW n \in Block PROVE View(n)
  <2>1. ASSUME NEW b \in Buf, buf[b].blockno = n
        PROVE  /\ Contents[n] = IF buf[b].valid THEN buf[b].data ELSE disk[n]
               /\ Holder[n] = IF buf[b].valid THEN buf[b].owner ELSE None
    <3>1. BufOf(n) = b
      BY <2>1, BufOfIs, BioConstants
    <3>2. ~NotCached(n)
      BY <2>1 DEF NotCached
    <3> QED
      BY <3>1, <3>2 DEF Contents, Holder
  <2>2. NotCached(n) => Contents[n] = disk[n] /\ Holder[n] = None
    BY DEF Contents, Holder
  <2> QED
    BY <2>1, <2>2 DEF View
<1> QED
  BY <1>1 DEF Views, Contents, Holder

(* A step that leaves block n alone: the disk, the blocks of the buffers   *)
(* and what the buffer of n shows.                                         *)
LEMMA ViewStays ==
  ASSUME NEW n \in Block, View(n), View(n)', disk'[n] = disk[n],
         \A c \in Buf : buf'[c].blockno = n <=> buf[c].blockno = n,
         \A c \in Buf : buf[c].blockno = n =>
           /\ buf'[c].valid = buf[c].valid
           /\ buf[c].valid => buf'[c].data = buf[c].data /\ buf'[c].owner = buf[c].owner
  PROVE  Contents'[n] = Contents[n] /\ Holder'[n] = Holder[n]
<1>1. CASE NotCached(n)
  <2>1. NotCached(n)'
    BY <1>1 DEF NotCached
  <2> QED
    BY <1>1, <2>1 DEF View
<1>2. CASE ~NotCached(n)
  <2>1. PICK c \in Buf : buf[c].blockno = n
    BY <1>2 DEF NotCached
  <2>2. buf'[c].blockno = n
    BY <2>1
  <2>3. /\ Contents[n] = IF buf[c].valid THEN buf[c].data ELSE disk[n]
        /\ Holder[n] = IF buf[c].valid THEN buf[c].owner ELSE None
    BY <2>1 DEF View
  <2>4. /\ Contents'[n] = IF buf'[c].valid THEN buf'[c].data ELSE disk'[n]
        /\ Holder'[n] = IF buf'[c].valid THEN buf'[c].owner ELSE None
    BY <2>2 DEF View
  <2> QED
    BY <2>1, <2>3, <2>4
<1> QED
  BY <1>1, <1>2

(* A step that leaves every block alone is a stutter of the block store.   *)
LEMMA StoreStutters ==
  ASSUME Views, Views', \A n \in Block : Contents'[n] = Contents[n] /\ Holder'[n] = Holder[n]
  PROVE  UNCHANGED Store!vars
BY DEF Views, Store!vars

(* A step of p with buffer b that leaves the other buffers, the blocks and *)
(* the other blocks of the disk alone changes block n at most.             *)
LEMMA OneBlock ==
  ASSUME Views, Views', NEW b \in Buf, OnlyBuf(b), NEW n \in Block,
         buf[b].blockno = n, buf'[b].blockno = n,
         \A m \in Block : m # n => disk'[m] = disk[m]
  PROVE  /\ \A m \in Block : m # n => Contents'[m] = Contents[m] /\ Holder'[m] = Holder[m]
         /\ Contents[n] = IF buf[b].valid THEN buf[b].data ELSE disk[n]
         /\ Holder[n] = IF buf[b].valid THEN buf[b].owner ELSE None
         /\ Contents'[n] = IF buf'[b].valid THEN buf'[b].data ELSE disk'[n]
         /\ Holder'[n] = IF buf'[b].valid THEN buf'[b].owner ELSE None
<1>1. ASSUME NEW m \in Block, m # n
      PROVE  Contents'[m] = Contents[m] /\ Holder'[m] = Holder[m]
  <2>1. View(m) /\ View(m)'
    BY DEF Views
  <2>2. \A c \in Buf : buf'[c].blockno = m <=> buf[c].blockno = m
    BY <1>1 DEF OnlyBuf
  <2>3. \A c \in Buf : buf[c].blockno = m => buf'[c] = buf[c]
    BY <1>1 DEF OnlyBuf
  <2> QED
    BY <1>1, <2>1, <2>2, <2>3, ViewStays
<1>2. View(n) /\ View(n)'
  BY DEF Views
<1> QED
  BY <1>1, <1>2 DEF View

(* The three steps of the block store.                                     *)
LEMMA IsGet ==
  ASSUME Views, Views', NEW p \in Proc, NEW n \in Block, Holder[n] = None, Holder'[n] = p,
         Contents'[n] = Contents[n],
         \A m \in Block : m # n => Contents'[m] = Contents[m] /\ Holder'[m] = Holder[m]
  PROVE  Store!Next
<1>1. Contents' = Contents
  BY DEF Views
<1>2. Holder' = [Holder EXCEPT ![n] = p]
  BY DEF Views
<1>3. Store!Get(p, n)
  BY <1>1, <1>2 DEF Store!Get
<1> QED
  BY <1>3 DEF Store!Next

LEMMA IsRelease ==
  ASSUME Views, Views', NEW p \in Proc, NEW n \in Block, Holder[n] = p, Holder'[n] = None,
         Contents'[n] = Contents[n],
         \A m \in Block : m # n => Contents'[m] = Contents[m] /\ Holder'[m] = Holder[m]
  PROVE  Store!Next
<1>1. Contents' = Contents
  BY DEF Views
<1>2. Holder' = [Holder EXCEPT ![n] = None]
  BY DEF Views
<1>3. Store!Release(p, n)
  BY <1>1, <1>2 DEF Store!Release
<1> QED
  BY <1>3 DEF Store!Next

LEMMA IsPut ==
  ASSUME Views, Views', NEW p \in Proc, NEW n \in Block, NEW v \in Value,
         Holder[n] = p, Holder'[n] = p, Contents'[n] = v,
         \A m \in Block : m # n => Contents'[m] = Contents[m] /\ Holder'[m] = Holder[m]
  PROVE  Store!Next
<1>1. Contents' = [Contents EXCEPT ![n] = v]
  BY DEF Views
<1>2. Holder' = Holder
  BY DEF Views
<1>3. Store!Put(p, n, v)
  BY <1>1, <1>2 DEF Store!Put
<1> QED
  BY <1>3 DEF Store!Next

(* The step implements one of the block store or a stutter of it, and      *)
(* clean buffers stay equal to the disk.                                   *)
Implements == Coherent' /\ [Store!Next]_(Store!vars)

(* A step that changes no flag, no contents and no owner of a buffer.      *)
LEMMA QuietImplements ==
  ASSUME Coherent, Views, Views', disk' = disk,
         \A c \in Buf : /\ SameRequest(c)
                        /\ buf'[c].valid = buf[c].valid /\ buf'[c].owner = buf[c].owner
  PROVE  Implements
<1>1. Coherent'
  BY DEF Coherent, Synced, SameRequest
<1>2. ASSUME NEW n \in Block
      PROVE  Contents'[n] = Contents[n] /\ Holder'[n] = Holder[n]
  <2>1. View(n) /\ View(n)'
    BY DEF Views
  <2> QED
    BY <2>1, ViewStays DEF SameRequest
<1> QED
  BY <1>1, <1>2, StoreStutters DEF Implements

(* bget(): a recycled buffer is clean, so its block is on the disk.        *)
LEMMA bgetRecycleImplements ==
  ASSUME BioInv, Coherent, Views, Views', NEW p \in Proc, NEW n \in Block, bgetRecycle(p, n)
  PROVE  Implements
<1>1. disk' = disk /\ NotCached(n)
  BY DEF bgetRecycle
<1>2. CASE \E b \in Buf : Unused(b)
  <2>1. PICK i \in DOMAIN lru :
          /\ Unused(lru[i])
          /\ buf' = [buf EXCEPT ![lru[i]].blockno = n, ![lru[i]].valid = FALSE,
                                ![lru[i]].dirty = FALSE, ![lru[i]].refcnt = 1]
    BY <1>2, Zenon DEF bgetRecycle
  <2> DEFINE b == lru[i]
  <2>2. b \in Buf /\ buf[b] \in BufRecord /\ buf \in [Buf -> BufRecord]
    BY DEF BioInv, Types
  <2>3. OnlyBuf(b) /\ buf'[b].blockno = n /\ buf'[b].valid = FALSE
    <3>1. buf'[b].blockno = n /\ buf'[b].valid = FALSE
      BY <2>1, <2>2 DEF BufRecord
    <3>2. \A c \in Buf : c # b => buf'[c] = buf[c]
      BY <2>1, <2>2
    <3> QED
      BY <3>1, <3>2 DEF OnlyBuf
  <2>4. buf[b].refcnt = 0 /\ ~buf[b].dirty
    BY <2>1 DEF Unused
  <2> HIDE DEF b
  <2>5. buf[b].owner = None
    <3>1. buf[b].owner \in Proc \cup {None}
      BY <2>2 DEF BufRecord
    <3>2. \A q \in Proc : mine[q] # b
      BY <2>2, <2>4, UsersCounted
    <3> QED
      BY <2>2, <3>1, <3>2 DEF BioInv, UseInv
  <2>6. Coherent'
    BY <1>1, <2>2, <2>3 DEF Coherent, Synced, OnlyBuf
  <2>7. ASSUME NEW m \in Block
        PROVE  Contents'[m] = Contents[m] /\ Holder'[m] = Holder[m]
    <3>1. View(m) /\ View(m)'
      BY DEF Views
    <3>2. CASE m = n
      <4>1. Contents[m] = disk[m] /\ Holder[m] = None
        BY <1>1, <3>1, <3>2 DEF View
      <4>2. Contents'[m] = disk'[m] /\ Holder'[m] = None
        BY <2>2, <2>3, <3>1, <3>2 DEF View
      <4> QED
        BY <1>1, <4>1, <4>2
    <3>3. CASE m # n /\ m = buf[b].blockno
      <4>1. \A c \in Buf : c # b => buf[c].blockno # m
        BY <2>2, <3>3, BioConstants DEF BioInv, OneBuffer
      <4>2. NotCached(m)'
        BY <2>3, <3>3, <4>1 DEF NotCached, OnlyBuf
      <4>3. Contents'[m] = disk'[m] /\ Holder'[m] = None
        BY <3>1, <4>2 DEF View
      <4>4. buf[b].valid => buf[b].data = disk[m]
        BY <2>2, <2>4, <3>3 DEF Coherent, Synced
      <4>5. Contents[m] = disk[m] /\ Holder[m] = None
        BY <2>2, <2>5, <3>1, <3>3, <4>4 DEF View
      <4> QED
        BY <1>1, <4>3, <4>5
    <3>4. CASE m # n /\ m # buf[b].blockno
      <4>1. \A c \in Buf : buf'[c].blockno = m <=> buf[c].blockno = m
        BY <2>2, <2>3, <3>4 DEF OnlyBuf
      <4>2. \A c \in Buf : buf[c].blockno = m => buf'[c] = buf[c]
        BY <2>3, <3>4 DEF OnlyBuf
      <4> QED
        BY <1>1, <3>1, <4>1, <4>2, ViewStays
    <3> QED
      BY <3>2, <3>3, <3>4
  <2> QED
    BY <2>6, <2>7, StoreStutters DEF Implements
<1>3. CASE ~\E b \in Buf : Unused(b)
  <2>1. buf' = buf
    BY <1>3 DEF bgetRecycle
  <2> QED
    BY <1>1, <2>1, QuietImplements DEF SameRequest
<1> QED
  BY <1>2, <1>3

(* A process that locks a valid buffer has its block.                      *)
LEMMA LockImplements ==
  ASSUME BioInv, Coherent, Views, Views', NEW p \in Proc, Lock(p)
  PROVE  Implements
<1> DEFINE b == mine[p]
           n == buf[b].blockno
<1>1. /\ pc[p] = "lock" /\ buf[b].owner = None /\ buf' = [buf EXCEPT ![b].owner = p]
      /\ disk' = disk
  BY DEF Lock, Move
<1>2. b \in Buf /\ buf[b] \in BufRecord /\ buf \in [Buf -> BufRecord] /\ n \in Block
  BY <1>1, LockedBuffer DEF BioInv, Types, Location
<1>3. OnlyBuf(b) /\ SameRequest(b) /\ buf'[b].valid = buf[b].valid /\ buf'[b].owner = p
  <2>1. SameRequest(b) /\ buf'[b].valid = buf[b].valid /\ buf'[b].owner = p
    BY <1>1, <1>2 DEF BufRecord, SameRequest
  <2>2. \A c \in Buf : c # b => buf'[c] = buf[c]
    BY <1>1, <1>2
  <2> QED
    BY <2>1, <2>2 DEF OnlyBuf
<1> HIDE DEF b
<1>4. Coherent'
  BY <1>1, <1>2, <1>3 DEF Coherent, Synced, OnlyBuf, SameRequest
<1>5. /\ \A m \in Block : m # n => Contents'[m] = Contents[m] /\ Holder'[m] = Holder[m]
      /\ Contents[n] = IF buf[b].valid THEN buf[b].data ELSE disk[n]
      /\ Holder[n] = IF buf[b].valid THEN buf[b].owner ELSE None
      /\ Contents'[n] = IF buf'[b].valid THEN buf'[b].data ELSE disk'[n]
      /\ Holder'[n] = IF buf'[b].valid THEN buf'[b].owner ELSE None
  BY <1>1, <1>2, <1>3, OneBlock DEF SameRequest
<1>6. Contents'[n] = Contents[n] /\ Holder[n] = None
  BY <1>1, <1>3, <1>5 DEF SameRequest
<1>7. CASE buf[b].valid
  <2>1. Holder'[n] = p
    BY <1>3, <1>5, <1>7
  <2> QED
    BY <1>2, <1>4, <1>5, <1>6, <2>1, IsGet DEF Implements
<1>8. CASE ~buf[b].valid
  <2>1. Holder'[n] = None
    BY <1>3, <1>5, <1>8
  <2> QED
    BY <1>4, <1>5, <1>6, <2>1, StoreStutters DEF Implements
<1> QED
  BY <1>7, <1>8

(* bwrite(), log_write(): the process that has the block changes it.       *)
LEMMA WriteImplements ==
  ASSUME BioInv, Coherent, Views, Views', NEW p \in Proc, NEW v \in Value,
         bwrite(p, v) \/ log_write(p, v)
  PROVE  Implements
<1> DEFINE b == mine[p]
           n == buf[b].blockno
<1>1. /\ pc[p] = "hold" /\ buf' = [buf EXCEPT ![b].data = v, ![b].dirty = TRUE]
      /\ disk' = disk
  BY DEF bwrite, log_write, Move
<1>2. /\ b \in Buf /\ buf[b] \in BufRecord /\ buf \in [Buf -> BufRecord] /\ n \in Block
      /\ buf[b].owner = p /\ buf[b].valid
  BY <1>1, LockedBuffer DEF BioInv, Types, FlagInv, Location, Locked
<1>3. /\ OnlyBuf(b) /\ buf'[b].blockno = n /\ buf'[b].valid = buf[b].valid /\ buf'[b].owner = p
      /\ buf'[b].data = v /\ buf'[b].dirty = TRUE
  <2>1. /\ buf'[b].blockno = n /\ buf'[b].valid = buf[b].valid /\ buf'[b].owner = p
        /\ buf'[b].data = v /\ buf'[b].dirty = TRUE
    BY <1>1, <1>2 DEF BufRecord
  <2>2. \A c \in Buf : c # b => buf'[c] = buf[c]
    BY <1>1, <1>2
  <2> QED
    BY <2>1, <2>2 DEF OnlyBuf
<1> HIDE DEF b
<1>4. Coherent'
  BY <1>1, <1>2, <1>3 DEF Coherent, Synced, OnlyBuf
<1>5. /\ \A m \in Block : m # n => Contents'[m] = Contents[m] /\ Holder'[m] = Holder[m]
      /\ Holder[n] = IF buf[b].valid THEN buf[b].owner ELSE None
      /\ Contents'[n] = IF buf'[b].valid THEN buf'[b].data ELSE disk'[n]
      /\ Holder'[n] = IF buf'[b].valid THEN buf'[b].owner ELSE None
  BY <1>1, <1>2, <1>3, OneBlock
<1>6. Holder[n] = p /\ Holder'[n] = p /\ Contents'[n] = v
  BY <1>2, <1>3, <1>5
<1> QED
  BY <1>2, <1>4, <1>5, <1>6, IsPut DEF Implements

(* brelse(): the block is given up unchanged.                              *)
LEMMA brelseImplements ==
  ASSUME BioInv, Coherent, Views, Views', NEW p \in Proc, brelse(p)
  PROVE  Implements
<1> DEFINE b == mine[p]
           n == buf[b].blockno
<1>1. pc[p] = "hold" /\ buf' = [buf EXCEPT ![b].owner = None] /\ disk' = disk
  BY DEF brelse, Move
<1>2. /\ b \in Buf /\ buf[b] \in BufRecord /\ buf \in [Buf -> BufRecord] /\ n \in Block
      /\ buf[b].owner = p /\ buf[b].valid
  BY <1>1, LockedBuffer DEF BioInv, Types, FlagInv, Location, Locked
<1>3. OnlyBuf(b) /\ SameRequest(b) /\ buf'[b].valid = buf[b].valid /\ buf'[b].owner = None
  <2>1. SameRequest(b) /\ buf'[b].valid = buf[b].valid /\ buf'[b].owner = None
    BY <1>1, <1>2 DEF BufRecord, SameRequest
  <2>2. \A c \in Buf : c # b => buf'[c] = buf[c]
    BY <1>1, <1>2
  <2> QED
    BY <2>1, <2>2 DEF OnlyBuf
<1> HIDE DEF b
<1>4. Coherent'
  BY <1>1, <1>2, <1>3 DEF Coherent, Synced, OnlyBuf, SameRequest
<1>5. /\ \A m \in Block : m # n => Contents'[m] = Contents[m] /\ Holder'[m] = Holder[m]
      /\ Contents[n] = IF buf[b].valid THEN buf[b].data ELSE disk[n]
      /\ Holder[n] = IF buf[b].valid THEN buf[b].owner ELSE None
      /\ Contents'[n] = IF buf'[b].valid THEN buf'[b].data ELSE disk'[n]
      /\ Holder'[n] = IF buf'[b].valid THEN buf'[b].owner ELSE None
  BY <1>1, <1>2, <1>3, OneBlock DEF SameRequest
<1>6. Contents'[n] = Contents[n] /\ Holder[n] = p /\ Holder'[n] = None
  BY <1>2, <1>3, <1>5 DEF SameRequest
<1> QED
  BY <1>2, <1>4, <1>5, <1>6, IsRelease DEF Implements

(* ideintr(): a read gives the waiting process the block, a write changes  *)
(* the disk to what the block is already.                                  *)
LEMMA InterruptImplements ==
  ASSUME GoodDisk, BioInv, Coherent, Views, Views', Interrupt
  PROVE  Implements
<1>1. ideintr(FALSE)
  BY DEF Interrupt, GoodDisk
<1>2. PICK p \in Proc, b \in Buf : Interrupts(p, b, FALSE)
  BY <1>1, ideintrDoes
<1> DEFINE n == buf[b].blockno
<1>3. /\ n \in Block /\ OnlyBuf(b) /\ buf'[b].blockno = n /\ buf[b].owner = p /\ buf'[b].owner = p
      /\ buf'[b].valid = TRUE /\ buf'[b].dirty = FALSE
      /\ disk \in [Block -> Value]
  BY <1>2 DEF Interrupts, BioInv, Types
<1>4. /\ buf'[b].data = IF ~buf[b].dirty THEN disk[n] ELSE buf[b].data
      /\ disk' = IF buf[b].dirty THEN [disk EXCEPT ![n] = buf[b].data] ELSE disk
  BY <1>2 DEF Interrupts
<1>5. \A m \in Block : m # n => disk'[m] = disk[m]
  BY <1>3, <1>4
<1>6. buf'[b].data = disk'[n]
  BY <1>3, <1>4
<1>7. (buf[b].dirty => buf[b].valid) /\ ~(buf[b].valid /\ ~buf[b].dirty)
  BY <1>2 DEF BioInv, FlagInv, Synced, Interrupts
<1>8. Coherent'
  <2>1. \A c \in Buf : c # b /\ buf[c].valid => buf[c].blockno \in Block /\ buf[c].blockno # n
    <3>1. \A c \in Buf : buf[c] \in BufRecord
      BY DEF BioInv, Types
    <3>2. \A c \in Buf : buf[c].valid => buf[c].blockno \in Block
      BY <3>1 DEF BioInv, FlagInv, BufRecord
    <3>3. n # None
      BY <1>3, BioConstants
    <3> QED
      BY <3>2, <3>3 DEF BioInv, OneBuffer
  <2>2. \A c \in Buf : c # b => buf'[c] = buf[c]
    BY <1>3 DEF OnlyBuf
  <2> QED
    BY <1>3, <1>5, <1>6, <2>1, <2>2 DEF Coherent, Synced
<1>9. /\ \A m \in Block : m # n => Contents'[m] = Contents[m] /\ Holder'[m] = Holder[m]
      /\ Contents[n] = IF buf[b].valid THEN buf[b].data ELSE disk[n]
      /\ Holder[n] = IF buf[b].valid THEN buf[b].owner ELSE None
      /\ Contents'[n] = IF buf'[b].valid THEN buf'[b].data ELSE disk'[n]
      /\ Holder'[n] = IF buf'[b].valid THEN buf'[b].owner ELSE None
  BY <1>3, <1>5, OneBlock
<1>10. Holder'[n] = p /\ Contents'[n] = Contents[n]
  BY <1>3, <1>4, <1>7, <1>9
<1>11. CASE buf[b].valid
  <2>1. Holder[n] = p
    BY <1>3, <1>9, <1>11
  <2>2. \A m \in Block : Contents'[m] = Contents[m] /\ Holder'[m] = Holder[m]
    BY <1>9, <1>10, <2>1
  <2> QED
    BY <1>8, <2>2, StoreStutters DEF Implements
<1>12. CASE ~buf[b].valid
  <2>1. Holder[n] = None
    BY <1>9, <1>12
  <2> QED
    BY <1>3, <1>8, <1>9, <1>10, <2>1, IsGet DEF Implements
<1> QED
  BY <1>11, <1>12

(* Every step implements one of the block store.                           *)
LEMMA NextImplements ==
  ASSUME GoodDisk, BioInv, Coherent, Views, Views', [Next]_vars
  PROVE  Implements
<1>1. CASE UNCHANGED vars
  BY <1>1, QuietImplements DEF vars, SameRequest
<1>2. ASSUME NEW p \in Proc, NEW n \in Block, bgetCached(p, n)
      PROVE  Implements
  <2>1. disk' = disk /\ \E b \in Buf : buf' = [buf EXCEPT ![b].refcnt = @ + 1]
    BY <1>2 DEF bgetCached
  <2>2. \A c \in Buf : /\ SameRequest(c)
                       /\ buf'[c].valid = buf[c].valid /\ buf'[c].owner = buf[c].owner
    BY <2>1 DEF BioInv, Types, BufRecord, SameRequest
  <2> QED
    BY <2>1, <2>2, QuietImplements
<1>3. ASSUME NEW p \in Proc, brelseUnref(p)
      PROVE  Implements
  <2>1. disk' = disk /\ buf' = [buf EXCEPT ![mine[p]].refcnt = @ - 1]
    BY <1>3 DEF brelseUnref
  <2>2. \A c \in Buf : /\ SameRequest(c)
                       /\ buf'[c].valid = buf[c].valid /\ buf'[c].owner = buf[c].owner
    BY <2>1 DEF BioInv, Types, BufRecord, SameRequest
  <2> QED
    BY <2>1, <2>2, QuietImplements
<1>4. ASSUME NEW p \in Proc, iderw(p) \/ iderwWoken(p)
      PROVE  Implements
  <2>1. buf' = buf /\ disk' = disk
    BY <1>4 DEF iderw, iderwWoken
  <2> QED
    BY <2>1, QuietImplements DEF SameRequest
<1>5. ASSUME NEW p \in Proc, NEW n \in Block, bgetRecycle(p, n)
      PROVE  Implements
  BY <1>5, bgetRecycleImplements
<1>6. ASSUME NEW p \in Proc, Lock(p) \/ brelse(p)
      PROVE  Implements
  BY <1>6, LockImplements, brelseImplements
<1>7. ASSUME NEW p \in Proc, NEW v \in Value, bwrite(p, v) \/ log_write(p, v)
      PROVE  Implements
  BY <1>7, WriteImplements
<1>8. CASE Interrupt
  BY <1>8, InterruptImplements
<1> QED
  BY <1>1, <1>2, <1>3, <1>4, <1>5, <1>6, <1>7, <1>8 DEF Next, Continue, panic

(* After binit() every block is on the disk and nobody has one.            *)
LEMMA StoreInit == Init => Store!Init
<1> SUFFICES ASSUME Init PROVE Store!Init
  OBVIOUS
<1>1. disk \in [Block -> Value]
  BY DEF Init
<1>2. \A b \in Buf : buf[b].blockno = None
  BY DEF Init
<1>3. \A n \in Block : NotCached(n)
  BY <1>2, BioConstants DEF NotCached
<1> QED
  BY <1>1, <1>3 DEF Store!Init, Contents, Holder

(* The cache is coherent: for any number of buffers, blocks and processes, *)
(* with any order of requests, it implements the block store, as long as   *)
(* no read of the disk fails.                                              *)
THEOREM ImplementsBlockStore ==
  ASSUME GoodDisk
  PROVE  Spec => AsBlockStore
<1>1. Init => Store!Init /\ Coherent
  BY StoreInit, BioInit
<1>2. BioInv => Views
  BY ViewsHold DEF BioInv
<1>3. BioInv /\ Coherent /\ Views /\ Views' /\ [Next]_vars => Coherent' /\ [Store!Next]_(Store!vars)
  BY NextImplements DEF Implements
<1> QED
  BY <1>1, <1>2, <1>3, BioStays, PTL DEF Spec, AsBlockStore, Store!Spec
-----------------------------------------------------------------------------
=============================================================================
