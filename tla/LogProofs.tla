----------------------------- MODULE LogProofs -----------------------------
(***************************************************************************)
(* Proofs about module Log, for any number of processes, any set of       *)
(* blocks and any size of the log.                                         *)
(***************************************************************************)
EXTENDS Log, TLAPS, FiniteSetTheorems

Inj(s)   == \A i, j \in 1..Len(s) : s[i] = s[j] => i = j
In(s, b) == \E i \in 1..Len(s) : s[i] = b

(* log.outstanding counts the operations, of which none runs during a      *)
(* commit or recovery; only one process commits.                           *)
PhaseInv ==
  /\ outstanding = Cardinality(Active)
  /\ stage \in {"idle", "read"} => ~committing
  /\ stage \in {"log", "done"} => committing
  /\ stage # "idle" => Active = {}
  /\ Recovering => \A p \in Proc : pc[p] = "out"
  /\ \A p \in Proc : pc[p] = "commit" => committing
  /\ \A p, q \in Proc : pc[p] = "commit" /\ pc[q] = "commit" => p = q
  /\ SleeperHasWaker

(* Between transactions the log is empty.                                  *)
EmptyInv ==
  /\ stage \in {"read", "done"} => lh = << >>
  /\ stage = "idle" /\ outstanding = 0 => lh = << >>
  /\ stage \in {"idle", "log", "done"} => head = << >>

(* A buffer is pinned until it is installed; any other unlocked one agrees *)
(* with the disk.                                                          *)
CacheInv ==
  /\ \A p \in Proc : /\ pc[p] = "logging" => buf[p] # NoBlock
                     /\ buf[p] # NoBlock => pc[p] \in {"logging", "panic"}
  /\ \A b \in dirty : In(lh, b)
  /\ Recovering => dirty = {}
  /\ \A b \in Block : b \notin dirty /\ (\A p \in Proc : buf[p] # b) => cache[b] = disk[b]

(* No block is logged twice, and what was copied stays copied.             *)
CopyInv ==
  /\ Inj(lh) /\ Inj(head)
  /\ Len(head) <= LOGSIZE
  /\ stage \in {"log", "install"} => tail <= Len(lh) + 1
  /\ stage = "log" => \A j \in 1..(tail - 1) : logdata[j] = cache[lh[j]]
  /\ stage = "install" =>
       /\ head = lh
       /\ \A j \in 1..(tail - 1) : disk[lh[j]] = logdata[j] /\ lh[j] \notin dirty
       /\ committing => \A j \in 1..Len(lh) : logdata[j] = cache[lh[j]]

(* The blocks begin_op() has set aside for the running operations and that *)
(* they have not used yet, one pair for each.                              *)
Room == {r \in Active \X (1..MAXOPBLOCKS) : r[2] > Cardinality(wrote[r[1]])}

(* They still fit into the log.                                            *)
SpaceInv ==
  /\ Len(lh) + Cardinality(Room) <= LOGSIZE
  /\ \A p \in Proc : IsFiniteSet(wrote[p]) /\ Cardinality(wrote[p]) <= OpBlocks
  /\ \A p \in Active : \A b \in wrote[p] : In(lh, b)
  /\ \A p \in Proc : pc[p] = "logging" => Cardinality(wrote[p] \cup {buf[p]}) <= OpBlocks

IInv == TypeOK /\ PhaseInv /\ EmptyInv /\ CacheInv /\ CopyInv /\ SpaceInv

(* The running operations are finitely many, so they can be counted.       *)
LEMMA ActiveFinite ==
  /\ IsFiniteSet(Active) /\ Active \subseteq Proc
  /\ Cardinality(Active) \in Nat
  /\ Cardinality(Active) = 0 <=> Active = {}
<1>1. IsFiniteSet(Active)
  BY LogConstants, FS_Subset DEF Active
<1> QED
  BY <1>1, FS_CardinalityType, FS_EmptySet DEF Active

(* The boot of a new file system.                                          *)
LEMMA InitInv == Init => IInv
<1> SUFFICES ASSUME Init PROVE IInv
  OBVIOUS
<1> USE LogConstants DEF Init
<1>1. TypeOK
  <2>1. logdata \in [1..LOGSIZE -> Value]
    OBVIOUS
  <2>2. wrote \in [Proc -> SUBSET Block]
    OBVIOUS
  <2>3. pc \in [Proc -> Location] /\ buf \in [Proc -> Block \cup {NoBlock}]
    BY DEF Location
  <2>4. committing \in BOOLEAN
    OBVIOUS
  <2>5. /\ head \in Seq(Block) /\ lh \in Seq(Block) /\ outstanding \in Nat
        /\ tail \in Nat \ {0} /\ stage \in Stage
        /\ dirty \in SUBSET Block /\ disk \in [Block -> Value] /\ cache \in [Block -> Value]
    BY DEF Stage
  <2> QED
    BY <2>1, <2>2, <2>3, <2>4, <2>5 DEF TypeOK
<1>2. Active = {}
  BY DEF Active
<1>3. PhaseInv
  BY <1>2, FS_EmptySet DEF PhaseInv, Recovering, SleeperHasWaker
<1>4. EmptyInv /\ CacheInv
  BY DEF EmptyInv, CacheInv
<1>5. CopyInv
  BY DEF CopyInv, Inj
<1>6. SpaceInv
  <2>1. Room = {}
    BY <1>2 DEF Room
  <2> QED
    BY <1>2, <2>1, FS_EmptySet DEF SpaceInv
<1> QED
  BY <1>1, <1>3, <1>4, <1>5, <1>6 DEF IInv

(* log.outstanding counts one operation more, one less, or as many.        *)
LEMMA CountFacts ==
  ASSUME PhaseInv, TypeOK, NEW p \in Proc
  PROVE  /\ p \in Active => outstanding > 0
         /\ p \notin Active /\ Active' = Active \cup {p} =>
              Cardinality(Active') = outstanding + 1
         /\ p \in Active /\ Active' = Active \ {p} =>
              Cardinality(Active') = outstanding - 1
<1>1. outstanding = Cardinality(Active) /\ outstanding \in Nat
  BY DEF PhaseInv, TypeOK
<1>2. p \in Active => outstanding > 0
  BY <1>1, ActiveFinite
<1>3. p \notin Active => Cardinality(Active \cup {p}) = outstanding + 1
  BY <1>1, ActiveFinite, FS_AddElement
<1>4. p \in Active => Cardinality(Active \ {p}) = outstanding - 1
  BY <1>1, ActiveFinite, FS_RemoveElement
<1> QED
  BY <1>2, <1>3, <1>4

(* The variables keep their types: log.outstanding never goes below zero   *)
(* and nothing is written outside the log area.                            *)
LEMMA TypeStep ==
  ASSUME IInv, [Next]_vars
  PROVE  TypeOK'
<1> USE LogConstants DEF IInv, TypeOK, Location, Stage
<1>1. CASE UNCHANGED vars
  BY <1>1 DEF vars
<1>2. ASSUME NEW p \in Proc, BeginOp(p) \/ BeginSleep(p)
      PROVE  TypeOK'
  <2>1. CASE BeginOp(p)
    <3>1. wrote' \in [Proc -> SUBSET Block]
      BY <2>1 DEF BeginOp
    <3>2. pc' \in [Proc -> Location] /\ outstanding' \in Nat
      BY <2>1 DEF BeginOp
    <3> QED
      BY <2>1, <3>1, <3>2 DEF BeginOp, diskVars
  <2>2. CASE BeginSleep(p)
    BY <2>2 DEF BeginSleep, diskVars
  <2> QED
    BY <1>2, <2>1, <2>2
<1>3. ASSUME NEW p \in Proc, NEW b \in Block, NEW v \in Value, LogWrite(p, b, v)
      PROVE  TypeOK'
  <2>1. cache' \in [Block -> Value]
    BY <1>3 DEF LogWrite
  <2>2. buf' \in [Proc -> Block \cup {NoBlock}]
    BY <1>3 DEF LogWrite
  <2>3. pc' \in [Proc -> Location]
    BY <1>3 DEF LogWrite
  <2> QED
    BY <1>3, <2>1, <2>2, <2>3 DEF LogWrite, diskVars
<1>4. ASSUME NEW p \in Proc, LogAppend(p)
      PROVE  TypeOK'
  <2>1. buf[p] \in Block
    BY <1>4 DEF LogAppend, CacheInv
  <2> QED
    BY <1>4, <2>1 DEF LogAppend, diskVars
<1>5. ASSUME NEW p \in Proc, EndOp(p)
      PROVE  TypeOK'
  <2>1. outstanding - 1 \in Nat
    <3>1. p \in Active
      BY <1>5 DEF EndOp, Active
    <3> QED
      BY <3>1, CountFacts
  <2>2. pc' \in [Proc -> Location]
    BY <1>5 DEF EndOp, Wakeup
  <2>3. stage' \in Stage /\ tail' \in Nat \ {0}
    BY <1>5 DEF EndOp
  <2>4. committing' \in BOOLEAN
    BY <1>5 DEF EndOp
  <2> QED
    BY <1>5, <2>1, <2>2, <2>3, <2>4 DEF EndOp, diskVars
<1>6. ASSUME NEW p \in Proc, EndCommit(p)
      PROVE  TypeOK'
  BY <1>6 DEF EndCommit, Wakeup, diskVars
<1>7. ASSUME NEW b \in Block, Evict(b)
      PROVE  TypeOK'
  BY <1>7 DEF Evict, diskVars, opVars
<1>8. CASE ReadHead
  BY <1>8 DEF ReadHead, diskVars, opVars
<1>9. CASE WriteLog
  <2>1. cache[lh[tail]] \in Value
    BY <1>9 DEF WriteLog
  <2> QED
    <3>1. logdata' \in [1..LOGSIZE -> Value]
      BY <1>9, <2>1 DEF WriteLog
    <3> QED
      BY <1>9, <3>1 DEF WriteLog, opVars
<1>10. CASE WriteHead
  BY <1>10 DEF WriteHead, opVars
<1>11. CASE InstallTrans
  <2>1. lh[tail] \in Block /\ logdata[tail] \in Value
    BY <1>11 DEF InstallTrans, CopyInv
  <2> QED
    BY <1>11, <2>1 DEF InstallTrans, opVars
<1>12. CASE EraseHead
  BY <1>12 DEF EraseHead, opVars
<1>13. CASE Crash
  <2>1. wrote' \in [Proc -> SUBSET Block]
    BY <1>13 DEF Crash
  <2>2. pc' \in [Proc -> Location] /\ buf' \in [Proc -> Block \cup {NoBlock}]
    BY <1>13 DEF Crash
  <2>3. committing' \in BOOLEAN
    BY <1>13 DEF Crash
  <2>4. lh' \in Seq(Block) /\ dirty' \in SUBSET Block /\ stage' \in Stage
    BY <1>13 DEF Crash
  <2> QED
    BY <1>13, <2>1, <2>2, <2>3, <2>4 DEF Crash, diskVars
<1> QED
  BY <1>1, <1>2, <1>3, <1>4, <1>5, <1>6, <1>7, <1>8, <1>9, <1>10, <1>11, <1>12, <1>13
     DEF Next, Op, LogStep

(* Where the running operations come from and go to.                       *)
LEMMA ActiveStep ==
  ASSUME IInv, NEW p \in Proc
  PROVE  /\ BeginOp(p) => p \notin Active /\ Active' = Active \cup {p}
         /\ BeginSleep(p) \/ LogAppend(p) \/ EndCommit(p) => Active' = Active
         /\ \A b \in Block, v \in Value : LogWrite(p, b, v) => Active' = Active /\ p \in Active
         /\ EndOp(p) /\ ~committing => p \in Active /\ Active' = Active \ {p}
<1> USE DEF IInv, TypeOK, Active
<1>1. BeginOp(p) => p \notin Active /\ Active' = Active \cup {p}
  BY DEF BeginOp
<1>2. BeginSleep(p) \/ LogAppend(p) \/ EndCommit(p) => Active' = Active
  BY DEF BeginSleep, LogAppend, EndCommit, Wakeup
<1>3. \A b \in Block, v \in Value : LogWrite(p, b, v) => Active' = Active /\ p \in Active
  BY DEF LogWrite
<1>4. EndOp(p) /\ ~committing => p \in Active /\ Active' = Active \ {p}
  BY DEF EndOp, Wakeup
<1> QED
  BY <1>1, <1>2, <1>3, <1>4

(* The phases of the log: operations, then one committer, then operations  *)
(* again.                                                                  *)
LEMMA PhaseStep ==
  ASSUME IInv, [Next]_vars
  PROVE  PhaseInv' /\ EmptyInv'
<1> USE LogConstants DEF IInv, TypeOK, PhaseInv, EmptyInv, Recovering, SleeperHasWaker
<1>1. CASE UNCHANGED vars
  BY <1>1 DEF vars, Active
<1>2. ASSUME NEW p \in Proc, BeginOp(p)
      PROVE  PhaseInv' /\ EmptyInv'
  <2>1. p \notin Active /\ Active' = Active \cup {p}
    BY <1>2, ActiveStep
  <2>2. outstanding' = Cardinality(Active') /\ outstanding' > 0
    <3>1. Cardinality(Active') = outstanding + 1
      BY <2>1, CountFacts
    <3> QED
      BY <1>2, <3>1 DEF BeginOp
  <2>3. stage = "idle" /\ ~committing
    BY <1>2 DEF BeginOp, Admits, Stage
  <2> QED
    BY <1>2, <2>1, <2>2, <2>3 DEF BeginOp, Location, diskVars
<1>3. ASSUME NEW p \in Proc, BeginSleep(p)
      PROVE  PhaseInv' /\ EmptyInv'
  <2>1. Active' = Active
    BY <1>3, ActiveStep
  <2>2. outstanding > 0 \/ committing
    <3>1. ASSUME ~committing, outstanding = 0
          PROVE  FALSE
      <4>1. lh = << >>
        BY <1>3, <3>1 DEF BeginSleep, Stage
      <4> QED
        BY <1>3, <3>1, <4>1 DEF BeginSleep, Admits
    <3> QED
      BY <3>1
  <2> QED
    BY <1>3, <2>1, <2>2 DEF BeginSleep, Location, diskVars
<1>5. ASSUME NEW p \in Proc, NEW b \in Block, NEW v \in Value, LogWrite(p, b, v)
      PROVE  PhaseInv' /\ EmptyInv'
  BY <1>5, ActiveStep DEF LogWrite, diskVars
<1>6. ASSUME NEW p \in Proc, LogAppend(p)
      PROVE  PhaseInv' /\ EmptyInv'
  <2>1. Active' = Active /\ p \in Active
    BY <1>6, ActiveStep DEF LogAppend, Active
  <2>2. outstanding > 0 /\ stage = "idle"
    BY <2>1, CountFacts
  <2> QED
    BY <1>6, <2>1, <2>2 DEF LogAppend, diskVars
<1>7. ASSUME NEW p \in Proc, EndOp(p)
      PROVE  PhaseInv' /\ EmptyInv'
  <2>1. p \in Active /\ stage = "idle" /\ ~committing
    BY <1>7 DEF EndOp, Active
  <2>2. Active' = Active \ {p}
    BY <1>7, <2>1, ActiveStep
  <2>3. outstanding' = Cardinality(Active') /\ outstanding' = outstanding - 1
    BY <1>7, <2>1, <2>2, CountFacts DEF EndOp
  <2>4. outstanding' = 0 => Active' = {}
    BY <2>3, ActiveFinite, <2>2, FS_EmptySet, FS_Subset
  <2>5. CASE outstanding' = 0
    BY <1>7, <2>1, <2>3, <2>4, <2>5 DEF EndOp, diskVars
  <2>6. CASE outstanding' # 0
    BY <1>7, <2>1, <2>3, <2>6 DEF EndOp, Wakeup, diskVars
  <2> QED
    BY <2>5, <2>6
<1>8. ASSUME NEW p \in Proc, EndCommit(p)
      PROVE  PhaseInv' /\ EmptyInv'
  BY <1>8, ActiveStep DEF EndCommit, Wakeup, diskVars
<1>9. ASSUME NEW b \in Block, Evict(b)
      PROVE  PhaseInv' /\ EmptyInv'
  BY <1>9 DEF Evict, Active, opVars, diskVars
<1>10. CASE ReadHead \/ WriteLog
  BY <1>10 DEF ReadHead, WriteLog, Active, opVars, diskVars
<1>11. CASE WriteHead \/ InstallTrans
  BY <1>11 DEF WriteHead, InstallTrans, Active, opVars, diskVars
<1>12. CASE EraseHead
  BY <1>12 DEF EraseHead, Active, opVars, diskVars
<1>13. CASE Crash
  <2>1. Active' = {}
    BY <1>13 DEF Crash, Active
  <2> QED
    BY <1>13, <2>1, FS_EmptySet DEF Crash
<1> QED
  BY <1>1, <1>2, <1>3, <1>5, <1>6, <1>7, <1>8, <1>9, <1>10, <1>11, <1>12, <1>13
     DEF Next, Op, LogStep

(* A block in a sequence stays in it when another is appended, and the     *)
(* sequence stays free of duplicates.                                      *)
LEMMA AppendFacts ==
  ASSUME NEW s \in Seq(Block), NEW b \in Block
  PROVE  /\ \A c \in Block : In(Append(s, b), c) <=> In(s, c) \/ c = b
         /\ Inj(s) /\ ~In(s, b) => Inj(Append(s, b))
<1>1. /\ Len(Append(s, b)) = Len(s) + 1 /\ Len(s) \in Nat
      /\ Append(s, b)[Len(s) + 1] = b
      /\ \A i \in 1..Len(s) : Append(s, b)[i] = s[i]
  OBVIOUS
<1> QED
  BY <1>1 DEF In, Inj

(* log_write()'s absorption: afterwards the block is logged, once.         *)
LEMMA AbsorbFacts ==
  ASSUME IInv, NEW p \in Proc, LogAppend(p)
  PROVE  /\ buf[p] \in Block
         /\ \A c \in Block : In(lh', c) <=> In(lh, c) \/ c = buf[p]
         /\ Inj(lh')
         /\ Len(lh') = IF In(lh, buf[p]) THEN Len(lh) ELSE Len(lh) + 1
<1>1. buf[p] \in Block
  BY DEF IInv, TypeOK, CacheInv, LogAppend
<1>2. lh' = IF In(lh, buf[p]) THEN lh ELSE Append(lh, buf[p])
  BY DEF LogAppend, In
<1>3. lh \in Seq(Block) /\ Inj(lh)
  BY DEF IInv, TypeOK, CopyInv
<1>4. CASE In(lh, buf[p])
  BY <1>1, <1>2, <1>3, <1>4
<1>5. CASE ~In(lh, buf[p])
  BY <1>1, <1>2, <1>3, <1>5, AppendFacts
<1> QED
  BY <1>1, <1>4, <1>5

(* Buffers: pinned while logged, equal to the disk when clean.             *)
LEMMA CacheStep ==
  ASSUME IInv, [Next]_vars
  PROVE  CacheInv'
<1> USE LogConstants DEF IInv, TypeOK, CacheInv, Recovering
<1>1. CASE UNCHANGED vars
  BY <1>1 DEF vars
<1>2. ASSUME NEW p \in Proc, BeginOp(p) \/ BeginSleep(p)
      PROVE  CacheInv'
  BY <1>2 DEF BeginOp, BeginSleep, diskVars
<1>4. ASSUME NEW p \in Proc, NEW b \in Block, NEW v \in Value, LogWrite(p, b, v)
      PROVE  CacheInv'
  <2>2. /\ cache' = [cache EXCEPT ![b] = v]
        /\ buf' = [buf EXCEPT ![p] = b]
        /\ pc'[p] \in {"logging", "panic"}
        /\ \A q \in Proc \ {p} : pc'[q] = pc[q]
        /\ UNCHANGED <<disk, dirty, lh, committing, stage>>
        /\ b # NoBlock /\ pc[p] = "in"
    BY <1>4 DEF LogWrite, diskVars
  <2>3. \A c \in Block : c \notin dirty /\ (\A q \in Proc : buf'[q] # c) =>
          c # b /\ (\A q \in Proc : buf[q] # c)
    BY <2>2
  <2> QED
    BY <2>2, <2>3
<1>5. ASSUME NEW p \in Proc, LogAppend(p)
      PROVE  CacheInv'
  <2>1. /\ buf[p] \in Block
        /\ \A c \in Block : In(lh', c) <=> In(lh, c) \/ c = buf[p]
    BY <1>5, AbsorbFacts
  <2>2. /\ dirty' = dirty \cup {buf[p]}
        /\ buf' = [buf EXCEPT ![p] = NoBlock]
        /\ pc' = [pc EXCEPT ![p] = "in"]
        /\ pc[p] = "logging"
        /\ UNCHANGED <<disk, cache, committing, stage>>
    BY <1>5 DEF LogAppend, diskVars
  <2>3. stage = "idle"
    BY <2>2 DEF PhaseInv, Active
  <2>4. \A c \in Block : c \notin dirty' /\ (\A q \in Proc : buf'[q] # c) =>
          c \notin dirty /\ (\A q \in Proc : buf[q] # c)
    BY <2>1, <2>2
  <2> QED
    BY <2>1, <2>2, <2>3, <2>4
<1>6. ASSUME NEW p \in Proc, EndOp(p) \/ EndCommit(p)
      PROVE  CacheInv'
  <2>1. UNCHANGED <<disk, cache, dirty, lh, buf>>
    BY <1>6 DEF EndOp, EndCommit, diskVars
  <2>2. \A q \in Proc : /\ pc'[q] = "logging" => pc[q] = "logging"
                        /\ pc[q] \in {"logging", "panic"} => pc'[q] = pc[q]
    BY <1>6 DEF EndOp, EndCommit, Wakeup
  <2>3. Recovering' => Recovering
    BY <1>6 DEF EndOp, EndCommit
  <2>4. \A q \in Proc : /\ pc'[q] = "logging" => buf'[q] # NoBlock
                        /\ buf'[q] # NoBlock => pc'[q] \in {"logging", "panic"}
    BY <2>1, <2>2
  <2> QED
    BY <2>1, <2>3, <2>4
<1>7. ASSUME NEW b \in Block, Evict(b)
      PROVE  CacheInv'
  BY <1>7 DEF Evict, diskVars, opVars
<1>8. CASE ReadHead \/ WriteLog \/ WriteHead
  BY <1>8 DEF ReadHead, WriteLog, WriteHead, diskVars, opVars, PhaseInv
<1>9. CASE InstallTrans
  BY <1>9 DEF InstallTrans, diskVars, opVars
<1>10. CASE EraseHead
  <2>1. dirty = {}
    <3> SUFFICES ASSUME NEW b \in dirty PROVE FALSE
      OBVIOUS
    <3>1. PICK i \in 1..Len(lh) : lh[i] = b
      BY DEF In
    <3> QED
      BY <1>10, <3>1 DEF EraseHead, CopyInv
  <2> QED
    BY <1>10, <2>1 DEF EraseHead, diskVars, opVars
<1>11. CASE Crash
  BY <1>11 DEF Crash, diskVars
<1> QED
  BY <1>1, <1>2, <1>4, <1>5, <1>6, <1>7, <1>8, <1>9, <1>10, <1>11
     DEF Next, Op, LogStep

(* The set Room is finite, and the log fits.                               *)
LEMMA RoomFinite ==
  ASSUME TypeOK
  PROVE  /\ IsFiniteSet(Room) /\ Cardinality(Room) \in Nat
         /\ Cardinality(Room) <= Cardinality(Active) * MAXOPBLOCKS
         /\ SpaceInv => Len(lh) <= LOGSIZE
<1>1. IsFiniteSet(1..MAXOPBLOCKS) /\ Cardinality(1..MAXOPBLOCKS) = MAXOPBLOCKS
  BY LogConstants, FS_Interval
<1>2. /\ IsFiniteSet(Active \X (1..MAXOPBLOCKS))
      /\ Cardinality(Active \X (1..MAXOPBLOCKS)) = Cardinality(Active) * MAXOPBLOCKS
  BY <1>1, ActiveFinite, FS_Product
<1>3. Room \subseteq Active \X (1..MAXOPBLOCKS)
  BY DEF Room
<1>4. IsFiniteSet(Room) /\ Cardinality(Room) <= Cardinality(Active) * MAXOPBLOCKS
  BY <1>2, <1>3, FS_Subset
<1>5. Cardinality(Room) \in Nat
  BY <1>4, FS_CardinalityType
<1> QED
  BY <1>4, <1>5, LogConstants DEF SpaceInv, TypeOK

(* What was copied to the log, and from it to the home blocks.             *)
LEMMA CopyStep ==
  ASSUME IInv, [Next]_vars
  PROVE  CopyInv'
<1> USE LogConstants DEF IInv, TypeOK, CopyInv
<1>1. CASE UNCHANGED vars
  BY <1>1 DEF vars
<1>2. ASSUME NEW p \in Proc, BeginOp(p) \/ BeginSleep(p)
      PROVE  CopyInv'
  BY <1>2 DEF BeginOp, BeginSleep, diskVars
<1>3. ASSUME NEW p \in Proc, NEW b \in Block, NEW v \in Value, LogWrite(p, b, v)
      PROVE  CopyInv'
  <2>1. stage = "idle"
    BY <1>3 DEF LogWrite, PhaseInv, Active
  <2> QED
    BY <1>3, <2>1 DEF LogWrite, diskVars
<1>4. ASSUME NEW p \in Proc, LogAppend(p)
      PROVE  CopyInv'
  <2>1. stage = "idle"
    BY <1>4 DEF LogAppend, PhaseInv, Active
  <2> QED
    BY <1>4, <2>1, AbsorbFacts DEF LogAppend, diskVars
<1>5. ASSUME NEW p \in Proc, EndOp(p)
      PROVE  CopyInv'
  <2>1. stage = "idle"
    BY <1>5 DEF EndOp, PhaseInv, Active
  <2>2. /\ UNCHANGED <<lh, head, logdata, cache, dirty>>
        /\ stage' \in {"idle", "done"} \/ (stage' = "log" /\ tail' = 1)
    BY <1>5, <2>1 DEF EndOp, diskVars
  <2> QED
    BY <2>2
<1>6. ASSUME NEW p \in Proc, EndCommit(p)
      PROVE  CopyInv'
  BY <1>6 DEF EndCommit, diskVars
<1>7. ASSUME NEW b \in Block, Evict(b)
      PROVE  CopyInv'
  <2>1. cache' = cache
    BY <1>7 DEF Evict, CacheInv
  <2> QED
    BY <1>7, <2>1 DEF Evict, diskVars, opVars
<1>8. CASE ReadHead
  <2>1. /\ stage' = "install" /\ tail' = 1 /\ lh' = head /\ head' = head
        /\ ~committing'
    BY <1>8 DEF ReadHead, PhaseInv, diskVars, opVars
  <2>2. Inj(head) /\ Len(head) \in Nat /\ Len(head) <= LOGSIZE
    OBVIOUS
  <2> HIDE DEF IInv, TypeOK
  <2> QED
    BY <2>1, <2>2
<1>9. CASE WriteLog
  <2>1. tail \in 1..LOGSIZE
    BY <1>9, RoomFinite DEF WriteLog
  <2> QED
    BY <1>9, <2>1 DEF WriteLog, opVars
<1>10. CASE WriteHead
  BY <1>10, RoomFinite DEF WriteHead, opVars
<1>11. CASE InstallTrans
  <2>1. tail \in 1..Len(lh) /\ lh[tail] \in Block
    BY <1>11 DEF InstallTrans
  <2>2. \A j \in 1..Len(lh) : lh[j] \in Block /\ (j # tail => lh[j] # lh[tail])
    BY <2>1 DEF Inj
  <2> QED
    <3>1. /\ UNCHANGED <<lh, head, logdata, stage, committing>>
          /\ stage = "install" /\ tail' = tail + 1
          /\ disk' = [disk EXCEPT ![lh[tail]] = logdata[tail]]
          /\ cache' = [cache EXCEPT ![lh[tail]] = logdata[tail]]
          /\ dirty' = dirty \ {lh[tail]}
      BY <1>11 DEF InstallTrans, opVars
    <3>2. \A j \in 1..(tail' - 1) : disk'[lh[j]] = logdata[j] /\ lh[j] \notin dirty'
      BY <2>1, <2>2, <3>1
    <3>3. committing => \A j \in 1..Len(lh) : logdata[j] = cache'[lh[j]]
      BY <2>1, <2>2, <3>1
    <3> QED
      BY <2>1, <3>1, <3>2, <3>3
<1>12. CASE EraseHead
  <2>1. stage' \in {"idle", "done"} /\ lh' = << >> /\ head' = << >>
    BY <1>12 DEF EraseHead
  <2> QED
    BY <2>1 DEF Inj
<1>13. CASE Crash
  BY <1>13 DEF Crash, Inj, diskVars
<1> QED
  BY <1>1, <1>2, <1>3, <1>4, <1>5, <1>6, <1>7, <1>8, <1>9, <1>10, <1>11, <1>12, <1>13
     DEF Next, Op, LogStep

(* A step that takes nothing of the room and logs nothing keeps it.        *)
LEMMA RoomFrame ==
  ASSUME IInv, TypeOK', Len(lh') <= Len(lh), Room' \subseteq Room
  PROVE  Len(lh') + Cardinality(Room') <= LOGSIZE
<1>1. Cardinality(Room') <= Cardinality(Room)
  BY RoomFinite, FS_Subset DEF IInv
<1>2. Cardinality(Room') \in Nat /\ Cardinality(Room) \in Nat
  BY <1>1, RoomFinite, FS_Subset, FS_CardinalityType DEF IInv
<1> QED
  BY <1>1, <1>2, LogConstants DEF IInv, SpaceInv, TypeOK

(* begin_op() admits an operation only if all its blocks still fit.        *)
LEMMA SpaceBegin ==
  ASSUME IInv, TypeOK', NEW p \in Proc, BeginOp(p)
  PROVE  SpaceInv'
<1> USE LogConstants DEF IInv
<1>1. p \notin Active /\ Active' = Active \cup {p}
  BY ActiveStep
<1>2. Cardinality(Active') = outstanding + 1
  BY <1>1, CountFacts
<1>3. IsFiniteSet(Active') /\ Room' \subseteq Active' \X (1..MAXOPBLOCKS)
  BY <1>1, ActiveFinite, FS_AddElement DEF Room
<1>4. /\ IsFiniteSet(1..MAXOPBLOCKS) /\ Cardinality(1..MAXOPBLOCKS) = MAXOPBLOCKS
  BY FS_Interval
<1>5. /\ IsFiniteSet(Active' \X (1..MAXOPBLOCKS))
      /\ Cardinality(Active' \X (1..MAXOPBLOCKS)) = (outstanding + 1) * MAXOPBLOCKS
  BY <1>2, <1>3, <1>4, FS_Product
<1>6. Cardinality(Room') <= (outstanding + 1) * MAXOPBLOCKS /\ Cardinality(Room') \in Nat
  BY <1>3, <1>5, FS_Subset, FS_CardinalityType
<1>7. Len(lh') + Cardinality(Room') <= LOGSIZE
  <2>1. (outstanding + 1) * MAXOPBLOCKS \in Nat /\ Len(lh) \in Nat
    BY DEF TypeOK
  <2>2. Len(lh) + (outstanding + 1) * MAXOPBLOCKS <= LOGSIZE /\ lh' = lh
    BY DEF BeginOp, Admits
  <2> QED
    BY <1>6, <2>1, <2>2
<1>8. /\ lh' = lh /\ wrote' = [wrote EXCEPT ![p] = {}]
      /\ pc' = [pc EXCEPT ![p] = "in"] /\ UNCHANGED buf
  BY DEF BeginOp
<1>9. IsFiniteSet({}) /\ Cardinality({}) = 0
  BY FS_EmptySet
<1> QED
  BY <1>1, <1>7, <1>8, <1>9 DEF SpaceInv, TypeOK, In

(* log_write() uses up one block of the room its own operation has.        *)
LEMMA SpaceAppend ==
  ASSUME IInv, TypeOK', NEW p \in Proc, LogAppend(p)
  PROVE  SpaceInv'
<1> USE LogConstants DEF IInv
<1> DEFINE b == buf[p]
           n == Cardinality(wrote[p])
<1>1. /\ p \in Active /\ Active' = Active
  BY ActiveStep DEF LogAppend, Active
<1>2. /\ wrote' = [wrote EXCEPT ![p] = @ \cup {b}]
      /\ buf' = [buf EXCEPT ![p] = NoBlock] /\ pc' = [pc EXCEPT ![p] = "in"]
      /\ pc[p] = "logging"
  BY DEF LogAppend
<1>3. /\ IsFiniteSet(wrote[p]) /\ IsFiniteSet(wrote[p] \cup {b})
      /\ n \in Nat /\ Cardinality(wrote[p] \cup {b}) = IF b \in wrote[p] THEN n ELSE n + 1
  BY FS_AddElement, FS_CardinalityType DEF SpaceInv
<1>4. Cardinality(wrote[p] \cup {b}) <= OpBlocks
  BY <1>2 DEF SpaceInv
<1>5. \A q \in Proc : wrote'[q] = IF q = p THEN wrote[p] \cup {b} ELSE wrote[q]
  BY <1>2 DEF TypeOK
<1>6. \A q \in Proc : /\ IsFiniteSet(wrote'[q]) /\ Cardinality(wrote'[q]) <= OpBlocks
                      /\ Cardinality(wrote'[q]) \in Nat /\ Cardinality(wrote[q]) \in Nat
                      /\ Cardinality(wrote[q]) <= Cardinality(wrote'[q])
  <2> TAKE q \in Proc
  <2>1. CASE q = p
    BY <1>3, <1>4, <1>5, <2>1
  <2>2. CASE q # p
    BY <1>5, <2>2, FS_CardinalityType DEF SpaceInv
  <2> QED
    BY <2>1, <2>2
<1>7. Room' \subseteq Room
  BY <1>1, <1>6, ActiveFinite DEF Room
<1>8. /\ b \in Block /\ \A c \in Block : In(lh', c) <=> In(lh, c) \/ c = b
      /\ Len(lh') = IF In(lh, b) THEN Len(lh) ELSE Len(lh) + 1
  BY AbsorbFacts
<1> HIDE DEF b, n
<1>9. Len(lh') + Cardinality(Room') <= LOGSIZE
  <2>1. CASE In(lh, b)
    BY <1>7, <1>8, <2>1, RoomFrame DEF TypeOK
  <2>2. CASE ~In(lh, b)
    <3>1. b \notin wrote[p]
      BY <1>1, <2>2 DEF SpaceInv
    <3>2. <<p, n + 1>> \in Room /\ <<p, n + 1>> \notin Room'
      <4>1. n + 1 \in 1..MAXOPBLOCKS /\ Cardinality(wrote[p] \cup {b}) = n + 1
        BY <1>3, <1>4, <3>1
      <4>2. <<p, n + 1>> \in Active \X (1..MAXOPBLOCKS)
        BY <1>1, <4>1
      <4>3. <<p, n + 1>> \in Room
        BY <1>3, <4>2 DEF Room, n
      <4>4. Cardinality(wrote'[p]) = n + 1
        BY <1>5, <4>1
      <4> QED
        BY <1>3, <4>3, <4>4 DEF Room
    <3>3. Room' \subseteq Room \ {<<p, n + 1>>}
      BY <1>7, <3>2
    <3>4. /\ IsFiniteSet(Room \ {<<p, n + 1>>})
          /\ Cardinality(Room \ {<<p, n + 1>>}) = Cardinality(Room) - 1
      BY <3>2, RoomFinite, FS_RemoveElement
    <3>5. Cardinality(Room') <= Cardinality(Room) - 1 /\ Cardinality(Room') \in Nat
      BY <3>3, <3>4, FS_Subset, FS_CardinalityType
    <3> QED
      BY <1>8, <2>2, <3>5, RoomFinite DEF SpaceInv, TypeOK
  <2> QED
    BY <2>1, <2>2
<1>10. \A q \in Active' : \A c \in wrote'[q] : In(lh', c)
  BY <1>1, <1>5, <1>8, ActiveFinite DEF SpaceInv, TypeOK
<1>11. \A q \in Proc : pc'[q] = "logging" => Cardinality(wrote'[q] \cup {buf'[q]}) <= OpBlocks
  BY <1>2, <1>5 DEF SpaceInv, TypeOK
<1> QED
  BY <1>6, <1>9, <1>10, <1>11 DEF SpaceInv

(* The room of the running operations is never used up by others.          *)
LEMMA SpaceStep ==
  ASSUME IInv, [Next]_vars
  PROVE  SpaceInv'
<1>0. TypeOK'
  BY TypeStep
<1> USE LogConstants DEF IInv
(* Nothing is logged and no operation begins.                              *)
<1>1. ASSUME Active' \subseteq Active, UNCHANGED <<lh, wrote>>,
             \A p \in Proc : pc'[p] = "logging" => 
               Cardinality(wrote[p] \cup {buf'[p]}) <= OpBlocks
      PROVE  SpaceInv'
  <2>1. Room' \subseteq Room
    BY <1>1 DEF Room
  <2>2. Len(lh') + Cardinality(Room') <= LOGSIZE
    BY <1>0, <1>1, <2>1, RoomFrame DEF TypeOK
  <2> QED
    BY <1>1, <2>2 DEF SpaceInv, In
(* No operation runs.                                                      *)
<1>2. ASSUME Active' = {}, Len(lh') <= LOGSIZE,
             wrote' = wrote \/ wrote' = [p \in Proc |-> {}]
      PROVE  SpaceInv'
  <2>1. Room' = {}
    BY <1>2 DEF Room
  <2>2. \A p \in Proc : pc'[p] # "logging"
    BY <1>2 DEF Active
  <2>3. IsFiniteSet({}) /\ Cardinality({}) = 0
    BY FS_EmptySet
  <2>4. \A p \in Proc : IsFiniteSet(wrote'[p]) /\ Cardinality(wrote'[p]) <= OpBlocks
    <3>1. CASE wrote' = wrote
      BY <3>1 DEF SpaceInv
    <3>2. CASE wrote' = [p \in Proc |-> {}]
      BY <2>3, <3>2
    <3> QED
      BY <1>2, <3>1, <3>2
  <2> QED
    BY <1>0, <1>2, <2>1, <2>2, <2>3, <2>4 DEF SpaceInv, TypeOK
<1>3. CASE UNCHANGED vars
  BY <1>1, <1>3 DEF vars, Active, SpaceInv
<1>4. ASSUME NEW p \in Proc, BeginSleep(p) \/ EndCommit(p)
      PROVE  SpaceInv'
  <2>1. Active' = Active /\ UNCHANGED <<lh, wrote, buf>>
    BY <1>4, ActiveStep DEF BeginSleep, EndCommit
  <2>2. \A q \in Proc : pc'[q] = "logging" => pc[q] = "logging"
    BY <1>4 DEF TypeOK, BeginSleep, EndCommit, Wakeup
  <2> QED
    BY <1>1, <2>1, <2>2 DEF SpaceInv
<1>5. ASSUME NEW p \in Proc, NEW b \in Block, NEW v \in Value, LogWrite(p, b, v)
      PROVE  SpaceInv'
  <2>1. Active' = Active /\ UNCHANGED <<lh, wrote>>
    BY <1>5, ActiveStep DEF LogWrite
  <2>2. \A q \in Proc : pc'[q] = "logging" =>
          \/ q = p /\ buf'[q] = b
          \/ pc[q] = "logging" /\ buf'[q] = buf[q]
    BY <1>5 DEF LogWrite, TypeOK
  <2>3. Cardinality(wrote[p] \cup {b}) <= OpBlocks
    BY <1>5 DEF LogWrite
  <2> QED
    BY <1>1, <2>1, <2>2, <2>3 DEF SpaceInv
<1>6. ASSUME NEW p \in Proc, EndOp(p)
      PROVE  SpaceInv'
  <2>1. p \in Active /\ ~committing
    BY <1>6 DEF EndOp, Active, PhaseInv
  <2>2. Active' \subseteq Active /\ UNCHANGED <<lh, wrote, buf>>
    BY <1>6, <2>1, ActiveStep DEF EndOp
  <2>3. \A q \in Proc : pc'[q] = "logging" => pc[q] = "logging"
    BY <1>6, <2>1 DEF TypeOK, EndOp, Wakeup
  <2> QED
    BY <1>1, <2>2, <2>3 DEF SpaceInv
<1>7. ASSUME NEW b \in Block, Evict(b)
      PROVE  SpaceInv'
  BY <1>1, <1>7 DEF Evict, opVars, Active, SpaceInv
<1>8. CASE ReadHead \/ EraseHead
  <2>1. Active' = {} /\ wrote' = wrote
    BY <1>8 DEF ReadHead, EraseHead, opVars, Active, PhaseInv
  <2>2. Len(lh') <= LOGSIZE
    BY <1>8 DEF ReadHead, EraseHead, CopyInv
  <2> QED
    BY <1>2, <2>1, <2>2
<1>9. CASE WriteLog \/ WriteHead \/ InstallTrans
  BY <1>1, <1>9 DEF WriteLog, WriteHead, InstallTrans, opVars, Active, SpaceInv
<1>10. CASE Crash
  <2>1. Active' = {} /\ Len(lh') <= LOGSIZE
    BY <1>10 DEF Crash, Active
  <2> QED
    BY <1>2, <1>10, <2>1 DEF Crash
<1> QED
  BY <1>0, <1>3, <1>4, <1>5, <1>6, <1>7, <1>8, <1>9, <1>10, SpaceBegin, SpaceAppend
     DEF Next, Op, LogStep

(* IInv is inductive.                                                      *)
LEMMA StepInv ==
  ASSUME IInv, [Next]_vars
  PROVE  IInv'
  BY TypeStep, PhaseStep, CacheStep, CopyStep, SpaceStep DEF IInv

(* The inductive invariant holds in every reachable state.                 *)
THEOREM Invariance == Spec => []IInv
<1>1. Init => IInv
  BY InitInv
<1>2. IInv /\ [Next]_vars => IInv'
  BY StepInv
<1> QED
  BY <1>1, <1>2, PTL DEF Spec

(* Types: log.outstanding is never negative, no block outside the log area *)
(* is written.                                                             *)
THEOREM TypeCorrect == Spec => []TypeOK
  BY Invariance, PTL DEF IInv

(* begin_op() never sleeps on a quiet log.                                 *)
THEOREM SomebodyWakes == Spec => []SleeperHasWaker
<1>1. IInv => SleeperHasWaker
  BY DEF IInv, PhaseInv
<1> QED
  BY <1>1, Invariance, PTL
-----------------------------------------------------------------------------
(* An operation has at least its own unused blocks left.                   *)
LEMMA OwnRoom ==
  IInv => \A p \in Active : Len(lh) <= LOGSIZE - MAXOPBLOCKS + Cardinality(wrote[p])
<1> SUFFICES ASSUME IInv, NEW p \in Active
             PROVE  Len(lh) <= LOGSIZE - MAXOPBLOCKS + Cardinality(wrote[p])
  OBVIOUS
<1> DEFINE n == Cardinality(wrote[p])
           mine == {p} \X ((n + 1)..MAXOPBLOCKS)
<1>1. p \in Proc /\ n \in Nat /\ n <= MAXOPBLOCKS
  BY LogConstants, ActiveFinite, FS_CardinalityType DEF IInv, SpaceInv
<1> HIDE DEF n
<1>2. /\ IsFiniteSet((n + 1)..MAXOPBLOCKS)
      /\ Cardinality((n + 1)..MAXOPBLOCKS) = MAXOPBLOCKS - n
  <2>1. n + 1 \in Int /\ MAXOPBLOCKS \in Int
    BY <1>1, LogConstants
  <2>2. /\ IsFiniteSet((n + 1)..MAXOPBLOCKS)
        /\ Cardinality((n + 1)..MAXOPBLOCKS) =
             IF n + 1 > MAXOPBLOCKS THEN 0 ELSE MAXOPBLOCKS - (n + 1) + 1
    BY <2>1, FS_Interval
  <2> QED
    BY <1>1, <2>1, <2>2
<1>3. IsFiniteSet({p}) /\ Cardinality({p}) = 1
  BY FS_Singleton
<1>4. Cardinality(mine) = MAXOPBLOCKS - n
  <2>1. Cardinality(mine) = Cardinality({p}) * Cardinality((n + 1)..MAXOPBLOCKS)
    BY <1>2, <1>3, FS_Product
  <2> QED
    BY <1>1, <1>2, <1>3, <2>1, LogConstants
<1>5. mine \subseteq Room
  BY <1>1, LogConstants DEF Room, n
<1>6. Cardinality(mine) <= Cardinality(Room) /\ Cardinality(Room) \in Nat
  BY <1>5, RoomFinite, FS_Subset DEF IInv
<1> QED
  BY <1>1, <1>4, <1>6, LogConstants DEF IInv, SpaceInv, TypeOK, n

(* The same after a step.                                                  *)
LEMMA OwnRoomNext ==
  IInv' => (\A p \in Active : Len(lh) <= LOGSIZE - MAXOPBLOCKS + Cardinality(wrote[p]))'
  BY OwnRoom, PTL

(* What an operation leaves unused stays free for good.                    *)
FitInv ==
  /\ Len(lh) <= LOGSIZE - MAXOPBLOCKS + OpBlocks
  /\ Len(head) <= LOGSIZE - MAXOPBLOCKS + OpBlocks
  /\ NoPanic

(* The blocks that operations reserve and never use, and the difference    *)
(* between the log's real and its nominal size.                            *)
Slack ==
  /\ OpBlocks < MAXOPBLOCKS
  /\ LOGSIZE + OpBlocks + 1 < NLOG + MAXOPBLOCKS

(* Every step respects that bound.                                         *)
LEMMA FitStep ==
  ASSUME Slack, IInv, FitInv, [Next]_vars
  PROVE  FitInv'
<1> USE LogConstants DEF IInv, TypeOK, FitInv
<1>1. Len(lh) < LOGSIZE /\ Len(lh) < NLOG - 1 /\ Len(lh) \in Nat
  BY DEF Slack
<1>2. CASE UNCHANGED vars
  BY <1>2 DEF vars, NoPanic
<1>3. ASSUME NEW p \in Proc, BeginOp(p) \/ BeginSleep(p) \/ EndCommit(p)
      PROVE  FitInv'
  BY <1>3 DEF BeginOp, BeginSleep, EndCommit, Wakeup, diskVars, NoPanic
<1>4. ASSUME NEW p \in Proc, NEW b \in Block, NEW v \in Value, LogWrite(p, b, v)
      PROVE  FitInv'
  <2>1. p \in Active
    BY <1>4 DEF LogWrite, Active
  <2>2. outstanding >= 1
    BY <2>1, CountFacts
  <2> QED
    BY <1>1, <1>4, <2>2 DEF LogWrite, diskVars, NoPanic
<1>5. ASSUME NEW p \in Proc, LogAppend(p)
      PROVE  FitInv'
  <2>1. IInv' /\ p \in Active'
    BY <1>5, StepInv DEF LogAppend, Active
  <2>2. Len(lh') <= LOGSIZE - MAXOPBLOCKS + Cardinality(wrote'[p])
    BY <2>1, OwnRoomNext
  <2>3. Cardinality(wrote'[p]) <= OpBlocks /\ Cardinality(wrote'[p]) \in Nat
    BY <2>1, FS_CardinalityType DEF SpaceInv
  <2>4. Len(lh') \in Nat
    BY <2>1
  <2>5. Len(lh') <= LOGSIZE - MAXOPBLOCKS + OpBlocks
    <3> HIDE DEF IInv, TypeOK, FitInv
    <3> QED
      BY <2>2, <2>3, <2>4
  <2>6. head' = head /\ NoPanic'
    BY <1>5 DEF LogAppend, diskVars, NoPanic
  <2> QED
    BY <2>5, <2>6
<1>6. ASSUME NEW p \in Proc, EndOp(p)
      PROVE  FitInv'
  <2>1. ~committing
    BY <1>6 DEF EndOp, Active, PhaseInv
  <2> QED
    BY <1>6, <2>1 DEF EndOp, Wakeup, diskVars, NoPanic
<1>7. ASSUME NEW b \in Block, Evict(b)
      PROVE  FitInv'
  BY <1>7 DEF Evict, diskVars, opVars, NoPanic
<1>8. CASE LogStep
  BY <1>8 DEF LogStep, ReadHead, WriteLog, WriteHead, InstallTrans, EraseHead, diskVars,
              opVars, NoPanic
<1>9. CASE Crash
  BY <1>9 DEF Crash, diskVars, NoPanic
<1> QED
  BY <1>2, <1>3, <1>4, <1>5, <1>6, <1>7, <1>8, <1>9 DEF Next, Op

(* No panic and no overflow of the on-disk log, if every operation leaves  *)
(* enough of its reservation unused: with mkfs's nlog = LOGSIZE, two of    *)
(* its MAXOPBLOCKS blocks.                                                 *)
THEOREM NeverTooBig == ASSUME Slack PROVE Spec => []LogFits
<1>1. Init => FitInv
  BY LogConstants DEF Init, FitInv, NoPanic
<1>2. IInv /\ FitInv /\ [Next]_vars => FitInv'
  BY FitStep
<1>3. IInv /\ FitInv => LogFits
  BY LogConstants DEF FitInv, LogFits, Slack, IInv, TypeOK
<1> QED
  BY <1>1, <1>2, <1>3, Invariance, PTL DEF Spec

-----------------------------------------------------------------------------
(* The refinement.                                                         *)

(* What recovery makes of a block, without the CHOOSE.                     *)
LEMMA RecoveredAt ==
  TypeOK /\ CopyInv =>
    /\ Recovered \in [Block -> Value]
    /\ \A i \in 1..Len(head) : Recovered[head[i]] = logdata[i]
    /\ \A b \in Block : ~In(head, b) => Recovered[b] = disk[b]
<1> SUFFICES ASSUME TypeOK, CopyInv
             PROVE  /\ Recovered \in [Block -> Value]
                    /\ \A i \in 1..Len(head) : Recovered[head[i]] = logdata[i]
                    /\ \A b \in Block : ~In(head, b) => Recovered[b] = disk[b]
  OBVIOUS
<1> USE LogConstants DEF TypeOK
<1>1. \A i \in 1..Len(head) : Recovered[head[i]] = logdata[i]
  <2> SUFFICES ASSUME NEW i \in 1..Len(head)
               PROVE  Recovered[head[i]] = logdata[i]
    OBVIOUS
  <2> DEFINE k == CHOOSE j \in 1..Len(head) : head[j] = head[i]
  <2>1. k \in 1..Len(head) /\ head[k] = head[i]
    OBVIOUS
  <2>2. k = i
    BY <2>1 DEF CopyInv, Inj
  <2>3. head[i] \in Block
    OBVIOUS
  <2>4. Recovered[head[i]] = logdata[k]
    BY <2>3 DEF Recovered
  <2> QED
    BY <2>2, <2>4
<1>2. \A b \in Block : ~In(head, b) => Recovered[b] = disk[b]
  BY DEF Recovered, In
<1>3. \A i \in 1..Len(head) : logdata[i] \in Value
  BY DEF CopyInv
<1>4. \A b \in Block : Recovered[b] \in Value
  BY <1>1, <1>2, <1>3 DEF In
<1>5. Recovered = [b \in Block |-> Recovered[b]]
  BY DEF Recovered
<1> QED
  BY <1>1, <1>2, <1>4, <1>5

(* The same after a step.                                                  *)
LEMMA RecoveredAtNext ==
  TypeOK' /\ CopyInv' =>
    /\ Recovered' \in [Block -> Value]
    /\ \A i \in 1..Len(head') : Recovered'[head'[i]] = logdata'[i]
    /\ \A b \in Block : ~In(head', b) => Recovered'[b] = disk'[b]
<1>1. (TypeOK /\ CopyInv =>
         /\ Recovered \in [Block -> Value]
         /\ \A i \in 1..Len(head) : Recovered[head[i]] = logdata[i]
         /\ \A b \in Block : ~In(head, b) => Recovered[b] = disk[b])'
  BY RecoveredAt, PTL
<1> QED
  BY <1>1 DEF In

(* With an empty header the disk is taken as it is.                        *)
LEMMA RecoveredEmpty ==
  ASSUME TypeOK, CopyInv, head = << >>
  PROVE  Recovered = disk
  BY RecoveredAt DEF In, TypeOK

(* While no operation holds a buffer and none is pinned, the cache is the  *)
(* disk.                                                                   *)
LEMMA QuietCache ==
  ASSUME TypeOK, CacheInv, Active = {}, dirty = {}
  PROVE  cache = disk
<1>1. \A p \in Proc : buf[p] = NoBlock
  BY DEF CacheInv, Active
<1>2. \A b \in Block : cache[b] = disk[b]
  BY <1>1, LogConstants DEF CacheInv
<1> QED
  BY <1>2 DEF TypeOK

(* Each step of an operation is a step of the atomic disk, or none.        *)
LEMMA RefineOp ==
  ASSUME IInv, NEW p \in Proc, Op(p)
  PROVE  [Abstract!Next]_(Abstract!vars)
<1> USE DEF IInv, Abstract!Next, Abstract!vars
<1>1. Recovered' = Recovered
  BY DEF Op, BeginOp, BeginSleep, LogWrite, LogAppend, EndOp, EndCommit, diskVars, Recovered
<1>2. p \in Active => stage = "idle"
  BY DEF PhaseInv
<1>3. CASE BeginOp(p)
  <2>1. p \notin Active /\ Active' = Active \cup {p}
    BY <1>3 DEF BeginOp, Active, TypeOK
  <2>2. ~Recovering /\ ~Recovering' /\ cache' = cache
    BY <1>3 DEF BeginOp, Recovering
  <2> QED
    BY <1>1, <2>1, <2>2 DEF Abstract!Begin
<1>4. CASE BeginSleep(p)
  <2>1. Active' = Active
    BY <1>4 DEF BeginSleep, Active, TypeOK
  <2>2. ~Recovering /\ ~Recovering' /\ cache' = cache
    BY <1>4 DEF BeginSleep, Recovering
  <2> QED
    BY <1>1, <2>1, <2>2
<1>5. ASSUME NEW b \in Block, NEW v \in Value, LogWrite(p, b, v)
      PROVE  [Abstract!Next]_(Abstract!vars)
  <2>1. p \in Active /\ Active' = Active
    BY <1>5 DEF LogWrite, Active, TypeOK
  <2>2. ~Recovering /\ ~Recovering'
    BY <1>2, <1>5, <2>1 DEF LogWrite, Recovering
  <2>3. cache' = [cache EXCEPT ![b] = v]
    BY <1>5 DEF LogWrite
  <2> QED
    BY <1>1, <2>1, <2>2, <2>3 DEF Abstract!Write
<1>6. CASE LogAppend(p)
  <2>1. p \in Active /\ Active' = Active
    BY <1>6 DEF LogAppend, Active, TypeOK
  <2>2. ~Recovering /\ ~Recovering' /\ cache' = cache
    BY <1>2, <1>6, <2>1 DEF LogAppend, Recovering
  <2> QED
    BY <1>1, <2>1, <2>2
<1>7. CASE EndOp(p)
  <2>1. p \in Active
    BY <1>7 DEF EndOp, Active
  <2>2. ~Recovering /\ ~committing
    BY <1>2, <2>1 DEF Recovering, PhaseInv
  <2>3. Active' = Active \ {p}
    BY <1>7, <2>2 DEF EndOp, Active, Wakeup, TypeOK
  <2>4. ~Recovering' /\ cache' = cache
    BY <1>2, <1>7, <2>1, <2>2 DEF EndOp, Recovering
  <2> QED
    BY <1>1, <2>1, <2>2, <2>3, <2>4 DEF Abstract!End
<1>8. CASE EndCommit(p)
  <2>1. Active' = Active
    BY <1>8 DEF EndCommit, Active, Wakeup, TypeOK
  <2>2. ~Recovering /\ ~Recovering' /\ cache' = cache
    BY <1>8 DEF EndCommit, Recovering, PhaseInv
  <2> QED
    BY <1>1, <2>1, <2>2
<1> QED
  BY <1>3, <1>4, <1>5, <1>6, <1>7, <1>8 DEF Op

(* Of the disk writes of commit() and recovery only write_head() is a      *)
(* step of the atomic disk.                                                *)
LEMMA RefineLog ==
  ASSUME IInv, IInv', LogStep
  PROVE  [Abstract!Next]_(Abstract!vars)
<1> USE DEF IInv, Abstract!Next, Abstract!vars
<1>0. Active' = Active
  BY DEF LogStep, ReadHead, WriteLog, WriteHead, InstallTrans, EraseHead, opVars, Active
<1>1. CASE ReadHead
  <2>1. Recovered' = Recovered
    BY <1>1 DEF ReadHead, diskVars, Recovered
  <2>2. Recovering /\ Recovering'
    BY <1>1 DEF ReadHead, opVars, Recovering, PhaseInv
  <2> QED
    BY <1>0, <2>1, <2>2
<1>2. CASE WriteLog
  <2>1. head = << >> /\ head' = << >> /\ disk' = disk
    BY <1>2 DEF WriteLog, EmptyInv
  <2>2. Recovered = disk
    BY <2>1, RecoveredEmpty
  <2>3. Recovered' = disk
    BY <2>1, RecoveredAtNext DEF In, TypeOK
  <2>4. ~Recovering /\ ~Recovering' /\ cache' = cache
    BY <1>2 DEF WriteLog, opVars, Recovering, PhaseInv
  <2> QED
    BY <1>0, <2>2, <2>3, <2>4
<1>3. CASE WriteHead
  <2>1. head' = lh /\ disk' = disk /\ logdata' = logdata /\ cache' = cache
    BY <1>3 DEF WriteHead
  <2>2. ~Recovering /\ ~Recovering' /\ Active = {}
    BY <1>3 DEF WriteHead, opVars, Recovering, PhaseInv
  <2>3. \A i \in 1..Len(lh) : logdata[i] = cache[lh[i]]
    BY <1>3 DEF WriteHead, CopyInv, TypeOK
  <2>4. \A b \in Block : ~In(lh, b) => cache[b] = disk[b]
    BY <2>2, LogConstants DEF CacheInv, Active
  <2>5. ASSUME NEW b \in Block PROVE Recovered'[b] = cache[b]
    <3>1. CASE In(lh, b)
      <4>1. PICK i \in 1..Len(lh) : lh[i] = b
        BY <3>1 DEF In
      <4>2. Recovered'[b] = logdata[i]
        BY <2>1, <4>1, RecoveredAtNext
      <4> QED
        BY <2>3, <4>1, <4>2
    <3>2. CASE ~In(lh, b)
      <4>1. Recovered'[b] = disk[b]
        BY <2>1, <3>2, RecoveredAtNext DEF In
      <4> QED
        BY <2>4, <3>2, <4>1
    <3> QED
      BY <3>1, <3>2
  <2>6. Recovered' = cache
    BY <2>5, RecoveredAtNext DEF TypeOK
  <2> QED
    BY <1>0, <2>1, <2>2, <2>6 DEF Abstract!Commit
<1>4. CASE InstallTrans
  <2>1. /\ tail \in 1..Len(lh) /\ head = lh /\ head' = lh /\ logdata' = logdata
        /\ disk' = [disk EXCEPT ![lh[tail]] = logdata[tail]]
        /\ cache' = [cache EXCEPT ![lh[tail]] = logdata[tail]]
    BY <1>4 DEF InstallTrans, CopyInv, TypeOK
  <2>2. \A b \in Block : ~In(lh, b) => disk'[b] = disk[b]
    BY <2>1 DEF In, TypeOK
  <2>3. \A b \in Block : Recovered'[b] = Recovered[b]
    BY <2>1, <2>2, RecoveredAt, RecoveredAtNext DEF In
  <2>4. Recovered' = Recovered
    <3>1. Recovered \in [Block -> Value] /\ Recovered' \in [Block -> Value]
      BY RecoveredAt, RecoveredAtNext
    <3> HIDE DEF IInv
    <3> QED
      BY <2>3, <3>1
  <2>5. committing => cache' = cache
    BY <1>4, <2>1 DEF InstallTrans, CopyInv, TypeOK
  <2>6. Recovering' <=> Recovering
    BY <1>4 DEF InstallTrans, opVars, Recovering
  <2>7. Recovering <=> ~committing
    BY <1>4 DEF InstallTrans, Recovering
  <2> QED
    BY <1>0, <2>4, <2>5, <2>6, <2>7
<1>5. CASE EraseHead
  <2>1. /\ head = lh /\ head' = << >> /\ disk' = disk /\ cache' = cache
        /\ \A i \in 1..Len(lh) : disk[lh[i]] = logdata[i]
    BY <1>5 DEF EraseHead, CopyInv, TypeOK
  <2>2. \A b \in Block : Recovered[b] = disk[b]
    BY <2>1, RecoveredAt DEF In
  <2>3. Recovered = disk
    BY <2>2, RecoveredAt DEF TypeOK
  <2>4. Recovered' = disk
    BY <2>1, RecoveredAtNext DEF In, TypeOK
  <2>5. ~Recovering'
    BY <1>5 DEF EraseHead, opVars, Recovering
  <2>6. Recovering => cache = disk
    BY <1>5, QuietCache DEF EraseHead, CacheInv, PhaseInv
  <2> QED
    BY <1>0, <2>1, <2>3, <2>4, <2>5, <2>6
<1> QED
  BY <1>1, <1>2, <1>3, <1>4, <1>5 DEF LogStep

(* begin_op() .. end_op() is atomic across crashes: the log implements the *)
(* atomic disk, for any number of processes and blocks and any size of the *)
(* log.                                                                    *)
THEOREM ImplementsAtomicDisk == Spec => CrashAtomic
<1>1. Init => Abstract!Init
  <2> SUFFICES ASSUME Init PROVE Abstract!Init
    OBVIOUS
  <2>1. IInv
    BY InitInv
  <2>2. Recovered = disk
    BY <2>1, RecoveredEmpty DEF IInv, Init
  <2>3. Recovering /\ Active = {}
    BY DEF Init, Recovering, Active
  <2> QED
    BY <2>2, <2>3 DEF Init, Abstract!Init
<1>2. IInv /\ IInv' /\ [Next]_vars => [Abstract!Next]_(Abstract!vars)
  <2> SUFFICES ASSUME IInv, IInv', [Next]_vars
               PROVE  [Abstract!Next]_(Abstract!vars)
    OBVIOUS
  <2>1. CASE UNCHANGED vars
    BY <2>1 DEF vars, Abstract!vars, Recovered, Recovering, Active
  <2>2. ASSUME NEW b \in Block, Evict(b)
        PROVE  [Abstract!Next]_(Abstract!vars)
    <3>1. cache' = cache
      BY <2>2 DEF Evict, IInv, TypeOK, CacheInv
    <3>2. Recovered' = Recovered /\ Recovering' = Recovering /\ Active' = Active
      BY <2>2 DEF Evict, diskVars, opVars, Recovered, Recovering, Active
    <3> QED
      BY <3>1, <3>2 DEF Abstract!vars
  <2>3. CASE Crash
    <3>1. Recovered' = Recovered
      BY <2>3 DEF Crash, diskVars, Recovered
    <3>2. Recovering' /\ Active' = {}
      BY <2>3 DEF Crash, Recovering, Active
    <3> QED
      BY <3>1, <3>2 DEF Abstract!Next, Abstract!Crash
  <2> QED
    BY <2>1, <2>2, <2>3, RefineOp, RefineLog DEF Next
<1> QED
  BY <1>1, <1>2, Invariance, PTL DEF Spec, CrashAtomic, Abstract!Spec
=============================================================================
