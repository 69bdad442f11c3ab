-------------------------------- MODULE Log --------------------------------
(***************************************************************************)
(* The redo log of log.c over the buffer cache and the disk.              *)
(*                                                                        *)
(* Every section under log.lock is one action; so is every disk write of  *)
(* a block (bwrite), which the disk performs whole or not at all.  A      *)
(* crash may come between any two actions and recovery may itself crash.  *)
(* sleep(&log, &log.lock) and wakeup(&log) move processes between "asleep"*)
(* and "begin"; that the pair loses no wakeup is the subject of module    *)
(* SleepLock.                                                             *)
(***************************************************************************)
EXTENDS Integers, Sequences, FiniteSets

CONSTANTS Proc,         \* processes that run file system calls
          Block,        \* home block numbers
          Value,        \* contents of a block
          NoBlock,      \* "holds no buffer"
          MAXOPBLOCKS,  \* blocks reserved for each operation (param.h)
          LOGSIZE,      \* capacity begin_op() divides up (param.h)
          NLOG,         \* log.size: blocks of the on-disk log, header included
          OpBlocks      \* blocks an operation really writes at most

ASSUME LogConstants ==
  /\ IsFiniteSet(Proc)
  /\ MAXOPBLOCKS \in Nat \ {0}
  /\ LOGSIZE \in Nat
  /\ MAXOPBLOCKS <= LOGSIZE
  /\ NLOG \in Nat
  /\ OpBlocks \in 0..MAXOPBLOCKS
  /\ NoBlock \notin Block

VARIABLES
  disk,        \* home blocks on the disk
  logdata,     \* blocks log.start+1 .. of the on-disk log
  head,        \* on-disk log header: the block numbers of a transaction
  cache,       \* contents of the buffer cache (a clean block reads as disk)
  dirty,       \* buffers pinned by B_DIRTY
  lh,          \* log.lh, the header in memory
  outstanding, \* log.outstanding
  committing,  \* log.committing
  pc,          \* where each process is
  buf,         \* the locked buffer each process has modified
  wrote,       \* blocks each operation has logged
  stage,       \* where commit() or recover_from_log() is
  tail         \* its loop index (from 1)

diskVars == <<disk, logdata, head>>
opVars   == <<outstanding, committing, pc, wrote>>
vars     == <<disk, logdata, head, cache, dirty, lh, outstanding, committing,
              pc, buf, wrote, stage, tail>>

Location == {"out", "asleep", "begin", "in", "logging", "commit", "panic"}
Stage    == {"idle", "read", "log", "install", "done"}

TypeOK ==
  /\ disk \in [Block -> Value]
  /\ logdata \in [1..LOGSIZE -> Value]
  /\ head \in Seq(Block)
  /\ cache \in [Block -> Value]
  /\ dirty \in SUBSET Block
  /\ lh \in Seq(Block)
  /\ outstanding \in Nat
  /\ committing \in BOOLEAN
  /\ pc \in [Proc -> Location]
  /\ buf \in [Proc -> Block \cup {NoBlock}]
  /\ wrote \in [Proc -> SUBSET Block]
  /\ stage \in Stage
  /\ tail \in Nat \ {0}

-----------------------------------------------------------------------------
(* A freshly made file system (mkfs zeroes the log) about to boot.         *)
Init ==
  /\ disk \in [Block -> Value]
  /\ \E v \in Value : logdata = [i \in 1..LOGSIZE |-> v]
  /\ head = << >>
  /\ cache = disk
  /\ dirty = {}
  /\ lh = << >>
  /\ outstanding = 0
  /\ committing = FALSE
  /\ pc = [p \in Proc |-> "out"]
  /\ buf = [p \in Proc |-> NoBlock]
  /\ wrote = [p \in Proc |-> {}]
  /\ stage = "read"
  /\ tail = 1

Recovering == stage # "idle" /\ ~committing

(* wakeup(&log): every process asleep on the log tries begin_op() again.   *)
Wakeup(loc) == [q \in Proc |-> IF loc[q] = "asleep" THEN "begin" ELSE loc[q]]

-----------------------------------------------------------------------------
(* Operations.                                                             *)

Admits == ~committing /\ Len(lh) + (outstanding + 1) * MAXOPBLOCKS <= LOGSIZE

(* begin_op(); file system calls start only once the first process has run *)
(* initlog() (forkret).                                                    *)
BeginOp(p) ==
  /\ pc[p] \in {"out", "begin"} /\ ~Recovering
  /\ Admits
  /\ outstanding' = outstanding + 1
  /\ pc' = [pc EXCEPT ![p] = "in"]
  /\ wrote' = [wrote EXCEPT ![p] = {}]
  /\ UNCHANGED <<diskVars, cache, dirty, lh, committing, buf, stage, tail>>

BeginSleep(p) ==
  /\ pc[p] \in {"out", "begin"} /\ ~Recovering
  /\ ~Admits
  /\ pc' = [pc EXCEPT ![p] = "asleep"]
  /\ UNCHANGED <<diskVars, cache, dirty, lh, outstanding, committing, buf, wrote, stage, tail>>

(* bread(), a modification of the buffer, and the checks log_write() makes *)
(* before it takes log.lock; panic() stops the process for good.           *)
LogWrite(p, b, v) ==
  /\ pc[p] = "in"
  /\ \A q \in Proc : buf[q] # b
  /\ Cardinality(wrote[p] \cup {b}) <= OpBlocks
  /\ cache' = [cache EXCEPT ![b] = v]
  /\ buf' = [buf EXCEPT ![p] = b]
  /\ pc' = [pc EXCEPT ![p] = IF Len(lh) >= LOGSIZE \/ Len(lh) >= NLOG - 1 \/ outstanding < 1
                             THEN "panic" ELSE "logging"]
  /\ UNCHANGED <<diskVars, dirty, lh, outstanding, committing, wrote, stage, tail>>

(* log_write() under log.lock, with absorption, and brelse().              *)
LogAppend(p) ==
  /\ pc[p] = "logging"
  /\ lh' = IF \E i \in 1..Len(lh) : lh[i] = buf[p] THEN lh ELSE Append(lh, buf[p])
  /\ dirty' = dirty \cup {buf[p]}
  /\ wrote' = [wrote EXCEPT ![p] = @ \cup {buf[p]}]
  /\ buf' = [buf EXCEPT ![p] = NoBlock]
  /\ pc' = [pc EXCEPT ![p] = "in"]
  /\ UNCHANGED <<diskVars, cache, outstanding, committing, stage, tail>>

(* end_op(): the last operation out becomes the committer.                 *)
EndOp(p) ==
  /\ pc[p] = "in"
  /\ outstanding' = outstanding - 1
  /\ IF committing
     THEN /\ pc' = [pc EXCEPT ![p] = "panic"]
          /\ UNCHANGED <<committing, stage, tail>>
     ELSE IF outstanding' = 0
     THEN /\ committing' = TRUE
          /\ pc' = [pc EXCEPT ![p] = "commit"]
          /\ stage' = IF Len(lh) > 0 THEN "log" ELSE "done"
          /\ tail' = 1
     ELSE /\ pc' = Wakeup([pc EXCEPT ![p] = "out"])
          /\ UNCHANGED <<committing, stage, tail>>
  /\ UNCHANGED <<diskVars, cache, dirty, lh, buf, wrote>>

(* Faulty: end_op() forgets wakeup(&log) after the commit.                 *)
EndCommitNoWakeup(p) ==
  /\ pc[p] = "commit" /\ stage = "done"
  /\ committing' = FALSE
  /\ stage' = "idle"
  /\ pc' = [pc EXCEPT ![p] = "out"]
  /\ UNCHANGED <<diskVars, cache, dirty, lh, outstanding, buf, wrote, tail>>

(* Faulty: end_op() leaves log.committing set.                             *)
EndCommitStays(p) ==
  /\ pc[p] = "commit" /\ stage = "done"
  /\ stage' = "idle"
  /\ pc' = Wakeup([pc EXCEPT ![p] = "out"])
  /\ UNCHANGED <<diskVars, cache, dirty, lh, outstanding, committing, buf, wrote, tail>>

(* The end of end_op(), after commit() has returned.                       *)
EndCommit(p) ==
  /\ pc[p] = "commit" /\ stage = "done"
  /\ committing' = FALSE
  /\ stage' = "idle"
  /\ pc' = Wakeup([pc EXCEPT ![p] = "out"])
  /\ UNCHANGED <<diskVars, cache, dirty, lh, outstanding, buf, wrote, tail>>

(* A clean buffer nobody holds may be recycled; it is read again from disk.*)
Evict(b) ==
  /\ b \notin dirty /\ \A p \in Proc : buf[p] # b
  /\ cache' = [cache EXCEPT ![b] = disk[b]]
  /\ UNCHANGED <<diskVars, opVars, dirty, lh, buf, stage, tail>>
-----------------------------------------------------------------------------
(* commit() and recover_from_log(), one disk write at a time.              *)

(* read_head(), at boot.                                                   *)
ReadHead ==
  /\ stage = "read"
  /\ lh' = head
  /\ stage' = "install"
  /\ tail' = 1
  /\ UNCHANGED <<diskVars, opVars, cache, dirty, buf>>

(* write_log(): one turn of the loop.                                      *)
WriteLog ==
  /\ stage = "log" /\ tail <= Len(lh)
  /\ logdata' = [logdata EXCEPT ![tail] = cache[lh[tail]]]
  /\ tail' = tail + 1
  /\ UNCHANGED <<disk, head, opVars, cache, dirty, lh, buf, stage>>

(* Faulty: commit() writes the header before the last block of the log.    *)
WriteHeadEarly ==
  /\ stage = "log" /\ tail >= Len(lh)
  /\ head' = lh
  /\ stage' = "install"
  /\ tail' = 1
  /\ UNCHANGED <<disk, logdata, opVars, cache, dirty, lh, buf>>

(* write_head() with n > 0: the transaction commits here.                  *)
WriteHead ==
  /\ stage = "log" /\ tail > Len(lh)
  /\ head' = lh
  /\ stage' = "install"
  /\ tail' = 1
  /\ UNCHANGED <<disk, logdata, opVars, cache, dirty, lh, buf>>

(* install_trans(): one turn of the loop; bwrite() leaves the home buffer  *)
(* clean.                                                                  *)
InstallTrans ==
  /\ stage = "install" /\ tail <= Len(lh)
  /\ disk' = [disk EXCEPT ![lh[tail]] = logdata[tail]]
  /\ cache' = [cache EXCEPT ![lh[tail]] = logdata[tail]]
  /\ dirty' = dirty \ {lh[tail]}
  /\ tail' = tail + 1
  /\ UNCHANGED <<logdata, head, opVars, lh, buf, stage>>

(* log.lh.n = 0; write_head(): the transaction is erased.                  *)
EraseHead ==
  /\ stage = "install" /\ tail > Len(lh)
  /\ lh' = << >>
  /\ head' = << >>
  /\ stage' = IF committing THEN "done" ELSE "idle"
  /\ UNCHANGED <<disk, logdata, opVars, cache, dirty, buf, tail>>

(* The machine stops: memory is lost, the disk is not, and it boots again. *)
Crash ==
  /\ cache' = disk
  /\ dirty' = {}
  /\ lh' = << >>
  /\ outstanding' = 0
  /\ committing' = FALSE
  /\ pc' = [p \in Proc |-> "out"]
  /\ buf' = [p \in Proc |-> NoBlock]
  /\ wrote' = [p \in Proc |-> {}]
  /\ stage' = "read"
  /\ tail' = 1
  /\ UNCHANGED <<diskVars>>

Op(p) ==
  \/ BeginOp(p)
  \/ BeginSleep(p)
  \/ \E b \in Block, v \in Value : LogWrite(p, b, v)
  \/ LogAppend(p)
  \/ EndOp(p)
  \/ EndCommit(p)

LogStep == ReadHead \/ WriteLog \/ WriteHead \/ InstallTrans \/ EraseHead

Next ==
  \/ \E p \in Proc : Op(p)
  \/ LogStep
  \/ \E b \in Block : Evict(b)
  \/ Crash

Spec == Init /\ [][Next]_vars

(* Disk writes complete, and every operation writes finitely often before  *)
(* it calls end_op(): it may log blocks in between, so fairness is strong. *)
FairSpec ==
  /\ Spec
  /\ WF_vars(LogStep)
  /\ \A p \in Proc : /\ WF_vars(EndCommit(p))
                     /\ WF_vars(LogAppend(p))
                     /\ SF_vars(EndOp(p))
-----------------------------------------------------------------------------
(* Properties.                                                             *)

(* log_write() panics ("too big a transaction") for no operation that      *)
(* begin_op() let in.                                                      *)
NoPanic == \A p \in Proc : pc[p] # "panic"

(* begin_op() reserves enough: no transaction outgrows the on-disk log,    *)
(* although log_write() tests the room before it takes log.lock and other  *)
(* operations may append in between, and none of the panics of log_write() *)
(* and end_op() is reached.                                                *)
LogFits == Len(lh) <= NLOG - 1 /\ NoPanic

(* begin_op() never sleeps on a quiet log: while a process is asleep there *)
(* is an operation or a commit whose end will call wakeup(&log).           *)
SleeperHasWaker ==
  (\E p \in Proc : pc[p] = "asleep") => outstanding > 0 \/ committing

(* A process that begin_op() put to sleep is woken in the end.             *)
SleeperWakes == \A p \in Proc : pc[p] = "asleep" ~> pc[p] # "asleep"

(* Processes between begin_op() and end_op().                              *)
Active == {p \in Proc : pc[p] \in {"in", "logging", "panic"}}

(* What recovery would make of the disk: the home blocks, overlaid by the  *)
(* transaction the header names.                                           *)
Recovered ==
  [b \in Block |-> IF \E i \in 1..Len(head) : head[i] = b
                   THEN logdata[CHOOSE i \in 1..Len(head) : head[i] = b]
                   ELSE disk[b]]

(* The log implements the atomic disk: a group of operations commits as a  *)
(* whole in the single write of write_head(), a crash at any point, also   *)
(* inside recovery, keeps the last commit and nothing of a later one, and  *)
(* running operations always read their own writes.                        *)
Abstract == INSTANCE AtomicDisk WITH
  durable <- Recovered,
  mem     <- IF Recovering THEN Recovered ELSE cache,
  active  <- Active

CrashAtomic == Abstract!Spec
=============================================================================
