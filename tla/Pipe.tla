-------------------------------- MODULE Pipe --------------------------------
(***************************************************************************)
(* Pipes (pipe.c) and the descriptors that refer to their two ends.       *)
(*                                                                        *)
(* pipewrite() and piperead() hold p->lock from one sleep() to the next,  *)
(* and sleep() gives it up atomically, so each stretch in between is one  *)
(* action.  fileclose() drops its reference under ftable.lock and calls   *)
(* pipeclose() after it has released that lock: two actions.              *)
(***************************************************************************)
EXTENDS Integers, Sequences

CONSTANTS Proc,
          Byte,
          PIPESIZE,
          UINT,            \* number of values of a uint (2^32)
          MaxLen,          \* bound on the length of a transfer
          Readers,         \* processes that have the read end open at first
          Writers          \* and the write end

(* The counters wrap around where the index into data does too.            *)
ASSUME PipeConstants ==
  /\ PIPESIZE \in Nat \ {0} /\ UINT \in Nat /\ PIPESIZE < UINT /\ UINT % PIPESIZE = 0
  /\ MaxLen \in Nat
  /\ Readers \subseteq Proc /\ Writers \subseteq Proc /\ Readers # {} /\ Writers # {}

VARIABLES data, nread, nwrite, readopen, writeopen,   \* struct pipe
          alive,     \* the page of the pipe is allocated
          readEnd,   \* processes whose descriptors refer to the read end
          writeEnd,  \* and to the write end
          pc, killed,
          todo,      \* bytes the process still has to write
          want,      \* bytes it wants to read
          result,    \* bytes the last read returned
          owed       \* a killed writer left bytes without wakeup(&nread)

pipeVars == <<data, nread, nwrite, readopen, writeopen, alive>>
vars == <<pipeVars, readEnd, writeEnd, pc, killed, todo, want, result, owed>>

Location == {"user", "write", "wsleep", "read", "rsleep", "closeR", "closeW"}
Strings  == UNION {[1..n -> Byte] : n \in 0..MaxLen}
Index    == 0..(PIPESIZE - 1)

TypeOK ==
  /\ data \in [Index -> Byte]
  /\ nread \in 0..(UINT - 1) /\ nwrite \in 0..(UINT - 1)
  /\ (nwrite - nread) % UINT <= PIPESIZE
  /\ readopen \in BOOLEAN /\ writeopen \in BOOLEAN /\ alive \in BOOLEAN
  /\ readEnd \subseteq Proc /\ writeEnd \subseteq Proc
  /\ pc \in [Proc -> Location]
  /\ killed \in [Proc -> BOOLEAN]
  /\ todo \in [Proc -> Strings]
  /\ want \in [Proc -> 0..MaxLen]
  /\ result \in Strings
  /\ owed \in BOOLEAN

(* pipealloc(); the descriptors have been inherited through fork().  The   *)
(* counters start anywhere, as after a long use.                           *)
Init ==
  /\ \E b \in Byte : data = [i \in Index |-> b]
  /\ nread \in 0..(UINT - 1) /\ nwrite = nread
  /\ readopen = TRUE /\ writeopen = TRUE /\ alive = TRUE
  /\ readEnd = Readers /\ writeEnd = Writers
  /\ pc = [p \in Proc |-> "user"]
  /\ killed = [p \in Proc |-> FALSE]
  /\ todo = [p \in Proc |-> << >>]
  /\ want = [p \in Proc |-> 0]
  /\ result = << >>
  /\ owed = FALSE
-----------------------------------------------------------------------------
Full  == nwrite = (nread + PIPESIZE) % UINT
Empty == nread = nwrite
Used  == (nwrite - nread) % UINT
Least(m, n) == IF m < n THEN m ELSE n

(* Where byte i after counter n is kept.                                   *)
Place(n, i) == ((n + i) % UINT) % PIPESIZE

Stored(s, k) ==
  [j \in Index |-> IF \E i \in 0..(k - 1) : Place(nwrite, i) = j
                   THEN s[1 + CHOOSE i \in 0..(k - 1) : Place(nwrite, i) = j]
                   ELSE data[j]]

LoadedNext(k) == [i \in 1..k |-> data[Place(nread, i)]]   \* faulty: ++nread

Loaded(k) == [i \in 1..k |-> data[Place(nread, i - 1)]]

(* The locations after wakeup(&p->nread), wakeup(&p->nwrite): a process    *)
(* that wakes tests its condition again.                                   *)
WakeReaders(loc) == [p \in Proc |-> IF loc[p] = "rsleep" THEN "read" ELSE loc[p]]
WakeWriters(loc) == [p \in Proc |-> IF loc[p] = "wsleep" THEN "write" ELSE loc[p]]

Goto(p, loc) == [pc EXCEPT ![p] = loc]
-----------------------------------------------------------------------------
(* write().                                                                *)
StartWrite(p, s) ==
  /\ pc[p] = "user" /\ p \in writeEnd /\ ~killed[p]
  /\ pc' = Goto(p, "write")
  /\ todo' = [todo EXCEPT ![p] = s]
  /\ UNCHANGED <<pipeVars, readEnd, writeEnd, killed, want, result, owed>>

(* Bytes are stored until none is left or the pipe is full.                *)
Fits(p) == Least(Len(todo[p]), PIPESIZE - Used)

Store(p) ==
  /\ pc[p] = "write"
  /\ data' = Stored(todo[p], Fits(p))
  /\ nwrite' = (nwrite + Fits(p)) % UINT
  /\ UNCHANGED <<nread, readopen, writeopen, alive, readEnd, writeEnd, killed, want, result>>

(* All are stored: write() returns.                                        *)
WriteDone(p) ==
  /\ Fits(p) = Len(todo[p]) /\ Store(p)
  /\ todo' = [todo EXCEPT ![p] = << >>]
  /\ pc' = WakeReaders(Goto(p, "user"))
  /\ owed' = FALSE

(* The pipe is full and nobody will read, or the writer is killed.         *)
WriteFail(p) ==
  /\ Fits(p) < Len(todo[p]) /\ Store(p)
  /\ ~readopen \/ killed[p]
  /\ todo' = [todo EXCEPT ![p] = << >>]
  /\ pc' = Goto(p, "user")
  /\ owed' = (owed \/ Fits(p) > 0)

(* Faulty: the readers are not woken before the writer sleeps.             *)
WriteSleepQuiet(p) ==
  /\ Fits(p) < Len(todo[p]) /\ Store(p)
  /\ readopen /\ ~killed[p]
  /\ todo' = [todo EXCEPT ![p] = SubSeq(@, Fits(p) + 1, Len(@))]
  /\ pc' = Goto(p, "wsleep")
  /\ UNCHANGED owed

WriteSleep(p) ==
  /\ Fits(p) < Len(todo[p]) /\ Store(p)
  /\ readopen /\ ~killed[p]
  /\ todo' = [todo EXCEPT ![p] = SubSeq(@, Fits(p) + 1, Len(@))]
  /\ pc' = WakeReaders(Goto(p, "wsleep"))
  /\ owed' = FALSE

(* read().                                                                 *)
StartRead(p, n) ==
  /\ pc[p] = "user" /\ p \in readEnd /\ ~killed[p]
  /\ pc' = Goto(p, "read")
  /\ want' = [want EXCEPT ![p] = n]
  /\ UNCHANGED <<pipeVars, readEnd, writeEnd, killed, todo, result, owed>>

ReadSleep(p) ==
  /\ pc[p] = "read" /\ Empty /\ writeopen
  /\ pc' = Goto(p, IF killed[p] THEN "user" ELSE "rsleep")
  /\ UNCHANGED <<pipeVars, readEnd, writeEnd, killed, todo, want, result, owed>>

ReadDone(p) ==
  LET k == Least(want[p], Used)
  IN /\ pc[p] = "read" /\ ~(Empty /\ writeopen)
     /\ result' = Loaded(k)
     /\ nread' = (nread + k) % UINT
     /\ want' = [want EXCEPT ![p] = 0]
     /\ pc' = WakeWriters(Goto(p, "user"))
     /\ UNCHANGED <<data, nwrite, readopen, writeopen, alive, readEnd, writeEnd,
                    killed, todo, owed>>
-----------------------------------------------------------------------------
(* fileclose(): the last reference to an end closes it, a moment later.    *)
CloseRead(p) ==
  /\ pc[p] = "user" /\ p \in readEnd
  /\ readEnd' = readEnd \ {p}
  /\ pc' = IF readEnd' = {} THEN Goto(p, "closeR") ELSE pc
  /\ UNCHANGED <<pipeVars, writeEnd, killed, todo, want, result, owed>>

CloseWrite(p) ==
  /\ pc[p] = "user" /\ p \in writeEnd
  /\ writeEnd' = writeEnd \ {p}
  /\ pc' = IF writeEnd' = {} THEN Goto(p, "closeW") ELSE pc
  /\ UNCHANGED <<pipeVars, readEnd, killed, todo, want, result, owed>>

(* pipeclose() frees the pipe when the other end is closed too.            *)
PipeCloseRead(p) ==
  /\ pc[p] = "closeR"
  /\ readopen' = FALSE
  /\ pc' = WakeWriters(Goto(p, "user"))
  /\ alive' = writeopen
  /\ UNCHANGED <<data, nread, nwrite, writeopen, readEnd, writeEnd, killed, todo, want,
                 result, owed>>

PipeCloseWrite(p) ==
  /\ pc[p] = "closeW"
  /\ writeopen' = FALSE
  /\ pc' = WakeReaders(Goto(p, "user"))
  /\ alive' = readopen
  /\ owed' = FALSE
  /\ UNCHANGED <<data, nread, nwrite, readopen, readEnd, writeEnd, killed, todo, want, result>>

(* kill().                                                                 *)
Kill(p) ==
  /\ ~killed[p]
  /\ killed' = [killed EXCEPT ![p] = TRUE]
  /\ pc' = [pc EXCEPT ![p] = IF @ = "rsleep" THEN "read" ELSE IF @ = "wsleep" THEN "write" ELSE @]
  /\ UNCHANGED <<pipeVars, readEnd, writeEnd, todo, want, result, owed>>

Kernel(p) ==
  \/ WriteDone(p) \/ WriteFail(p) \/ WriteSleep(p) \/ ReadSleep(p) \/ ReadDone(p)
  \/ PipeCloseRead(p) \/ PipeCloseWrite(p)

Next ==
  \E p \in Proc :
    \/ \E s \in Strings : StartWrite(p, s)
    \/ \E n \in 0..MaxLen : StartRead(p, n)
    \/ Kernel(p)
    \/ CloseRead(p) \/ CloseWrite(p) \/ Kill(p)

Spec == Init /\ [][Next]_vars
-----------------------------------------------------------------------------
(* Properties.                                                             *)

(* The ring implements the bounded queue, over the wrap-around of nread    *)
(* and nwrite and of the index: no byte is lost, duplicated or reordered.  *)
Queue == INSTANCE Fifo WITH
  content  <- Loaded(Used),
  Capacity <- PIPESIZE

AsFifo == Queue!Spec

Asleep(loc) == \E p \in Proc : pc[p] = loc

(* A process sleeps in pipewrite() or piperead() only while it has to: it  *)
(* is not killed, the other end is open and the pipe full or empty.  The   *)
(* exception is a reader that a killed writer left asleep.                 *)
SleepJustified ==
  /\ \A p \in Proc : pc[p] \in {"wsleep", "rsleep"} => ~killed[p]
  /\ Asleep("wsleep") => Full /\ readopen
  /\ Asleep("rsleep") => (Empty \/ owed) /\ writeopen

(* Readers and writers never wait for each other.                          *)
NoStandoff == ~(Asleep("wsleep") /\ Asleep("rsleep"))

(* pipeclose() frees the pipe exactly when nobody uses it or can use it    *)
(* any more, whichever end is closed last.                                 *)
FreedLast ==
  ~alive <=> readEnd = {} /\ writeEnd = {} /\ \A p \in Proc : pc[p] = "user"
=============================================================================
