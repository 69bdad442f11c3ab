------------------------------ MODULE FileData -------------------------------
(***************************************************************************)
(* The content of files (fs.c): the free map, bmap(), writei(), itrunc(),  *)
(* and filewrite() (file.c), which writes in chunks through a shared       *)
(* offset.                                                                 *)
(*                                                                         *)
(* A process holds ip->lock from "chunk" or "trunc" on until it is done    *)
(* with the inode; every access to a block under its buffer lock is one    *)
(* step.  The log is the atomic disk that module Log implements: what the  *)
(* operations under way wrote is committed when the last of them ends, and *)
(* a crash goes back to the last commit.  A cell of a block holds a byte   *)
(* or a block number, so that BSIZE is also NINDIRECT.                     *)
(***************************************************************************)
EXTENDS Integers, FiniteSets, FiniteSetsExt

CONSTANTS Proc, Inode, None,
          Byte(_),     \* the byte that a process writes
          NBLOCK,      \* data blocks 1 .. NBLOCK
          NDIRECT, BSIZE,
          ChunkMax,    \* bytes filewrite() writes in one transaction
          ReadSize, WriteSize,    \* bytes that read() and write() ask for: bounds
          MaxCalls     \* calls to filewrite() and itrunc(): bound

NINDIRECT == BSIZE

MAXFILE == NDIRECT + NINDIRECT

Block == 1 .. NBLOCK

VARIABLES calls,      \* calls to filewrite() and itrunc() so far
          disk,       \* the disk as the buffer cache shows it
          committed,  \* the disk after a crash
          inode,      \* size and addrs of the inodes in memory
          off,        \* f->off of the open file on an inode
          st          \* where a process is, and its local variables

vars == <<calls, disk, committed, inode, off, st>>

Addrs == [0 .. NDIRECT -> Block \cup {0}]

InodeRecord == [size : 0 .. MAXFILE * BSIZE, addrs : Addrs]

Disk == [used : SUBSET Block, dinode : [Inode -> InodeRecord],
         data : [Block -> [0 .. BSIZE - 1 -> Block \cup {0}]]]

(* A call to filewrite() for n bytes, i of which are written, with n1 and  *)
(* tot of the current chunk, which starts at offset at; k is the index of  *)
(* itrunc().                                                               *)
Local == [pc : {"user", "loop", "chunk", "wrote", "trunc", "end", "panic"}, ip : Inode \cup {None},
          n : Nat, i : Nat, n1 : Nat, tot : Nat, at : Nat, k : Nat]

TypeOK ==
  /\ calls \in 0 .. MaxCalls
  /\ disk \in Disk /\ committed \in Disk
  /\ inode \in [Inode -> InodeRecord]
  /\ off \in [Inode -> 0 .. MAXFILE * BSIZE]
  /\ st \in [Proc -> Local]

EmptyInode == [size |-> 0, addrs |-> [k \in 0 .. NDIRECT |-> 0]]

Zero == [c \in 0 .. BSIZE - 1 |-> 0]

User == [pc |-> "user", ip |-> None, n |-> 0, i |-> 0, n1 |-> 0, tot |-> 0, at |-> 0, k |-> 0]

(* An empty file system, as mkfs makes it.                                 *)
Init ==
  /\ disk = [used |-> {}, dinode |-> [i \in Inode |-> EmptyInode], data |-> [b \in Block |-> Zero]]
  /\ committed = disk /\ calls = 0
  /\ inode = disk.dinode
  /\ off = [i \in Inode |-> 0]
  /\ st = [p \in Proc |-> User]
-----------------------------------------------------------------------------
At(p, loc) == st[p].pc = loc

Become(p, t) == st' = [st EXCEPT ![p] = t]

(* The inode is not locked: no process is between ilock() and iunlock().   *)
Unlocked(i) == \A p \in Proc : ~(st[p].ip = i /\ st[p].pc \in {"chunk", "wrote", "trunc"})

(* balloc(): the first free block, zeroed.                                 *)
balloc(d, b) == [d EXCEPT !.used = @ \cup {b}, !.data[b] = Zero]

(* It panics when there is none, which the bound NBLOCK would make happen  *)
(* too soon.                                                               *)
Free == Block \ disk.used

bfree(d, b) == [d EXCEPT !.used = @ \ {b}]

(* bfree() panics("freeing free block") where p frees b, if it frees one;  *)
(* otherwise p goes on as t.                                               *)
Freeing(p, b, t) ==
  Become(p, IF b = 0 \/ b \in disk.used THEN t ELSE [st[p] EXCEPT !.pc = "panic"])

(* The block bmap() finds for block bn of the file, 0 where it has none.   *)
Mapped(d, ip, bn) ==
  IF bn < NDIRECT THEN ip.addrs[bn]
  ELSE IF ip.addrs[NDIRECT] = 0 THEN 0
  ELSE d.data[ip.addrs[NDIRECT]][bn - NDIRECT]

iupdate(d, i, ip) == [d EXCEPT !.dinode[i] = ip]
-----------------------------------------------------------------------------
(* A file is opened anew: f->off = 0.                                      *)
sys_open(p, i) ==
  /\ At(p, "user") /\ off[i] # 0 /\ \A q \in Proc : st[q].ip # i
  /\ off' = [off EXCEPT ![i] = 0]
  /\ UNCHANGED <<calls, disk, committed, inode, st>>

(* fileread(): advances the offset by what readi() finds.                  *)
fileread(p, i, n) ==
  /\ At(p, "user") /\ Unlocked(i) /\ off[i] < inode[i].size
  /\ off' = [off EXCEPT ![i] = Min({@ + n, inode[i].size})]
  /\ UNCHANGED <<calls, disk, committed, inode, st>>

filewrite(p, i, n) ==
  /\ At(p, "user") /\ calls < MaxCalls
  /\ calls' = calls + 1
  /\ Become(p, [User EXCEPT !.pc = "loop", !.ip = i, !.n = n])
  /\ UNCHANGED <<disk, committed, inode, off>>

(* The next chunk: begin_op(), ilock(), and the checks of writei(), which  *)
(* end the call where the file would become too big.                       *)
writeiBegin(p) ==
  LET t == st[p]
      i == t.ip
      n1 == Min({t.n - t.i, ChunkMax})
      fits == off[i] <= inode[i].size /\ off[i] + n1 <= MAXFILE * BSIZE
  IN /\ At(p, "loop") /\ t.i < t.n /\ Unlocked(i)
     /\ Become(p, IF fits THEN [t EXCEPT !.pc = "chunk", !.n1 = n1, !.tot = 0, !.at = off[i]]
                          ELSE [t EXCEPT !.pc = "end", !.i = t.n])
     /\ UNCHANGED <<calls, disk, committed, inode, off>>

(* bmap() in the loop of writei() allocates: a direct block ...            *)
Bn(t) == (t.at + t.tot) \div BSIZE

bmapDirect(p) ==
  LET t == st[p]
      b == Min(Free)
  IN /\ At(p, "chunk") /\ t.tot < t.n1 /\ Free # {}
     /\ Bn(t) < NDIRECT /\ inode[t.ip].addrs[Bn(t)] = 0
     /\ disk' = balloc(disk, b)
     /\ inode' = [inode EXCEPT ![t.ip].addrs[Bn(t)] = b]
     /\ UNCHANGED <<calls, committed, off, st>>

(* ... the indirect block ...                                              *)
bmapIndirect(p) ==
  LET t == st[p]
      b == Min(Free)
  IN /\ At(p, "chunk") /\ t.tot < t.n1 /\ Free # {}
     /\ Bn(t) >= NDIRECT /\ inode[t.ip].addrs[NDIRECT] = 0
     /\ disk' = balloc(disk, b)
     /\ inode' = [inode EXCEPT ![t.ip].addrs[NDIRECT] = b]
     /\ UNCHANGED <<calls, committed, off, st>>

(* ... and a block listed in it.                                           *)
bmapEntry(p) ==
  LET t == st[p]
      b == Min(Free)
      a == inode[t.ip].addrs[NDIRECT]
  IN /\ At(p, "chunk") /\ t.tot < t.n1 /\ Free # {}
     /\ Bn(t) >= NDIRECT /\ a # 0 /\ Mapped(disk, inode[t.ip], Bn(t)) = 0
     /\ disk' = [balloc(disk, b) EXCEPT !.data[a][Bn(t) - NDIRECT] = b]
     /\ UNCHANGED <<calls, committed, inode, off, st>>

(* Faulty: the whole block is taken from the caller.                       *)
CellsAll(t) == 0 .. BSIZE - 1

Count(t) == Min({t.n1 - t.tot, BSIZE - ((t.at + t.tot) % BSIZE)})

(* The cells of the block that writei() copies to.                         *)
Cells(t) == LET first == (t.at + t.tot) % BSIZE IN first .. first + Count(t) - 1

(* writei() copies up to the end of the block or of the chunk.             *)
writeiCopy(p) ==
  LET t == st[p]
      b == Mapped(disk, inode[t.ip], Bn(t))
  IN /\ At(p, "chunk") /\ t.tot < t.n1 /\ b # 0
     /\ disk' = [disk EXCEPT !.data[b] = [c \in 0 .. BSIZE - 1 |-> IF c \in Cells(t) THEN Byte(p) ELSE @[c]]]
     /\ Become(p, [t EXCEPT !.tot = @ + Count(t)])
     /\ UNCHANGED <<calls, committed, inode, off>>

(* The end of writei(): a file that grew is saved; filewrite() then moves  *)
(* the offset.                                                             *)
writeiDone(p) ==
  LET t == st[p]
      end == t.at + t.n1
      ip == [inode[t.ip] EXCEPT !.size = IF end > @ THEN end ELSE @]
  IN /\ At(p, "chunk") /\ t.tot = t.n1
     /\ inode' = [inode EXCEPT ![t.ip] = ip]
     /\ disk' = IF end > inode[t.ip].size THEN iupdate(disk, t.ip, ip) ELSE disk
     /\ off' = [off EXCEPT ![t.ip] = @ + t.n1]
     /\ Become(p, [t EXCEPT !.pc = "wrote"])
     /\ UNCHANGED <<calls, committed>>

(* iunlock(): the inode is free before the operation ends.                 *)
iunlock(p) ==
  /\ At(p, "wrote")
  /\ Become(p, [st[p] EXCEPT !.pc = "end", !.i = @ + st[p].n1])
  /\ UNCHANGED <<calls, disk, committed, inode, off>>

(* Operations that have begun and not ended: log.outstanding.              *)
Outstanding == {p \in Proc : st[p].pc \in {"chunk", "wrote", "trunc", "end"}}

(* Faulty: every operation commits when it ends.                           *)
end_opEager(p) ==
  LET t == st[p]
  IN /\ At(p, "end")
     /\ committed' = disk
     /\ Become(p, IF t.i < t.n THEN [t EXCEPT !.pc = "loop", !.n1 = 0, !.tot = 0, !.at = 0] ELSE User)
     /\ UNCHANGED <<calls, disk, inode, off>>

(* end_op(): the last operation commits; filewrite() goes on with the next *)
(* chunk.                                                                  *)
end_op(p) ==
  LET t == st[p]
  IN /\ At(p, "end")
     /\ committed' = IF Outstanding = {p} THEN disk ELSE committed
     /\ Become(p, IF t.i < t.n THEN [t EXCEPT !.pc = "loop", !.n1 = 0, !.tot = 0, !.at = 0] ELSE User)
     /\ UNCHANGED <<calls, disk, inode, off>>
-----------------------------------------------------------------------------
(* itrunc(), called by iput() for an inode nobody has: the inode is then   *)
(* free, and is used again for a new file.                                 *)
itrunc(p, i) ==
  /\ At(p, "user") /\ calls < MaxCalls /\ \A q \in Proc : st[q].ip # i
  /\ calls' = calls + 1
  /\ off' = [off EXCEPT ![i] = 0]
  /\ Become(p, [User EXCEPT !.pc = "trunc", !.ip = i])
  /\ UNCHANGED <<disk, committed, inode>>

itruncDirect(p) ==
  LET t == st[p]
      b == inode[t.ip].addrs[t.k]
  IN /\ At(p, "trunc") /\ t.k < NDIRECT
     /\ disk' = IF b = 0 THEN disk ELSE bfree(disk, b)
     /\ inode' = [inode EXCEPT ![t.ip].addrs[t.k] = 0]
     /\ Freeing(p, b, [t EXCEPT !.k = @ + 1])
     /\ UNCHANGED <<calls, committed, off>>

itruncEntry(p) ==
  LET t == st[p]
      a == inode[t.ip].addrs[NDIRECT]
      b == disk.data[a][t.k - NDIRECT]
  IN /\ At(p, "trunc") /\ t.k \in NDIRECT .. MAXFILE - 1 /\ a # 0
     /\ disk' = IF b = 0 THEN disk ELSE bfree(disk, b)
     /\ Freeing(p, b, [t EXCEPT !.k = @ + 1])
     /\ UNCHANGED <<calls, committed, inode, off>>

(* The indirect block, the size, and iupdate().                            *)
itruncDone(p) ==
  LET t == st[p]
      a == inode[t.ip].addrs[NDIRECT]
  IN /\ At(p, "trunc")
     /\ t.k = IF a = 0 THEN NDIRECT ELSE MAXFILE
     /\ disk' = iupdate(IF a = 0 THEN disk ELSE bfree(disk, a), t.ip, EmptyInode)
     /\ inode' = [inode EXCEPT ![t.ip] = EmptyInode]
     /\ Freeing(p, a, [User EXCEPT !.pc = "end"])
     /\ UNCHANGED <<calls, committed, off>>

(* A crash, and the recovery of the log.                                   *)
Crash ==
  /\ disk' = committed
  /\ inode' = committed.dinode
  /\ off' = [i \in Inode |-> 0]
  /\ st' = [p \in Proc |-> User]
  /\ UNCHANGED <<calls, committed>>

Next ==
  \/ \E p \in Proc :
       \/ \E i \in Inode : sys_open(p, i) \/ itrunc(p, i)
       \/ \E i \in Inode, n \in ReadSize : fileread(p, i, n)
       \/ \E i \in Inode, n \in WriteSize : filewrite(p, i, n)
       \/ writeiBegin(p) \/ writeiCopy(p) \/ writeiDone(p) \/ iunlock(p) \/ end_op(p)
       \/ bmapDirect(p) \/ bmapIndirect(p) \/ bmapEntry(p)
       \/ itruncDirect(p) \/ itruncEntry(p) \/ itruncDone(p)
  \/ Crash

Spec == Init /\ [][Next]_vars
-----------------------------------------------------------------------------
(* The blocks of an inode on disk d, data blocks and indirect block.       *)
Blocks(d, ip) ==
  ({ip.addrs[k] : k \in 0 .. NDIRECT} \cup {Mapped(d, ip, bn) : bn \in 0 .. MAXFILE - 1}) \ {0}

(* What readi() finds at byte k.                                           *)
ByteAt(d, ip, k) == d.data[Mapped(d, ip, k \div BSIZE)][k % BSIZE]

(* The blocks that hold the first size bytes of the file.                  *)
Needed(ip) == {bn \in 0 .. MAXFILE - 1 : bn * BSIZE < ip.size}

(* A disk without lost, shared or missing blocks: the inodes have disjoint *)
(* sets of blocks, which the free map lists, and a block for every byte.   *)
Consistent(d) ==
  /\ d.used = UNION {Blocks(d, d.dinode[i]) : i \in Inode}
  /\ \A i, j \in Inode : i # j => Blocks(d, d.dinode[i]) \cap Blocks(d, d.dinode[j]) = {}
  /\ \A i \in Inode :
       LET ip == d.dinode[i]
           entries == {bn \in 0 .. MAXFILE - 1 : Mapped(d, ip, bn) # 0}
       IN /\ entries = Needed(ip)
          /\ Cardinality(Blocks(d, ip)) =
               Cardinality(entries) + (IF ip.addrs[NDIRECT] = 0 THEN 0 ELSE 1)

(* After a crash at any point the file system is consistent, although      *)
(* blocks freed by one operation are used at once by another, and bfree()  *)
(* frees no block twice: nobody panics.                                    *)
CrashConsistent == Consistent(committed) /\ \A p \in Proc : ~At(p, "panic")

(* When a chunk has been written, the file has the bytes in it, and it has *)
(* a block for every byte.                                                 *)
ChunkWritten ==
  \A p \in Proc : At(p, "wrote") =>
    LET t == st[p]
        ip == inode[t.ip]
    IN /\ t.at + t.n1 <= ip.size
       /\ \A bn \in Needed(ip) : Mapped(disk, ip, bn) \in disk.used
       /\ \A k \in t.at .. t.at + t.n1 - 1 : ByteAt(disk, ip, k) = Byte(p)

(* Only the chunk that a process writes changes, and itrunc() discards:    *)
(* every other byte of every file stays what it was, but for a crash.      *)
OnlyTheChunk ==
  [][Crash \/
     \A i \in Inode : \A k \in 0 .. inode[i].size - 1 :
       \/ \E p \in Proc :
            /\ st[p].ip = i
            /\ \/ At(p, "trunc")
               \/ At(p, "chunk") /\ k \in st[p].at .. st[p].at + st[p].n1 - 1
       \/ ByteAt(disk, inode[i], k)' = ByteAt(disk, inode[i], k)]_vars
=============================================================================
