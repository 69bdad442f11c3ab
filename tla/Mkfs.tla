-------------------------------- MODULE Mkfs --------------------------------
(***************************************************************************)
(* mkfs.c: the program that makes the first file system image.             *)
(*                                                                         *)
(* The unit of data is a directory entry, of which BSIZE fill a block; a   *)
(* file is made of units as well.  The image has been zeroed.  Inodes and  *)
(* bitmap are variables of their own, and the superblock is left out.      *)
(***************************************************************************)
EXTENDS Integers, Sequences, FiniteSets

CONSTANTS BSIZE, NDIRECT, NINDIRECT,
          nmeta,        \* blocks before the first data block
          FSSIZE,       \* bound on the blocks of the image
          NINODES,
          Word          \* what files hold: numbers that are no block

ROOTINO == 1
MAXFILE == NDIRECT + NINDIRECT
Block == 0 .. FSSIZE - 1
Inum == ROOTINO .. NINODES

VARIABLES disk,         \* the blocks: sequences of units, or of block numbers
          inode,        \* type, size and addrs of the dinodes; addrs[0] first
          freeinode, freeblock,
          bitmap,       \* the blocks that are marked in use
          content,      \* what was appended to each file; not in the code
          done

vars == <<disk, inode, freeinode, freeblock, bitmap, content, done>>

zeroes == [i \in 0 .. BSIZE - 1 |-> 0]

NoInode == [type |-> "free", size |-> 0, addrs |-> [k \in 0 .. NDIRECT |-> 0]]

TypeOK ==
  /\ disk \in [Block -> [0 .. BSIZE - 1 -> Block \cup Inum \cup Word]]
  /\ inode \in [Inum -> [type : {"free", "T_DIR", "T_FILE"}, size : Nat, addrs : [0 .. NDIRECT -> Block]]]
  /\ freeinode \in ROOTINO + 1 .. NINODES + 1 /\ freeblock \in nmeta .. FSSIZE
  /\ bitmap \subseteq Block /\ content \in [Inum -> Seq(Inum \cup Word)] /\ done \in BOOLEAN

(* Everything iappend() and ialloc() change, as one record.                *)
Image == [disk |-> disk, inode |-> inode, freeinode |-> freeinode, freeblock |-> freeblock]

SetImage(m) ==
  /\ disk' = m.disk /\ inode' = m.inode
  /\ freeinode' = m.freeinode /\ freeblock' = m.freeblock
-----------------------------------------------------------------------------
(* ialloc(): the next inode, empty.                                        *)
ialloc(m, type) ==
  [m EXCEPT !.inode[m.freeinode] = [NoInode EXCEPT !.type = type], !.freeinode = @ + 1]

(* A direct block for fbn, or the indirect block and its entry for fbn,    *)
(* are taken when they are missing.                                        *)
Direct(m, inum, fbn) ==
  IF m.inode[inum].addrs[fbn] # 0 THEN m
  ELSE [m EXCEPT !.inode[inum].addrs[fbn] = m.freeblock, !.freeblock = @ + 1]

Indirect(m, inum, fbn) ==
  LET m1 == Direct(m, inum, NDIRECT)
      table == m1.inode[inum].addrs[NDIRECT]
  IN IF m1.disk[table][fbn - NDIRECT] # 0 THEN m1
     ELSE [m1 EXCEPT !.disk[table][fbn - NDIRECT] = m1.freeblock, !.freeblock = @ + 1]

(* The block of the image that holds block fbn of a file, as the kernel's  *)
(* bmap() finds it.                                                        *)
bmap(m, inum, fbn) ==
  IF fbn < NDIRECT THEN m.inode[inum].addrs[fbn]
  ELSE m.disk[m.inode[inum].addrs[NDIRECT]][fbn - NDIRECT]

(* Faulty: the indirect block is looked for one block too late.            *)
AllocateLate(m, inum, fbn) ==
  IF fbn <= NDIRECT THEN Direct(m, inum, fbn) ELSE Indirect(m, inum, fbn)

Allocate(m, inum, fbn) == IF fbn < NDIRECT THEN Direct(m, inum, fbn) ELSE Indirect(m, inum, fbn)

(* One unit more at the end of a file: its block is read, changed and      *)
(* written.                                                                *)
AppendUnit(m, inum, unit) ==
  LET off == m.inode[inum].size
      m1 == Allocate(m, inum, off \div BSIZE)
      x == bmap(m1, inum, off \div BSIZE)
  IN [m1 EXCEPT !.disk[x][off % BSIZE] = unit, !.inode[inum].size = off + 1]

(* iappend(), which does all the units of a block at once.                 *)
iappend(m, inum, p) ==
  LET upto[k \in 0 .. Len(p)] == IF k = 0 THEN m ELSE AppendUnit(upto[k - 1], inum, p[k])
  IN upto[Len(p)]
-----------------------------------------------------------------------------
(* main(): the root directory with . and .. in it ...                      *)
Init ==
  LET empty == [disk |-> [b \in Block |-> zeroes], inode |-> [i \in Inum |-> NoInode],
                freeinode |-> ROOTINO, freeblock |-> nmeta]
      m == iappend(iappend(ialloc(empty, "T_DIR"), ROOTINO, <<ROOTINO>>), ROOTINO, <<ROOTINO>>)
  IN /\ disk = m.disk /\ inode = m.inode /\ freeinode = m.freeinode /\ freeblock = m.freeblock
     /\ bitmap = {}
     /\ content = [i \in Inum |-> IF i = ROOTINO THEN <<ROOTINO, ROOTINO>> ELSE <<>>]
     /\ done = FALSE

(* FSSIZE is large enough: an append takes three blocks at most.  (The     *)
(* program does not look.)                                                 *)
Room == freeblock + 3 <= FSSIZE

(* ... a file for every argument, entered in the root directory; an entry  *)
(* is its inode number ...                                                 *)
NewFile ==
  LET m == ialloc(Image, "T_FILE") IN
  /\ ~done /\ Room /\ freeinode \in Inum
  /\ inode[ROOTINO].size < MAXFILE * BSIZE
  /\ SetImage(iappend(m, ROOTINO, <<freeinode>>))
  /\ content' = [content EXCEPT ![ROOTINO] = Append(@, freeinode)]
  /\ UNCHANGED <<bitmap, done>>

(* ... with its contents appended by the block, or less at the end.        *)
AppendFile(p) ==
  LET inum == freeinode - 1 IN
  /\ ~done /\ Room /\ inum # ROOTINO
  /\ inode[inum].size % BSIZE = 0 /\ inode[inum].size + Len(p) <= MAXFILE * BSIZE
  /\ SetImage(iappend(Image, inum, p))
  /\ content' = [content EXCEPT ![inum] = @ \o p]
  /\ UNCHANGED <<bitmap, done>>

(* balloc() marks the blocks before the first that was not used.           *)
Marked(used) == 0 .. used - 1

(* The size of the root directory is rounded up, and the bitmap written.   *)
Finish ==
  /\ ~done
  /\ inode' = [inode EXCEPT ![ROOTINO].size = ((@ \div BSIZE) + 1) * BSIZE]
  /\ bitmap' = Marked(freeblock)
  /\ done' = TRUE
  /\ UNCHANGED <<disk, freeinode, freeblock, content>>

Next == NewFile \/ (\E n \in 1 .. BSIZE : \E p \in [1 .. n -> Word] : AppendFile(p)) \/ Finish

Spec == Init /\ [][Next]_vars
-----------------------------------------------------------------------------
(* Properties.                                                             *)

(* What the kernel's readi() returns for the i-th unit of a file.          *)
Unit(inum, i) == disk[bmap(Image, inum, i \div BSIZE)][i % BSIZE]

Indirects(i) == IF inode[i].addrs[NDIRECT] = 0 THEN {} ELSE {inode[i].addrs[NDIRECT]}

(* Every reference to a block, with the place that holds it.               *)
References ==
  UNION {{<<i, k, inode[i].addrs[k]>> : k \in 0 .. NDIRECT} \cup
         UNION {{<<i, NDIRECT + 1 + k, disk[b][k]>> : k \in 0 .. NINDIRECT - 1} : b \in Indirects(i)} :
           i \in Inum}

(* The kernel reads back what was put into every file, across the boundary *)
(* between direct and indirect blocks; every block handed out belongs to   *)
(* one place of one file; and the finished bitmap marks these blocks and   *)
(* those before them, and no others.                                       *)
ImageSound ==
  /\ \A i \in Inum : \A k \in DOMAIN content[i] : Unit(i, k - 1) = content[i][k]
  /\ \A i \in Inum \ {ROOTINO} : inode[i].size = Len(content[i])
  /\ \A b \in nmeta .. freeblock - 1 : Cardinality({r \in References : r[3] = b}) = 1
  /\ \A r \in References : r[3] = 0 \/ r[3] \in nmeta .. freeblock - 1
  /\ done => /\ bitmap = 0 .. nmeta - 1 \cup ({r[3] : r \in References} \ {0})
             /\ inode[ROOTINO].size % BSIZE = 0 /\ inode[ROOTINO].size > Len(content[ROOTINO])
=============================================================================
