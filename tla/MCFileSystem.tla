---------------------------- MODULE MCFileSystem ----------------------------
(***************************************************************************)
(* The two halves of the file system (fs.c, sysfile.c), each by itself:    *)
(* names, inodes and the inode cache with the calls of MCInode, and blocks *)
(* and file contents.  The variable part says which a behaviour is about.  *)
(***************************************************************************)
EXTENDS MCInode

CONSTANTS Inode, NBLOCK, NDIRECT, BSIZE, ChunkMax, ReadSize, WriteSize, MaxCalls

VARIABLES part,
          calls, disk, committed, inode, off, dst    \* of FileData

(* The byte tells who wrote it, and may be mistaken for a block number.    *)
Bytes(p) == IF p = p1 THEN 1 ELSE 2

Data == INSTANCE FileData WITH st <- dst, Byte <- Bytes

ASSUME FileDataConstants ==
  /\ {NBLOCK, NDIRECT, BSIZE, ChunkMax, MaxCalls} \cup ReadSize \cup WriteSize \subseteq Nat \ {0}
  /\ None \notin Proc \cup Inode /\ \A p \in Proc : Bytes(p) \in 1 .. NBLOCK

dataVars == <<calls, disk, committed, inode, off, dst>>
fsVars == <<part, vars, dataVars>>

NamesPart == part = "names" /\ Next /\ UNCHANGED <<part, dataVars>>
DataPart == part = "data" /\ Data!Next /\ UNCHANGED <<part, vars>>

FileSystemInit == part \in {"names", "data"} /\ Init /\ Data!Init

FileSystemSpec == FileSystemInit /\ [][NamesPart \/ DataPart]_fsVars
-----------------------------------------------------------------------------
(* A crash at any point leaves, after recovery, a disk on which no block   *)
(* is lost, missing, or in two files (writei(), itrunc() in transactions), *)
(* and bfree() never finds its block free already.                         *)
CrashConsistent == Data!CrashConsistent

(* filewrite(), writei(): the bytes of a chunk are in the file at its      *)
(* offset when the chunk is done, and no step changes any other byte.      *)
WritesExact == []Data!ChunkWritten /\ Data!OnlyTheChunk
=============================================================================
