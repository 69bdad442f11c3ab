---------------------------- MODULE FileTableProofs ---------------------------
(***************************************************************************)
(* Every count of file.c is exact, an inode is put and a pipe end closed   *)
(* exactly once, and a file in use is open, for any number of processes,   *)
(* files, descriptors, inodes and pipes: the steps that take a file, name  *)
(* one with a descriptor or drop such a name, and the theorems.            *)
(***************************************************************************)
EXTENDS FileCounts

-----------------------------------------------------------------------------
(* filealloc() of the file g.                                              *)
AllocFacts(p, g) ==
  /\ FilesKept(p) /\ FreshFor(st[p], file') /\ file'[g] = NewFile
  /\ \A f \in File : f # g => file'[f] = file[f]
  /\ \A f \in File : file'[f].ref = file[f].ref + Eq(g, f) /\ file'[f].type = file[f].type
  /\ \A obj, W : FilesGain(obj, W) = 0

(* It takes a free one.                                                    *)
LEMMA AllocIs ==
  ASSUME FileConstants, FilesInv, NEW p \in Proc, NEW g \in File, file[g].ref = 0,
         file' = filealloc(g)
  PROVE  AllocFacts(p, g)
<1>1. /\ file \in [File -> FileRecord]
      /\ \A f \in File : Record(file[f]) /\ file[f].ref \in Int
  BY DEF FilesInv, TypeOK, Record, FileRecord
<1>2. file[g] = Closed
  BY <1>1 DEF Record
<1>3. file' = [file EXCEPT ![g] = NewFile]
  <2>1. [Closed EXCEPT !.ref = 1] = NewFile
    <3>1. ASSUME NEW b
          PROVE  [[ref |-> 0, type |-> "FD_NONE", obj |-> None, writable |-> b] EXCEPT !.ref = 1]
                   = [ref |-> 1, type |-> "FD_NONE", obj |-> None, writable |-> b]
      OBVIOUS
    <3> QED
      BY <3>1, Zenon DEF NewFile, Closed
  <2>2. file' = [file EXCEPT ![g] = [file[g] EXCEPT !.ref = 1]]
    BY <1>1 DEF filealloc
  <2> QED
    BY <1>2, <2>1, <2>2, Zenon
<1>4. /\ file' \in [File -> FileRecord] /\ file'[g] = NewFile
      /\ \A f \in File : f # g => file'[f] = file[f]
      /\ NewFile.ref = 1 /\ NewFile.type = "FD_NONE" /\ file[g].type = "FD_NONE" /\ Record(NewFile)
  <2>1. /\ NewFile \in FileRecord /\ NewFile.ref = 1 /\ NewFile.type = "FD_NONE"
        /\ Closed.type = "FD_NONE"
    BY DEF NewFile, Closed, FileRecord
  <2>2. Record(NewFile)
    BY <2>1 DEF Record
  <2> QED
    BY <1>1, <1>2, <1>3, <2>1, <2>2
<1>5. \A f \in File : file'[f].ref = file[f].ref + Eq(g, f) /\ file'[f].type = file[f].type
  BY <1>1, <1>4 DEF Eq
<1>6. \A obj, W : FilesGain(obj, W) = 0
  BY <1>4, SameHolds
<1>7. ASSUME NEW q \in Proc PROVE FreshFor(st[q], file')
  <2>1. FreshFor(st[q], file) /\ Shape(st[q])
    BY DEF FilesInv
  <2>2. st[q].pc \in Filling => st[q].f \in File /\ file[st[q].f].ref = 1
    BY <2>1 DEF FreshFor, Shape, Filling, NewFile, Closed
  <2>3. st[q].pc = "pipefd" => st[q].f \in File /\ st[q].closing[1] \in File
    BY <2>1 DEF Shape
  <2> QED
    BY <1>4, <2>1, <2>2, <2>3 DEF FreshFor
<1>8. \A f \in File : Record(file'[f])
  BY <1>1, <1>4
<1>9. FilesKept(p)
  BY <1>4, <1>5, <1>7, <1>8 DEF FilesKept
<1> QED
  BY <1>4, <1>5, <1>6, <1>7, <1>9 DEF AllocFacts

(* A step of a process that allocates the file g and nothing more.         *)
LEMMA AllocKeeps ==
  ASSUME FileConstants, FilesInv, NEW p \in Proc, NEW g \in File, NEW t, Become(p, t),
         AllocFacts(p, g), UNCHANGED <<ofile, iref, pipe>>,
         \A f \in File : Own(t, f) = Own(st[p], f) + Eq(g, f),
         st[p].pc \notin {"child", "closed"}, t.pc # "closed", t.ip = st[p].ip, Goes(p, t)
  PROVE  FilesInv'
<1>1. TableTyped
  BY DEF FilesInv, TypeOK, TableTyped
<1>2. ASSUME NEW f \in File
      PROVE  file'[f].ref = file[f].ref + NamedGain(f) + (Own(t, f) - Own(st[p], f))
  <2>1. NamedGain(f) = 0
    BY SameNames
  <2>2. file[f].ref \in Int /\ Own(st[p], f) \in Int /\ Eq(g, f) \in Int
    BY DEF FilesInv, Record, FileRecord, Own, Ind, Eq
  <2>3. file'[f].ref = file[f].ref + Eq(g, f)
    BY DEF AllocFacts
  <2> QED
    BY <2>1, <2>2, <2>3
<1>3. RefExact'
  BY <1>2, CountsStep
<1>4. ObjectsExact'
  BY SameObjects, ObjectsStep DEF AllocFacts
<1> QED
  BY <1>1, <1>3, <1>4, StepKeeps DEF AllocFacts

(* open() has an inode and allocates the file.                             *)
LEMMA OpenAllocKeeps ==
  ASSUME FileConstants, FilesInv, NEW p \in Proc, openAlloc(p)
  PROVE  FilesInv'
<1> DEFINE g == FreeFile
           t == [st[p] EXCEPT !.pc = IF g = None THEN "openfail" ELSE "openfd", !.f = g]
<1>1. /\ st[p].pc = "open" /\ Become(p, t) /\ UNCHANGED <<ofile, iref, pipe>>
      /\ file' = IF g = None THEN file ELSE filealloc(g)
  BY DEF openAlloc, At
<1>2. Shape(st[p]) /\ DescsFor(st[p], ofile[p], file) /\ st[p] \in Local
  BY DEF FilesInv, Shape
<1>3. g = None \/ (g # None /\ g \in File /\ file[g].ref = 0)
  BY FreeFileIs
<1> HIDE DEF g
<1>4. /\ t \in Local /\ t.pc = (IF g = None THEN "openfail" ELSE "openfd") /\ t.f = g
      /\ t.ip = st[p].ip /\ t.closing = << >> /\ t.ff = None
  BY <1>1, <1>2, <1>3, Zenon DEF Local, Location, Shape
<1> HIDE DEF t
<1>5. Shape(t)
  BY <1>1, <1>2, <1>3, <1>4 DEF Shape
<1>6. \A f \in File : Own(st[p], f) = 0
  BY <1>1, <1>2, OwnIs DEF OwnFacts, Shape
<1>7. CASE g = None
  <2>1. Goes(p, t)
    BY <1>1, <1>2, <1>4, <1>5, <1>7 DEF Goes, FreshFor, DescsFor, Filling
  <2>2. \A f \in File : Own(t, f) = 0
    BY <1>4, <1>7, OwnIs DEF OwnFacts
  <2> QED
    BY <1>1, <1>4, <1>6, <1>7, <2>1, <2>2, WalkKeeps
<1>8. CASE g # None
  <2>0. AllocFacts(p, g) /\ g \in File
    BY <1>1, <1>3, <1>8, AllocIs
  <2>1. Goes(p, t)
    <3>1. FreshFor(t, file')
      BY <1>4, <1>8, <2>0 DEF FreshFor, AllocFacts
    <3>2. \A d \in Fd : ofile[p][d] # None => file'[ofile[p][d]].type = file[ofile[p][d]].type
      BY <2>0 DEF AllocFacts, FilesInv, TypeOK
    <3>3. DescsFor(t, ofile'[p], file')
      BY <1>1, <1>2, <1>4, <1>8, <3>2 DEF DescsFor
    <3> QED
      BY <1>3, <1>4, <1>5, <1>8, <3>1, <3>3 DEF Goes
  <2>2. \A f \in File : Own(t, f) = Eq(g, f) /\ Eq(g, f) \in Int
    BY <1>4, <1>8, OwnIs DEF OwnFacts, Eq
  <2> QED
    BY <1>1, <1>4, <1>6, <1>8, <2>0, <2>1, <2>2, AllocKeeps
<1> QED
  BY <1>7, <1>8

(* pipealloc() allocates its first file.                                   *)
LEMMA PipeAlloc0Keeps ==
  ASSUME FileConstants, FilesInv, NEW p \in Proc, pipealloc0(p)
  PROVE  FilesInv'
<1> DEFINE g == FreeFile
           t == [User EXCEPT !.pc = "pipe", !.f = g]
<1>1. /\ st[p].pc = "user" /\ Become(p, t) /\ UNCHANGED <<ofile, iref, pipe>>
      /\ file' = filealloc(g) /\ g # None
  BY DEF pipealloc0, At
<1>2. Shape(st[p]) /\ DescsFor(st[p], ofile[p], file) /\ st[p] = User
  BY <1>1 DEF FilesInv, Shape
<1>3. g \in File /\ file[g].ref = 0
  BY <1>1, FreeFileIs
<1> HIDE DEF g
<1>4. /\ t \in Local /\ t.pc = "pipe" /\ t.f = g /\ t.ip = None /\ t.closing = << >>
      /\ t.ff = None
  <2> DEFINE C == UNION {[1 .. n -> File] : n \in 0 .. 2}
  <2>1. Local = [pc : Location, ip : Inode \cup {None}, f : File \cup {None},
          ff : FileRecord \cup {None}, closing : C, after : Location,
          child : Proc \cup {None}, i : 0 .. NOFILE]
    BY DEF Local
  <2> HIDE DEF C
  <2> QED
    BY <1>3, <2>1, UserIs, Zenon DEF Location
<1> HIDE DEF t
<1>5. Shape(t)
  BY <1>3, <1>4 DEF Shape
<1>6. \A f \in File : Own(st[p], f) = 0
  BY <1>2, UserIs, OwnIs DEF OwnFacts
<1>7. AllocFacts(p, g)
  BY <1>1, <1>3, AllocIs
<1>8. Goes(p, t)
  <2>1. FreshFor(t, file')
    BY <1>4, <1>7 DEF FreshFor, AllocFacts
  <2>2. \A d \in Fd : ofile[p][d] # None => file'[ofile[p][d]].type = file[ofile[p][d]].type
    BY <1>7 DEF AllocFacts, FilesInv, TypeOK
  <2>3. DescsFor(t, ofile'[p], file')
    BY <1>1, <1>2, <1>4, <2>2 DEF DescsFor
  <2> QED
    BY <1>3, <1>4, <1>5, <2>1, <2>3 DEF Goes
<1>9. \A f \in File : Own(t, f) = Eq(g, f) /\ Eq(g, f) \in Int
  BY <1>4, OwnIs DEF OwnFacts, Eq
<1> QED
  BY <1>1, <1>2, <1>3, <1>4, <1>6, <1>7, <1>8, <1>9, UserIs, AllocKeeps

(* pipealloc() gives up, with one file to close or with two.               *)
LEMMA PipeAllocFailsKeeps ==
  ASSUME FileConstants, FilesInv, NEW p \in Proc, pipeallocFails(p)
  PROVE  FilesInv'
<1> DEFINE g == FreeFile
           h == st[p].f
           cl == IF g = None THEN <<h>> ELSE <<h, g>>
           t == Closing([st[p] EXCEPT !.f = None], cl, "user")
<1>1. /\ st[p].pc = "pipe" /\ Become(p, t) /\ UNCHANGED <<ofile, iref, pipe>>
      /\ file' = IF g = None THEN file ELSE filealloc(g)
  BY DEF pipeallocFails, At
<1>2. Shape(st[p]) /\ DescsFor(st[p], ofile[p], file) /\ st[p] \in Local /\ h \in File
  BY <1>1 DEF FilesInv, Shape
<1>3. g = None \/ (g # None /\ g \in File /\ file[g].ref = 0)
  BY FreeFileIs
<1> HIDE DEF g
<1> DEFINE C == UNION {[1 .. n -> File] : n \in 0 .. 2}
<1>4. /\ cl \in C
      /\ Local = [pc : Location, ip : Inode \cup {None}, f : File \cup {None},
          ff : FileRecord \cup {None}, closing : C, after : Location,
          child : Proc \cup {None}, i : 0 .. NOFILE]
  BY <1>2, <1>3, ClosingIs DEF Local
<1> HIDE DEF C, cl
<1>5. /\ t \in Local /\ t.pc = "close" /\ t.f = None /\ t.ip = st[p].ip /\ t.closing = cl
      /\ t.ff = st[p].ff /\ t.after = "user"
  BY <1>2, <1>4, Zenon DEF Location, Closing
<1> HIDE DEF t
<1>6. Shape(t)
  <2>1. t.ip = None /\ t.ff = None
    BY <1>1, <1>2, <1>5 DEF Shape
  <2>2. (\E f \in File : t.closing = <<f>>) \/ (\E f, b \in File : t.closing = <<f, b>>)
    BY <1>2, <1>3, <1>5 DEF cl
  <2> QED
    BY <1>5, <2>1, <2>2, FileSets DEF Shape
<1>7. \A f \in File : Own(st[p], f) = Eq(h, f) /\ Eq(h, f) \in Int
  BY <1>1, <1>2, OwnIs DEF OwnFacts, Shape, Eq
<1>8. CASE g = None
  <2>1. Goes(p, t)
    BY <1>1, <1>2, <1>5, <1>6, <1>8 DEF Goes, FreshFor, DescsFor, Filling
  <2>2. \A f \in File : Own(t, f) = Eq(h, f)
    BY <1>5, <1>8, OwnIs DEF OwnFacts, cl
  <2> QED
    BY <1>1, <1>5, <1>7, <1>8, <2>1, <2>2, WalkKeeps
<1>9. CASE g # None
  <2>0. AllocFacts(p, g) /\ g \in File
    BY <1>1, <1>3, <1>9, AllocIs
  <2>1. Goes(p, t)
    <3>2. \A d \in Fd : ofile[p][d] # None => file'[ofile[p][d]].type = file[ofile[p][d]].type
      BY <2>0 DEF AllocFacts, FilesInv, TypeOK
    <3>3. DescsFor(t, ofile'[p], file')
      BY <1>1, <1>2, <1>5, <3>2 DEF DescsFor
    <3> QED
      BY <1>5, <1>6, <3>3 DEF Goes, FreshFor, Filling
  <2>2. \A f \in File : Own(t, f) = Eq(h, f) + Eq(g, f)
    <3>1. t.closing = <<h, g>>
      BY <1>5, <1>9 DEF cl
    <3> QED
      BY <1>5, <3>1, OwnIs DEF OwnFacts
  <2> QED
    BY <1>1, <1>5, <1>7, <1>9, <2>0, <2>1, <2>2, AllocKeeps
<1> QED
  BY <1>8, <1>9
-----------------------------------------------------------------------------
(* filedup() of a file with a type.                                        *)
DupFacts(p, g) ==
  /\ FilesKept(p) /\ FreshFor(st[p], file')
  /\ \A f \in File : file'[f].ref = file[f].ref + Eq(g, f) /\ file'[f].type = file[f].type
  /\ \A obj, W : FilesGain(obj, W) = 0

(* It disturbs nobody who has a new file.                                  *)
LEMMA DupIs ==
  ASSUME FileConstants, FilesInv, NEW p \in Proc, NEW g \in File, file[g].ref >= 1,
         file[g].type # "FD_NONE",
         file' = filedup(g)
  PROVE  DupFacts(p, g)
<1>1. /\ file \in [File -> FileRecord]
      /\ \A f \in File : Record(file[f]) /\ file[f].ref \in Int
  BY DEF FilesInv, TypeOK, Record, FileRecord
<1>2. /\ file' \in [File -> FileRecord]
      /\ \A f \in File : f # g => file'[f] = file[f]
      /\ file'[g].ref = file[g].ref + 1 /\ file'[g].type = file[g].type
      /\ file'[g].obj = file[g].obj /\ file'[g].writable = file[g].writable
  BY <1>1 DEF filedup, FileRecord
<1>3. \A f \in File : file'[f].ref = file[f].ref + Eq(g, f) /\ file'[f].type = file[f].type
  BY <1>1, <1>2 DEF Eq
<1>4. \A obj, W : FilesGain(obj, W) = 0
  BY <1>1, <1>2, SameHolds
<1>5. ASSUME NEW q \in Proc PROVE FreshFor(st[q], file')
  <2>1. FreshFor(st[q], file) /\ Shape(st[q])
    BY DEF FilesInv
  <2>2. st[q].pc \in Filling => st[q].f \in File /\ file[st[q].f].type = "FD_NONE"
    BY <2>1 DEF FreshFor, Shape, Filling, NewFile
  <2>3. st[q].pc = "pipefd" => st[q].f \in File /\ st[q].closing[1] \in File
    BY <2>1 DEF Shape
  <2> QED
    BY <1>2, <2>1, <2>2, <2>3 DEF FreshFor
<1>6. \A f \in File : Record(file'[f])
  <2>1. Record(file'[g])
    BY <1>1, <1>2 DEF Record
  <2> QED
    BY <1>1, <1>2, <2>1
<1>7. FilesKept(p)
  BY <1>2, <1>3, <1>5, <1>6 DEF FilesKept
<1> QED
  BY <1>3, <1>4, <1>5, <1>7 DEF DupFacts

(* dup() finds its file open and counts the new descriptor.                *)
LEMMA DupRefKeeps ==
  ASSUME FileConstants, FilesInv, NEW p \in Proc, dupRef(p)
  PROVE  FilesInv'
<1> DEFINE g == st[p].f
           t == User
<1>1. st[p].pc = "dup" /\ UNCHANGED <<ofile, iref, pipe>>
  BY DEF dupRef, At
<1>2. Shape(st[p]) /\ DescsFor(st[p], ofile[p], file) /\ g \in File
  BY <1>1 DEF FilesInv, Shape
<1>3. PICK d \in Fd : ofile[p][d] = g
  BY <1>1, <1>2 DEF DescsFor
<1>4. file[g].ref >= 1 /\ file[g].ref \in Int
  BY <1>2, <1>3, FileAlive
<1>5. file[g].type # "FD_NONE"
  BY <1>1, <1>2, <1>3, FileSets DEF DescsFor
<1>6. file' = filedup(g) /\ Become(p, t)
  BY <1>4 DEF dupRef
<1> HIDE DEF g
<1>7. DupFacts(p, g)
  BY <1>2, <1>4, <1>5, <1>6, DupIs
<1>8. \A c \in Fd : ofile[p][c] # None => file'[ofile[p][c]].type = file[ofile[p][c]].type
  BY <1>7 DEF DupFacts, FilesInv, TypeOK
<1>9. Goes(p, t)
  BY <1>1, <1>2, <1>8, UserIs, FileSets DEF Goes, Shape, FreshFor, DescsFor, Filling
<1>10. ASSUME NEW f \in File
       PROVE  file'[f].ref = file[f].ref + NamedGain(f) + (Own(t, f) - Own(st[p], f))
  <2>1. NamedGain(f) = 0
    BY <1>1, SameNames
  <2>2. file[f].ref \in Int /\ Eq(g, f) \in Int
    BY DEF FilesInv, Record, FileRecord, Eq
  <2>3. file'[f].ref = file[f].ref + Eq(g, f)
    BY <1>7 DEF DupFacts
  <2>4. Own(t, f) = 0 /\ Own(st[p], f) = 0 - Eq(g, f)
    BY <1>1, <1>2, UserIs, OwnIs DEF OwnFacts, Shape, g
  <2> QED
    BY <2>1, <2>2, <2>3, <2>4
<1>11. RefExact'
  BY <1>6, <1>10, CountsStep
<1>12. t.ip = st[p].ip /\ t.pc # "closed"
  BY <1>1, <1>2, UserIs DEF Shape
<1>13. ObjectsExact'
  BY <1>1, <1>6, <1>7, <1>12, SameObjects, ObjectsStep DEF DupFacts
<1>14. TableTyped
  BY <1>1 DEF FilesInv, TypeOK, TableTyped
<1> QED
  BY <1>1, <1>6, <1>7, <1>9, <1>11, <1>13, <1>14, StepKeeps DEF DupFacts

(* open() gives its file the inode.                                        *)
LEMMA OpenFillKeeps ==
  ASSUME FileConstants, FilesInv, NEW p \in Proc, openFill(p)
  PROVE  FilesInv'
<1> DEFINE g == st[p].f
           i == st[p].ip
           t == User
<1>1. /\ st[p].pc = "openfill" /\ UNCHANGED <<ofile, iref, pipe>> /\ Become(p, t)
      /\ file' = [file EXCEPT ![g].type = "FD_INODE", ![g].obj = i]
  BY DEF openFill, At
<1>2. /\ Shape(st[p]) /\ DescsFor(st[p], ofile[p], file) /\ g \in File /\ i \in Inode
      /\ file[g] = NewFile
  BY <1>1 DEF FilesInv, Shape, FreshFor, Filling
<1> HIDE DEF g, i
<1>3. /\ file \in [File -> FileRecord]
      /\ \A f \in File : Record(file[f]) /\ file[f].ref \in Int
  BY DEF FilesInv, TypeOK, Record, FileRecord
<1>4. /\ file' \in [File -> FileRecord]
      /\ \A f \in File : f # g => file'[f] = file[f]
      /\ file'[g].ref = file[g].ref /\ file'[g].type = "FD_INODE" /\ file'[g].obj = i
      /\ file'[g].writable = file[g].writable
  BY <1>1, <1>2, <1>3, Zenon DEF FileRecord
<1>5. file[g].ref = 1 /\ file[g].type = "FD_NONE" /\ file[g].writable \in BOOLEAN
  BY <1>2, <1>3 DEF NewFile, FileRecord
<1>6. ASSUME NEW q \in Proc \ {p} PROVE FreshFor(st[q], file')
  <2>1. FreshFor(st[q], file) /\ Shape(st[q])
    BY DEF FilesInv
  <2>2. st[q].pc \in Filling => st[q].f \in File /\ st[q].f # g
    <3>1. Separate(st) /\ st[p].pc \in Filling
      BY <1>1 DEF FilesInv, Filling
    <3> QED
      BY <2>1, <3>1 DEF Separate, Shape, Filling, g
  <2>3. st[q].pc = "pipefd" => st[q].f \in File /\ st[q].closing[1] \in File
    BY <2>1 DEF Shape
  <2> QED
    BY <1>4, <1>5, <2>1, <2>2, <2>3 DEF FreshFor
<1>7. FilesKept(p)
  <2>1. Record(file'[g])
    BY <1>2, <1>4, <1>5 DEF Record
  <2> QED
    BY <1>3, <1>4, <1>6, <2>1 DEF FilesKept
<1>8. \A c \in Fd : ofile[p][c] # None /\ file'[ofile[p][c]].type = "FD_NONE" => FALSE
  <2>1. \A c \in Fd : ofile[p][c] # None => ofile[p][c] \in File
    BY DEF FilesInv, TypeOK
  <2> QED
    BY <1>2, <1>4, <2>1 DEF DescsFor, g
<1>9. Goes(p, t)
  BY <1>1, <1>8, UserIs, FileSets, Zenon DEF Goes, Shape, FreshFor, DescsFor, Filling
<1>10. ASSUME NEW f \in File
       PROVE  file'[f].ref = file[f].ref + NamedGain(f) + (Own(t, f) - Own(st[p], f))
  <2>1. NamedGain(f) = 0
    BY <1>1, SameNames
  <2>2. file'[f].ref = file[f].ref /\ file[f].ref \in Int
    BY <1>3, <1>4
  <2>4. Own(t, f) = 0 /\ Own(st[p], f) = 0
    BY <1>1, <1>2, UserIs, OwnIs DEF OwnFacts, Shape
  <2> QED
    BY <2>1, <2>2, <2>4
<1>11. RefExact'
  BY <1>1, <1>10, CountsStep, Zenon
<1>12. \A obj, W : CallsGain(p, t, obj, W) = 0
  BY <1>1, UserIs, NoCall, Zenon
<1>13. ASSUME NEW obj, NEW W
       PROVE  FilesGain(obj, W) = IF i = obj /\ file[g].writable \in W THEN 1 ELSE 0
  <2>1. FilesHold(file, file', g)
    BY <1>2, <1>4, FilesHoldChange
  <2>2. Cardinality(ByFiles(file', obj, W)) = Cardinality(ByFiles(file, obj, W))
            + FilePart(file'[g], obj, W) - FilePart(file[g], obj, W)
    BY <2>1, Zenon DEF FilesHold
  <2>3. FilePart(file[g], obj, W) = 0
    BY <1>5 DEF FilePart, FileHolds, Ind
  <2>4. FilePart(file'[g], obj, W) = IF i = obj /\ file[g].writable \in W THEN 1 ELSE 0
    BY <1>4, <1>5 DEF FilePart, FileHolds, Ind
  <2>5. Cardinality(ByFiles(file, obj, W)) \in Nat
    BY HoldersFinite
  <2> QED
    BY <2>2, <2>3, <2>4, <2>5 DEF FilesGain
<1>14. ObjectsGo(p, t)
  <2>1. ASSUME NEW j \in Inode
        PROVE  iref'[j] = iref[j] + (FilesGain(j, BOOLEAN) + CallsGain(p, t, j, BOOLEAN))
                                   + (OpenPart(t, j) - OpenPart(st[p], j))
    <3>1. OpenPart(st[p], j) = (IF i = j THEN 1 ELSE 0) /\ OpenPart(t, j) = 0
      BY UserIs, FileSets DEF OpenPart, Ind, i
    <3>2. iref'[j] = iref[j] /\ iref[j] \in Int
      BY <1>1 DEF FilesInv, TypeOK
    <3>3. FilesGain(j, BOOLEAN) = IF i = j THEN 1 ELSE 0
      BY <1>5, <1>13
    <3> QED
      BY <1>12, <3>1, <3>2, <3>3
  <2>2. \A q \in PipePage : \A wr \in BOOLEAN :
       (IF End(wr) \in pipe'[q] THEN 1 ELSE 0) = (IF End(wr) \in pipe[q] THEN 1 ELSE 0)
          + (FilesGain(q, {wr}) + CallsGain(p, t, q, {wr}))
    <3> TAKE q \in PipePage
    <3> TAKE wr \in BOOLEAN
    <3>1. FilesGain(q, {wr}) = 0 /\ CallsGain(p, t, q, {wr}) = 0
      BY <1>2, <1>12, <1>13, FileSets
    <3> QED
      BY <1>1, <3>1
  <2> QED
    BY <2>1, <2>2 DEF ObjectsGo
<1>15. ObjectsExact'
  BY <1>1, <1>14, ObjectsStep
<1>16. TableTyped
  BY <1>1 DEF FilesInv, TypeOK, TableTyped
<1> QED
  BY <1>1, <1>7, <1>9, <1>11, <1>15, <1>16, StepKeeps
-----------------------------------------------------------------------------
ReadEnd(page, obj, W) == IF page = obj /\ FALSE \in W THEN 1 ELSE 0
WriteEnd(page, obj, W) == IF page = obj /\ TRUE \in W THEN 1 ELSE 0

(* The ends that a new pipe has.                                           *)
LEMMA PageEnds ==
  ASSUME NEW page
  PROVE  /\ \A obj, W : ReadEnd(page, obj, W) \in Int /\ WriteEnd(page, obj, W) \in Int
         /\ \A obj, W : page # obj => ReadEnd(page, obj, W) = 0 /\ WriteEnd(page, obj, W) = 0
         /\ \A wr \in BOOLEAN :
              ReadEnd(page, page, {wr}) + WriteEnd(page, page, {wr}) = 1
<1>1. /\ \A obj, W : ReadEnd(page, obj, W) \in Int /\ WriteEnd(page, obj, W) \in Int
      /\ \A obj, W : page # obj => ReadEnd(page, obj, W) = 0 /\ WriteEnd(page, obj, W) = 0
  BY DEF ReadEnd, WriteEnd
<1>2. ASSUME NEW wr \in BOOLEAN
      PROVE  ReadEnd(page, page, {wr}) + WriteEnd(page, page, {wr}) = 1
  <2>1. wr = TRUE \/ wr = FALSE
    OBVIOUS
  <2>2. ReadEnd(page, page, {TRUE}) = 0 /\ WriteEnd(page, page, {TRUE}) = 1
    BY Zenon DEF ReadEnd, WriteEnd
  <2>3. ReadEnd(page, page, {FALSE}) = 1 /\ WriteEnd(page, page, {FALSE}) = 0
    BY Zenon DEF ReadEnd, WriteEnd
  <2>4. \/ ReadEnd(page, page, {wr}) = 0 /\ WriteEnd(page, page, {wr}) = 1
        \/ ReadEnd(page, page, {wr}) = 1 /\ WriteEnd(page, page, {wr}) = 0
    BY <2>1, <2>2, <2>3, Zenon
  <2> QED
    BY <2>4
<1> QED
  BY <1>1, <1>2

(* pipealloc() has both files and a page.                                  *)
LEMMA PipeAlloc1Keeps ==
  ASSUME FileConstants, FilesInv, NEW p \in Proc, pipealloc1(p)
  PROVE  FilesInv'
<1> DEFINE h == st[p].f
           g == FreeFile
           t == [st[p] EXCEPT !.pc = "pipefd", !.closing = <<g>>]
<1>1. /\ st[p].pc = "pipe" /\ UNCHANGED <<ofile, iref>> /\ Become(p, t) /\ g # None
  BY Zenon DEF pipealloc1, At
<1>2. PICK page \in PipePage :
          /\ pipe[page] = {}
          /\ pipe' = [pipe EXCEPT ![page] = {"read", "write"}]
          /\ file' = [filealloc(g) EXCEPT
                        ![h].type = "FD_PIPE", ![h].obj = page, ![h].writable = FALSE,
                        ![g].type = "FD_PIPE", ![g].obj = page, ![g].writable = TRUE]
  BY Zenon DEF pipealloc1
<1>3. /\ Shape(st[p]) /\ DescsFor(st[p], ofile[p], file) /\ h \in File /\ st[p] \in Local
      /\ file[h] = NewFile
  BY <1>1 DEF FilesInv, Shape, FreshFor, Filling
<1>4. g \in File /\ file[g].ref = 0
  BY <1>1, FreeFileIs
<1> HIDE DEF g, h
<1>5. /\ file \in [File -> FileRecord]
      /\ \A f \in File : Record(file[f]) /\ file[f].ref \in Int
  BY DEF FilesInv, TypeOK, Record, FileRecord
<1>6. /\ file[h].ref = 1 /\ file[h].type = "FD_NONE" /\ file[g].type = "FD_NONE" /\ g # h
  <2>1. file[g] = Closed
    BY <1>4, <1>5 DEF Record
  <2> QED
    BY <1>3, <1>4, <2>1 DEF NewFile, Closed
<1>7. /\ file' \in [File -> FileRecord]
      /\ \A f \in File : f # g /\ f # h => file'[f] = file[f]
      /\ file'[h].ref = 1 /\ file'[h].type = "FD_PIPE" /\ file'[h].obj = page
      /\ file'[h].writable = FALSE
      /\ file'[g].ref = 1 /\ file'[g].type = "FD_PIPE" /\ file'[g].obj = page
      /\ file'[g].writable = TRUE
  BY <1>2, <1>3, <1>4, <1>5, <1>6 DEF filealloc, FileRecord
<1>8. ASSUME NEW q \in Proc \ {p} PROVE FreshFor(st[q], file')
  <2>1. FreshFor(st[q], file) /\ Shape(st[q])
    BY DEF FilesInv
  <2>2. st[q].pc \in Filling => st[q].f \in File /\ st[q].f # h /\ st[q].f # g
    <3>1. Separate(st) /\ st[p].pc \in Filling
      BY <1>1 DEF FilesInv, Filling
    <3>2. st[q].pc \in Filling => st[q].f \in File /\ file[st[q].f].ref = 1
      BY <2>1 DEF FreshFor, Shape, Filling, NewFile
    <3> QED
      BY <1>4, <3>1, <3>2 DEF Separate, h
  <2>3. st[q].pc = "pipefd" => st[q].f \in File /\ st[q].closing[1] \in File
    BY <2>1 DEF Shape
  <2> QED
    BY <1>7, <2>1, <2>2, <2>3 DEF FreshFor
<1>9. FilesKept(p)
  <2>1. Record(file'[g]) /\ Record(file'[h])
    BY <1>3, <1>4, <1>7 DEF Record
  <2>2. \A f \in File : Record(file'[f])
    BY <1>5, <1>7, <2>1
  <2> QED
    BY <1>7, <1>8, <2>2 DEF FilesKept
<1>10. /\ t.pc = "pipefd" /\ t.f = h /\ t.ip = None /\ t.ff = None /\ t.closing = <<g>>
       /\ t \in Local
  <2> DEFINE C == UNION {[1 .. n -> File] : n \in 0 .. 2}
  <2>1. Local = [pc : Location, ip : Inode \cup {None}, f : File \cup {None},
          ff : FileRecord \cup {None}, closing : C, after : Location,
          child : Proc \cup {None}, i : 0 .. NOFILE] /\ <<g>> \in C
    BY <1>4, ClosingIs DEF Local
  <2>2. st[p].ip = None /\ st[p].ff = None
    BY <1>1, <1>3 DEF Shape
  <2> HIDE DEF C
  <2> QED
    BY <1>3, <2>1, <2>2, Zenon DEF Location, h
<1> HIDE DEF t
<1>11. Goes(p, t)
  <2>1. Shape(t)
    BY <1>3, <1>4, <1>10 DEF Shape
  <2>2. \A c \in Fd : ofile[p][c] # None => file'[ofile[p][c]].type # "FD_NONE"
    <3>1. \A c \in Fd : ofile[p][c] # None =>
             ofile[p][c] \in File /\ file[ofile[p][c]].type # "FD_NONE"
      BY <1>1, <1>3 DEF FilesInv, TypeOK, DescsFor
    <3> QED
      BY <1>7, <3>1
  <2>3. DescsFor(t, ofile'[p], file')
    BY <1>1, <1>10, <2>2 DEF DescsFor
  <2>4. FreshFor(t, file')
    <3>1. t.closing[1] = g
      BY <1>10
    <3> QED
      BY <1>7, <1>10, <3>1 DEF FreshFor, Filling
  <2> QED
    BY <1>10, <2>1, <2>3, <2>4 DEF Goes, Filling
<1>12. ASSUME NEW f \in File
       PROVE  file'[f].ref = file[f].ref + NamedGain(f) + (Own(t, f) - Own(st[p], f))
  <2>1. NamedGain(f) = 0
    BY <1>1, SameNames
  <2>2. file[f].ref \in Int /\ Eq(g, f) \in Int /\ Eq(h, f) \in Int
    BY <1>5 DEF Eq
  <2>3. file'[f].ref = file[f].ref + Eq(g, f)
    BY <1>4, <1>5, <1>6, <1>7 DEF Eq
  <2>4. Own(t, f) = Eq(h, f) + Eq(g, f) /\ Own(st[p], f) = Eq(h, f)
    BY <1>1, <1>3, <1>10, OwnIs DEF OwnFacts, Shape, h
  <2> QED
    BY <2>1, <2>2, <2>3, <2>4
<1>13. RefExact'
  BY <1>1, <1>12, CountsStep
<1>14. \A obj, W : CallsGain(p, t, obj, W) = 0
  BY <1>1, <1>10, NoCall
<1>15. ASSUME NEW obj, NEW W
       PROVE  FilesGain(obj, W) = ReadEnd(page, obj, W) + WriteEnd(page, obj, W)
  <2> DEFINE m == [file EXCEPT ![h] = file'[h]]
  <2>1. /\ \A f \in File : f # h => m[f] = file[f]
        /\ \A f \in File : f # g => file'[f] = m[f]
        /\ m[h] = file'[h] /\ m[g] = file[g]
    BY <1>3, <1>4, <1>5, <1>6, <1>7
  <2> HIDE DEF m
  <2>2. FilesHold(file, m, h) /\ FilesHold(m, file', g)
    BY <1>3, <1>4, <2>1, FilesHoldChange
  <2>3. /\ Cardinality(ByFiles(m, obj, W)) = Cardinality(ByFiles(file, obj, W))
             + FilePart(m[h], obj, W) - FilePart(file[h], obj, W)
        /\ Cardinality(ByFiles(file', obj, W)) = Cardinality(ByFiles(m, obj, W))
             + FilePart(file'[g], obj, W) - FilePart(m[g], obj, W)
    BY <2>2, Zenon DEF FilesHold
  <2>4. FilePart(file[h], obj, W) = 0 /\ FilePart(m[g], obj, W) = 0
    BY <1>6, <2>1 DEF FilePart, FileHolds, Ind
  <2>5. FilePart(m[h], obj, W) = ReadEnd(page, obj, W)
    <3>1. FileHolds(m[h], obj, W) <=> page = obj /\ m[h].writable \in W
      BY <1>7, <2>1 DEF FileHolds
    <3> QED
      BY <1>7, <2>1, <3>1, Zenon DEF FilePart, Ind, ReadEnd, WriteEnd
  <2>6. FilePart(file'[g], obj, W) = WriteEnd(page, obj, W)
    <3>1. FileHolds(file'[g], obj, W) <=> page = obj /\ file'[g].writable \in W
      BY <1>7 DEF FileHolds
    <3> QED
      BY <1>7, <3>1, Zenon DEF FilePart, Ind, ReadEnd, WriteEnd
  <2>7. Cardinality(ByFiles(file, obj, W)) \in Nat
    BY HoldersFinite
  <2> QED
    BY <2>3, <2>4, <2>5, <2>6, <2>7, PageEnds DEF FilesGain
<1>16. ObjectsGo(p, t)
  <2>1. ASSUME NEW j \in Inode
        PROVE  iref'[j] = iref[j] + (FilesGain(j, BOOLEAN) + CallsGain(p, t, j, BOOLEAN))
                                   + (OpenPart(t, j) - OpenPart(st[p], j))
    <3>1. OpenPart(st[p], j) = 0 /\ OpenPart(t, j) = 0
      BY <1>1, <1>3, <1>10, FileSets DEF OpenPart, Ind, Shape
    <3>2. iref'[j] = iref[j] /\ iref[j] \in Int
      BY <1>1 DEF FilesInv, TypeOK
    <3>3. FilesGain(j, BOOLEAN) = 0
      BY <1>15, FileSets, PageEnds
    <3> QED
      BY <1>14, <3>1, <3>2, <3>3
  <2>2. ASSUME NEW q \in PipePage, NEW wr \in BOOLEAN
        PROVE  (IF End(wr) \in pipe'[q] THEN 1 ELSE 0) =
                 (IF End(wr) \in pipe[q] THEN 1 ELSE 0)
                   + (FilesGain(q, {wr}) + CallsGain(p, t, q, {wr}))
    <3>1. FilesGain(q, {wr}) = (IF page = q THEN 1 ELSE 0) /\ CallsGain(p, t, q, {wr}) = 0
      <4>1. FilesGain(q, {wr}) = ReadEnd(page, q, {wr}) + WriteEnd(page, q, {wr})
        BY <1>15, Zenon
      <4>2. /\ page # q => ReadEnd(page, q, {wr}) = 0 /\ WriteEnd(page, q, {wr}) = 0
            /\ page = q => ReadEnd(page, q, {wr}) + WriteEnd(page, q, {wr}) = 1
        BY PageEnds, Zenon
      <4>3. FilesGain(q, {wr}) = (IF page = q THEN 1 ELSE 0)
        BY <4>1, <4>2
      <4> QED
        BY <1>14, <4>3, Zenon
    <3>2. pipe \in [PipePage -> SUBSET {"read", "write"}]
      BY DEF FilesInv, TypeOK
    <3>3. /\ q = page => End(wr) \in pipe'[q] /\ End(wr) \notin pipe[q]
          /\ q # page => pipe'[q] = pipe[q]
      BY <1>2, <3>2 DEF End
    <3> QED
      BY <3>1, <3>3
  <2> QED
    BY <2>1, <2>2 DEF ObjectsGo
<1>17. ObjectsExact'
  BY <1>1, <1>16, ObjectsStep
<1>18. TableTyped
  <2>1. pipe' \in [PipePage -> SUBSET {"read", "write"}]
    BY <1>2 DEF FilesInv, TypeOK
  <2> QED
    BY <1>1, <2>1 DEF FilesInv, TypeOK, TableTyped
<1> QED
  BY <1>1, <1>9, <1>11, <1>13, <1>17, <1>18, StepKeeps
-----------------------------------------------------------------------------
(* A descriptor of process q is set to g.                                  *)
NameFacts(q, d, g) ==
  /\ ofile' \in [Proc -> [Fd -> File \cup {None}]]
  /\ \A r1 \in Proc : r1 # q => ofile'[r1] = ofile[r1]
  /\ ofile'[q][d] = g
  /\ \A c \in Fd : c # d => ofile'[q][c] = ofile[q][c]
  /\ \A f \in File : NamedGain(f) = Eq(g, f) - Eq(ofile[q][d], f)

(* What it does to the counts.                                             *)
LEMMA NameIs ==
  ASSUME FileConstants, FilesInv, NEW q \in Proc, NEW d \in Fd, NEW g \in File \cup {None},
         ofile' = [ofile EXCEPT ![q][d] = g]
  PROVE  NameFacts(q, d, g)
<1>1. ofile \in [Proc -> [Fd -> File \cup {None}]]
  BY DEF FilesInv, TypeOK
<1>2. /\ ofile' \in [Proc -> [Fd -> File \cup {None}]]
      /\ \A r1 \in Proc : r1 # q => ofile'[r1] = ofile[r1]
      /\ ofile'[q][d] = g
      /\ \A c \in Fd : c # d => ofile'[q][c] = ofile[q][c]
  BY <1>1
<1>3. ASSUME NEW f \in File PROVE NamedGain(f) = Eq(g, f) - Eq(ofile[q][d], f)
  <2>1. NamedFacts(ofile, ofile', q, d, f)
    BY <1>1, <1>2, NamedChange, Zenon
  <2>2. /\ Cardinality(Named(ofile', f)) =
             Cardinality(Named(ofile, f)) + Eq(g, f) - Eq(ofile[q][d], f)
        /\ Cardinality(Named(ofile, f)) \in Nat
    BY <1>2, <2>1, Zenon DEF NamedFacts
  <2>3. Eq(g, f) \in Int /\ Eq(ofile[q][d], f) \in Int
    BY DEF Eq
  <2> QED
    BY <2>2, <2>3 DEF NamedGain
<1> QED
  BY <1>2, <1>3 DEF NameFacts
-----------------------------------------------------------------------------
(* Local, with the set of sequences named.                                 *)
LocalIn(C) == [pc : Location, ip : Inode \cup {None}, f : File \cup {None},
               ff : FileRecord \cup {None}, closing : C, after : Location,
               child : Proc \cup {None}, i : 0 .. NOFILE]

ClosingFacts(t, cl, loc) ==
  /\ Closing(t, cl, loc) \in Local
  /\ Closing(t, cl, loc).pc = "close" /\ Closing(t, cl, loc).closing = cl
  /\ Closing(t, cl, loc).after = loc /\ Closing(t, cl, loc).ip = t.ip
  /\ Closing(t, cl, loc).f = t.f /\ Closing(t, cl, loc).ff = t.ff
  /\ Closing(t, cl, loc).i = t.i

(* A call of fileclose() by a process in user code or with other files.    *)
LEMMA ClosingGoes ==
  ASSUME NEW t \in Local, NEW cl, NEW f \in File, NEW g \in File,
         cl = <<f>> \/ cl = <<f, g>>, NEW loc \in {"user", "openfail", "exit"}
  PROVE  ClosingFacts(t, cl, loc)
<1> DEFINE C == UNION {[1 .. n -> File] : n \in 0 .. 2}
<1>1. Local = LocalIn(C) /\ cl \in C
  BY ClosingIs DEF Local, LocalIn
<1> HIDE DEF C
<1> QED
  BY <1>1, Zenon DEF LocalIn, Closing, Location, ClosingFacts

(* A process that becomes a caller of fileclose().                         *)
LEMMA ClosingShape ==
  ASSUME NEW t \in Local, t.pc = "close", t.f = None, t.ff = None,
         NEW f \in File, NEW g \in File, t.closing = <<f>> \/ t.closing = <<f, g>>,
         t.after \in {"user", "openfail", "exit"}, t.after = "openfail" <=> t.ip \in Inode
  PROVE  Shape(t)
  BY DEF Shape

(* A step of p that sets its descriptor d to g.                            *)
LEMMA NameKeeps ==
  ASSUME FileConstants, FilesInv, NEW p \in Proc, NEW d \in Fd, NEW g \in File \cup {None}, NEW t,
         Become(p, t), NameFacts(p, d, g), UNCHANGED <<file, iref, pipe>>,
         \A f \in File : Own(t, f) + Eq(g, f) = Own(st[p], f) + Eq(ofile[p][d], f),
         st[p].pc \notin {"child", "closed"}, t.pc # "closed", t.ip = st[p].ip, Goes(p, t)
  PROVE  FilesInv'
<1>1. TableTyped
  BY DEF FilesInv, TypeOK, TableTyped, NameFacts
<1>2. FilesKept(p) /\ \A obj, W : FilesGain(obj, W) = 0
  BY SameFiles
<1>3. ASSUME NEW f \in File
      PROVE  file'[f].ref = file[f].ref + NamedGain(f) + (Own(t, f) - Own(st[p], f))
  <2>1. NamedGain(f) = Eq(g, f) - Eq(ofile[p][d], f)
    BY DEF NameFacts
  <2>2. /\ file[f].ref \in Int /\ Own(st[p], f) \in Int /\ Own(t, f) \in Int
        /\ Eq(g, f) \in Int /\ Eq(ofile[p][d], f) \in Int
    BY DEF FilesInv, Record, FileRecord, Own, Ind, Eq
  <2>3. Own(t, f) + Eq(g, f) = Own(st[p], f) + Eq(ofile[p][d], f) /\ file' = file
    OBVIOUS
  <2> QED
    BY <2>1, <2>2, <2>3
<1>4. RefExact'
  BY <1>3, CountsStep
<1>5. ObjectsExact'
  BY <1>2, SameObjects, ObjectsStep
<1>6. \A q \in Proc \ {p} : ofile'[q] = ofile[q]
  BY DEF NameFacts
<1> QED
  BY <1>1, <1>2, <1>4, <1>5, <1>6, StepKeeps

(* dup() has its new descriptor.                                           *)
LEMMA SysDupKeeps ==
  ASSUME FileConstants, FilesInv, NEW p \in Proc, NEW d \in Fd, sys_dup(p, d)
  PROVE  FilesInv'
<1> DEFINE c == FreeFd(p)
           g == ofile[p][d]
           t == [User EXCEPT !.pc = "dup", !.f = g]
<1>1. /\ st[p].pc = "user" /\ g # None /\ c # None /\ ofile' = [ofile EXCEPT ![p][c] = g]
      /\ Become(p, t) /\ UNCHANGED <<file, iref, pipe>>
  BY DEF sys_dup, At
<1>2. st[p] = User /\ g \in File /\ DescsFor(st[p], ofile[p], file)
  BY <1>1 DEF FilesInv, Shape, TypeOK
<1>3. c \in Fd /\ ofile[p][c] = None
  BY <1>1, FreeFdIs
<1> HIDE DEF c, g
<1>4. /\ t \in Local /\ t.pc = "dup" /\ t.f = g /\ t.ip = None /\ t.closing = << >>
      /\ t.ff = None
  <2> DEFINE C == UNION {[1 .. n -> File] : n \in 0 .. 2}
  <2>1. Local = LocalIn(C)
    BY DEF Local, LocalIn
  <2> HIDE DEF C
  <2> QED
    BY <1>2, <2>1, UserIs, Zenon DEF Location, LocalIn
<1> HIDE DEF t
<1>5. NameFacts(p, c, g)
  BY <1>1, <1>2, <1>3, NameIs, Zenon
<1>6. Goes(p, t)
  <2>1. ofile'[p][c] = g /\ ofile'[p][d] = g /\ c # d
    BY <1>1, <1>3, <1>5 DEF NameFacts, g
  <2>2. \A a \in Fd : ofile'[p][a] # None => file[ofile'[p][a]].type # "FD_NONE"
    BY <1>1, <1>2, <1>5 DEF NameFacts, DescsFor, g
  <2>3. DescsFor(t, ofile'[p], file')
    BY <1>1, <1>3, <1>4, <2>1, <2>2 DEF DescsFor
  <2>4. Shape(t)
    BY <1>2, <1>4 DEF Shape
  <2> QED
    BY <1>4, <2>3, <2>4 DEF Goes, FreshFor, Filling
<1>7. ASSUME NEW f \in File
      PROVE  Own(t, f) + Eq(g, f) = Own(st[p], f) + Eq(ofile[p][c], f)
  <2>1. Own(t, f) = 0 - Eq(g, f) /\ Own(st[p], f) = 0
    BY <1>2, <1>4, UserIs, OwnIs DEF OwnFacts
  <2>2. Eq(ofile[p][c], f) = 0 /\ Eq(g, f) \in Int
    BY <1>3, FileSets DEF Eq
  <2> QED
    BY <2>1, <2>2
<1> QED
  BY <1>1, <1>2, <1>3, <1>4, <1>5, <1>6, <1>7, UserIs, NameKeeps

(* close() clears the descriptor first.                                    *)
LEMMA SysCloseKeeps ==
  ASSUME FileConstants, FilesInv, NEW p \in Proc, NEW d \in Fd, sys_close(p, d)
  PROVE  FilesInv'
<1> DEFINE g == ofile[p][d]
           t == Closing(User, <<g>>, "user")
<1>1. /\ st[p].pc = "user" /\ g # None /\ ofile' = [ofile EXCEPT ![p][d] = None]
      /\ Become(p, t) /\ UNCHANGED <<file, iref, pipe>>
  BY DEF sys_close, At
<1>2. st[p] = User /\ g \in File /\ DescsFor(st[p], ofile[p], file)
  BY <1>1 DEF FilesInv, Shape, TypeOK
<1> HIDE DEF g
<1>4. /\ t \in Local /\ t.pc = "close" /\ t.f = None /\ t.ip = None /\ t.closing = <<g>>
      /\ t.ff = None /\ t.after = "user"
  <2>1. ClosingFacts(User, <<g>>, "user")
    BY <1>2, UserIs, ClosingGoes
  <2> QED
    BY <2>1, UserIs DEF ClosingFacts
<1> HIDE DEF t
<1>5. NameFacts(p, d, None)
  BY <1>1, NameIs, Zenon
<1>6. Goes(p, t)
  <2>2. \A a \in Fd : ofile'[p][a] # None => file[ofile'[p][a]].type # "FD_NONE"
    BY <1>1, <1>2, <1>5 DEF NameFacts, DescsFor
  <2>3. DescsFor(t, ofile'[p], file')
    BY <1>1, <1>4, <2>2 DEF DescsFor
  <2>4. Shape(t)
    BY <1>2, <1>4, ClosingShape, FileSets
  <2> QED
    BY <1>4, <2>3, <2>4 DEF Goes, FreshFor, Filling
<1>7. ASSUME NEW f \in File
      PROVE  Own(t, f) + Eq(None, f) = Own(st[p], f) + Eq(ofile[p][d], f)
  <2>1. Own(t, f) = Eq(g, f) /\ Own(st[p], f) = 0
    BY <1>2, <1>4, UserIs, OwnIs DEF OwnFacts
  <2>2. Eq(None, f) = 0 /\ Eq(g, f) \in Int
    BY FileSets DEF Eq
  <2> QED
    BY <2>1, <2>2 DEF g
<1> QED
  BY <1>1, <1>2, <1>4, <1>5, <1>6, <1>7, UserIs, NameKeeps

(* open() has a descriptor, or closes its file.                            *)
LEMMA OpenFdKeeps ==
  ASSUME FileConstants, FilesInv, NEW p \in Proc, openFd(p)
  PROVE  FilesInv'
<1> DEFINE d == FreeFd(p)
           h == st[p].f
<1>1. st[p].pc = "openfd" /\ UNCHANGED <<file, iref, pipe>>
  BY DEF openFd, At
<1>2. /\ Shape(st[p]) /\ DescsFor(st[p], ofile[p], file) /\ FreshFor(st[p], file)
      /\ st[p] \in Local /\ h \in File
  BY <1>1 DEF FilesInv, Shape
<1>3. \A f \in File : Own(st[p], f) = Eq(h, f) /\ Eq(h, f) \in Int
  BY <1>1, <1>2, OwnIs DEF OwnFacts, Shape, Eq
<1>4. CASE d = None
  <2> DEFINE u == [st[p] EXCEPT !.f = None]
             t == Closing(u, <<h>>, "openfail")
  <2>1. ofile' = ofile /\ Become(p, t)
    BY <1>4 DEF openFd
  <2>2. u \in Local /\ u.f = None /\ u.ff = None /\ u.ip = st[p].ip /\ u.ip \in Inode
    <3>1. st[p].ff = None /\ st[p].ip \in Inode
      BY <1>1, <1>2 DEF Shape
    <3> DEFINE C == UNION {[1 .. n -> File] : n \in 0 .. 2}
    <3>2. Local = LocalIn(C)
      BY DEF Local, LocalIn
    <3> HIDE DEF C
    <3> QED
      BY <1>2, <3>1, <3>2 DEF LocalIn
  <2> HIDE DEF u
  <2>3. /\ t \in Local /\ t.pc = "close" /\ t.f = None /\ t.ip = st[p].ip
        /\ t.closing = <<h>> /\ t.ff = None /\ t.after = "openfail" /\ t.ip \in Inode
    <3>1. ClosingFacts(u, <<h>>, "openfail")
      BY <1>2, <2>2, ClosingGoes
    <3> QED
      BY <2>2, <3>1 DEF ClosingFacts
  <2> HIDE DEF t
  <2>4. Shape(t)
    BY <1>2, <2>3, ClosingShape
  <2>5. Goes(p, t)
    BY <1>1, <1>2, <2>1, <2>3, <2>4 DEF Goes, FreshFor, DescsFor, Filling
  <2>6. \A f \in File : Own(t, f) = Eq(h, f)
    BY <2>3, OwnIs DEF OwnFacts
  <2> QED
    BY <1>1, <1>3, <2>1, <2>3, <2>5, <2>6, WalkKeeps
<1>5. CASE d # None
  <2> DEFINE t == [st[p] EXCEPT !.pc = "openfill"]
  <2>1. ofile' = [ofile EXCEPT ![p][d] = h] /\ Become(p, t)
    BY <1>5 DEF openFd
  <2>2. d \in Fd /\ ofile[p][d] = None
    BY <1>5, FreeFdIs
  <2> HIDE DEF d
  <2>3. /\ t \in Local /\ t.pc = "openfill" /\ t.f = h /\ t.ip = st[p].ip
        /\ t.closing = << >> /\ t.ff = None /\ t.ip \in Inode
    <3>1. st[p].ff = None /\ st[p].ip \in Inode /\ st[p].closing = << >>
      BY <1>1, <1>2 DEF Shape
    <3> DEFINE C == UNION {[1 .. n -> File] : n \in 0 .. 2}
    <3>2. Local = LocalIn(C)
      BY DEF Local, LocalIn
    <3> HIDE DEF C
    <3> QED
      BY <1>2, <3>1, <3>2 DEF LocalIn, Location
  <2> HIDE DEF t, h
  <2>4. NameFacts(p, d, h)
    BY <1>2, <2>1, <2>2, NameIs, Zenon
  <2>5. Goes(p, t)
    <3>1. ofile'[p][d] = h
      BY <2>4 DEF NameFacts
    <3>2. \A a \in Fd : a # d /\ ofile'[p][a] # None => file[ofile'[p][a]].type # "FD_NONE"
      BY <1>1, <1>2, <2>4 DEF NameFacts, DescsFor
    <3>3. DescsFor(t, ofile'[p], file')
      BY <1>1, <2>2, <2>3, <3>1, <3>2 DEF DescsFor
    <3>4. Shape(t)
      BY <1>2, <2>3 DEF Shape
    <3>5. FreshFor(t, file')
      BY <1>1, <1>2, <2>3 DEF FreshFor, Filling, h
    <3> QED
      BY <1>1, <2>3, <3>3, <3>4, <3>5 DEF Goes, Filling, h
  <2>6. ASSUME NEW f \in File
        PROVE  Own(t, f) + Eq(h, f) = Own(st[p], f) + Eq(ofile[p][d], f)
    <3>1. Own(t, f) = 0 /\ Own(st[p], f) = Eq(h, f) /\ Eq(h, f) \in Int
      BY <1>3, <2>3, OwnIs DEF OwnFacts
    <3>2. Eq(ofile[p][d], f) = 0
      BY <2>2, FileSets DEF Eq
    <3> QED
      BY <3>1, <3>2
  <2> QED
    BY <1>1, <1>2, <2>1, <2>2, <2>3, <2>4, <2>5, <2>6, NameKeeps
<1> QED
  BY <1>4, <1>5

(* exit() clears the next descriptor.                                      *)
LEMMA ExitFileKeeps ==
  ASSUME FileConstants, FilesInv, NEW p \in Proc, exitFile(p)
  PROVE  FilesInv'
<1> DEFINE d == st[p].i
           g == ofile[p][d]
           u == [st[p] EXCEPT !.i = @ + 1]
           t == IF g = None THEN u ELSE Closing(u, <<g>>, "exit")
<1>1. /\ st[p].pc = "exit" /\ d < NOFILE /\ ofile' = [ofile EXCEPT ![p][d] = None]
      /\ UNCHANGED <<file, iref, pipe>>
      /\ Become(p, [IF g = None THEN st[p] ELSE Closing(st[p], <<g>>, "exit")
                            EXCEPT !.i = @ + 1])
  BY DEF exitFile, At
<1>2. /\ Shape(st[p]) /\ DescsFor(st[p], ofile[p], file) /\ st[p] \in Local
      /\ st[p].f = None /\ st[p].ff = None /\ st[p].ip = None /\ st[p].closing = << >>
  BY <1>1 DEF FilesInv, Shape
<1>3. d \in Fd /\ d \in Nat /\ d + 1 \in 0 .. NOFILE
  BY <1>1, <1>2, LocalIs, FileSets
<1>4. g \in File \cup {None}
  BY <1>3 DEF FilesInv, TypeOK
<1>5. /\ u \in Local /\ u.pc = "exit" /\ u.f = None /\ u.ff = None /\ u.ip = None
      /\ u.closing = << >> /\ u.i = d + 1
  <2> DEFINE C == UNION {[1 .. n -> File] : n \in 0 .. 2}
  <2>2. Local = LocalIn(C)
    BY DEF Local, LocalIn
  <2> HIDE DEF C
  <2> QED
    BY <1>1, <1>2, <1>3, <2>2 DEF LocalIn
<1>6. Become(p, t)
  <2>1. [Closing(st[p], <<g>>, "exit") EXCEPT !.i = @ + 1] = Closing(u, <<g>>, "exit")
    <3> DEFINE C == UNION {[1 .. n -> File] : n \in 0 .. 2}
    <3>2. Local = LocalIn(C)
      BY DEF Local, LocalIn
    <3> HIDE DEF C, g
    <3> QED
      BY <1>2, <3>2, Zenon DEF LocalIn, Closing
  <2> QED
    BY <1>1, <2>1, Zenon
<1> HIDE DEF u, g, d
<1>7. NameFacts(p, d, None)
  BY <1>1, <1>3, NameIs, Zenon
<1>8. /\ t \in Local /\ t.f = None /\ t.ff = None /\ t.ip = None /\ t.i = d + 1
      /\ g = None => t.pc = "exit" /\ t.closing = << >>
      /\ g # None => t.pc = "close" /\ t.closing = <<g>> /\ t.after = "exit"
  <2>1. CASE g = None
    BY <1>5, <2>1
  <2>2. CASE g # None
    <3>1. ClosingFacts(u, <<g>>, "exit")
      BY <1>4, <1>5, <2>2, ClosingGoes
    <3> QED
      BY <1>5, <2>2, <3>1 DEF ClosingFacts
  <2> QED
    BY <2>1, <2>2
<1> HIDE DEF t
<1>9. Shape(t)
  <2>1. CASE g = None
    BY <1>8, <2>1 DEF Shape
  <2>2. CASE g # None
    BY <1>4, <1>8, <2>2, ClosingShape, FileSets
  <2> QED
    BY <2>1, <2>2
<1>10. Goes(p, t)
  <2>1. \A a \in Fd : ofile'[p][a] # None => file[ofile'[p][a]].type # "FD_NONE"
    BY <1>1, <1>2, <1>7 DEF NameFacts, DescsFor
  <2>2. \A a \in Fd : a < d + 1 => ofile'[p][a] = None
    <3>1. \A a \in Fd : a < d => ofile[p][a] = None
      BY <1>1, <1>2 DEF DescsFor, d
    <3>2. \A a \in Fd : a < d + 1 => a < d \/ a = d
      BY <1>3, FileSets
    <3> QED
      BY <1>7, <3>1, <3>2 DEF NameFacts
  <2>3. DescsFor(t, ofile'[p], file')
    BY <1>1, <1>8, <2>1, <2>2 DEF DescsFor
  <2> QED
    BY <1>8, <1>9, <2>3 DEF Goes, FreshFor, Filling
<1>11. ASSUME NEW f \in File
       PROVE  Own(t, f) + Eq(None, f) = Own(st[p], f) + Eq(ofile[p][d], f)
  <2>1. Own(st[p], f) = 0 /\ OwnFacts(t, f)
    BY <1>1, <1>2, OwnIs DEF OwnFacts
  <2>2. Eq(None, f) = 0 /\ Eq(g, f) \in Int
    BY FileSets DEF Eq
  <2>3. Own(t, f) = Eq(g, f)
    <3>1. CASE g = None
      BY <1>8, <2>1, <2>2, <3>1 DEF OwnFacts
    <3>2. CASE g # None
      BY <1>8, <2>1, <3>2 DEF OwnFacts
    <3> QED
      BY <3>1, <3>2
  <2> QED
    BY <2>1, <2>2, <2>3 DEF g
<1>12. t.pc # "closed"
  BY <1>8
<1> QED
  BY <1>1, <1>2, <1>3, <1>6, <1>7, <1>8, <1>10, <1>11, <1>12, NameKeeps
-----------------------------------------------------------------------------
(* fork() passes one descriptor on.                                        *)
LEMMA ForkFileKeeps ==
  ASSUME FileConstants, FilesInv, NEW p \in Proc, forkFile(p)
  PROVE  FilesInv'
<1> DEFINE d == st[p].i
           g == ofile[p][d]
           c == st[p].child
           t == [st[p] EXCEPT !.i = @ + 1]
<1>1. st[p].pc = "fork" /\ d < NOFILE /\ UNCHANGED <<iref, pipe>>
  BY DEF forkFile, At
<1>2. /\ Shape(st[p]) /\ DescsFor(st[p], ofile[p], file) /\ st[p] \in Local
      /\ st[p].f = None /\ st[p].ff = None /\ st[p].ip = None /\ st[p].closing = << >>
      /\ ForkFor(p, st, ofile)
  BY <1>1 DEF FilesInv, Shape
<1>3. d \in Fd /\ d \in Nat /\ d + 1 \in 0 .. NOFILE
  BY <1>1, <1>2, LocalIs, FileSets
<1>4. g \in File \cup {None}
  BY <1>3 DEF FilesInv, TypeOK
<1>5. /\ t \in Local /\ t.pc = "fork" /\ t.f = None /\ t.ff = None /\ t.ip = None
      /\ t.closing = << >> /\ t.i = d + 1 /\ t.child = c
  <2> DEFINE C == UNION {[1 .. n -> File] : n \in 0 .. 2}
  <2>2. Local = LocalIn(C)
    BY DEF Local, LocalIn
  <2> HIDE DEF C
  <2> QED
    BY <1>1, <1>2, <1>3, <2>2 DEF LocalIn
<1>6. Shape(t)
  BY <1>5 DEF Shape
<1>7. \A f \in File : Own(t, f) = 0 /\ Own(st[p], f) = 0
  BY <1>1, <1>2, <1>5, OwnIs, Zenon DEF OwnFacts
<1>8. CASE g = None
  <2>1. Become(p, t) /\ UNCHANGED <<file, ofile>>
    BY <1>8 DEF forkFile
  <2> HIDE DEF t, d
  <2>2. Goes(p, t)
    <3>1. t.child = st[p].child /\ t.i >= st[p].i
      BY <1>3, <1>5 DEF d
    <3>2. DescsFor(t, ofile'[p], file')
      BY <1>1, <1>2, <1>5, <2>1 DEF DescsFor
    <3> QED
      BY <1>1, <1>5, <1>6, <3>1, <3>2 DEF Goes, FreshFor, Filling
  <2> QED
    BY <1>1, <1>2, <1>5, <1>7, <2>1, <2>2, WalkKeeps
<1>9. CASE g # None
  <2>1. g \in File
    BY <1>4, <1>9
  <2>2. file[g].ref >= 1 /\ file[g].ref \in Int
    BY <1>3, <2>1, FileAlive
  <2>3. file[g].type # "FD_NONE"
    BY <1>1, <1>2, <1>3, <1>9 DEF DescsFor
  <2>4. Become(p, t) /\ file' = filedup(g) /\ ofile' = [ofile EXCEPT ![c][d] = g]
    BY <1>9, <2>2 DEF forkFile
  <2>5. /\ c \in Proc /\ c # p /\ st[c].pc = "child"
        /\ \A a \in Fd : a >= d => ofile[c][a] = None
    BY <1>1, <1>2 DEF ForkFor
  <2> HIDE DEF t, d, c, g
  <2>6. DupFacts(p, g)
    BY <2>1, <2>2, <2>3, <2>4, DupIs
  <2>7. NameFacts(c, d, g) /\ ofile[c][d] = None
    <3>1. d >= d
      BY <1>3
    <3> QED
      BY <1>3, <2>1, <2>4, <2>5, <3>1, NameIs, Zenon
  <2>8. \A q \in Proc : \A a \in Fd : ofile[q][a] # None =>
          file'[ofile[q][a]].type = file[ofile[q][a]].type
    BY <2>6 DEF DupFacts, FilesInv, TypeOK
  <2>9. GivesTo(p, t, c)
    <3>1. DescsFor(st[c], ofile[c], file)
      BY <2>5 DEF FilesInv
    <3>2. \A a \in Fd : ofile'[c][a] # None => file'[ofile'[c][a]].type # "FD_NONE"
      <4>1. file'[g].type # "FD_NONE"
        BY <2>1, <2>3, <2>6 DEF DupFacts
      <4>2. \A a \in Fd : ofile[c][a] # None => file'[ofile[c][a]].type # "FD_NONE"
        BY <2>5, <2>8, <3>1 DEF DescsFor
      <4> QED
        BY <2>7, <4>1, <4>2 DEF NameFacts
    <3>3. DescsFor(st[c], ofile'[c], file')
      BY <2>5, <3>2 DEF DescsFor
    <3>4. \A a \in Fd : a >= t.i => ofile'[c][a] = None
      <4>1. \A a \in Fd : a >= d + 1 => a # d /\ a >= d
        BY <1>3, FileSets
      <4> QED
        BY <1>5, <2>5, <2>7, <4>1 DEF NameFacts
    <3> QED
      BY <1>1, <1>5, <3>3, <3>4 DEF GivesTo, c
  <2>10. Goes(p, t)
    <3>1. t.child = st[p].child /\ t.i >= st[p].i
      BY <1>3, <1>5 DEF d, c
    <3>2. ofile'[p] = ofile[p]
      BY <2>5, <2>7 DEF NameFacts
    <3>3. \A a \in Fd : ofile[p][a] # None => file'[ofile[p][a]].type # "FD_NONE"
      BY <1>1, <1>2, <2>8 DEF DescsFor
    <3>4. DescsFor(t, ofile'[p], file')
      BY <1>1, <1>2, <1>5, <3>2, <3>3 DEF DescsFor
    <3> QED
      BY <1>1, <1>5, <1>6, <3>1, <3>4 DEF Goes, FreshFor, Filling
  <2>11. ASSUME NEW f \in File
         PROVE  file'[f].ref = file[f].ref + NamedGain(f) + (Own(t, f) - Own(st[p], f))
    <3>1. NamedGain(f) = Eq(g, f) - Eq(ofile[c][d], f)
      BY <2>7 DEF NameFacts
    <3>2. Eq(ofile[c][d], f) = 0 /\ Eq(g, f) \in Int /\ file[f].ref \in Int
      BY <2>7, FileSets DEF Eq, FilesInv, Record, FileRecord
    <3>3. file'[f].ref = file[f].ref + Eq(g, f)
      BY <2>6 DEF DupFacts
    <3> QED
      BY <1>7, <3>1, <3>2, <3>3
  <2>12. RefExact'
    BY <2>4, <2>11, CountsStep
  <2>13. ObjectsExact'
    BY <1>1, <1>2, <1>5, <2>4, <2>6, SameObjects, ObjectsStep DEF DupFacts
  <2>14. TableTyped
    BY <1>1, <2>7 DEF FilesInv, TypeOK, TableTyped, NameFacts
  <2>15. \A q \in Proc \ {p} : ofile'[q] = ofile[q] \/ GivesTo(p, t, q)
    BY <2>7, <2>9 DEF NameFacts
  <2>16. FilesKept(p)
    BY <2>6 DEF DupFacts
  <2> QED
    BY <1>1, <2>4, <2>10, <2>12, <2>13, <2>14, <2>15, <2>16, StepKeeps
<1> QED
  BY <1>8, <1>9
-----------------------------------------------------------------------------
(* A process that has no part in any count.                                *)
Quiet(t) ==
  t.pc \in {"none", "user", "fork", "child"} /\ t.f = None /\ t.closing = << >> /\ t.ip = None

(* Two processes move and no count changes.                                *)
LEMMA QuietCounts ==
  ASSUME FileConstants, FilesInv, UNCHANGED <<file, ofile, iref, pipe>>,
         \A q \in Proc : st'[q] = st[q] \/ (Quiet(st[q]) /\ Quiet(st'[q]))
  PROVE  RefExact' /\ ObjectsExact'
<1>1. ASSUME NEW f \in File PROVE Calls(st', f) = Calls(st, f)
  <2>1. Allocated(st', f) = Allocated(st, f)
    BY FileSets DEF Allocated, Quiet
  <2>2. Dupping(st', f) = Dupping(st, f)
    BY FileSets DEF Dupping, Quiet
  <2>3. Listed(st', f) = Listed(st, f)
    <3>1. ASSUME NEW q \in Proc, NEW j PROVE Lists(st'[q], j, f) <=> Lists(st[q], j, f)
      <4>1. \A t : Quiet(t) => ~Lists(t, j, f)
        BY DEF Quiet, Lists
      <4> QED
        BY <4>1
    <3>2. \A s : Listed(s, f) = {x \in Proc \X (1 .. 2) : Lists(s[x[1]], x[2], f)}
      BY DEF Listed, Lists
    <3>3. \A x \in Proc \X (1 .. 2) : Lists(st'[x[1]], x[2], f) <=> Lists(st[x[1]], x[2], f)
      BY <3>1
    <3> QED
      BY <3>2, <3>3, Zenon
  <2> QED
    BY <2>1, <2>2, <2>3 DEF Calls
<1>2. RefExact'
  <2>1. ASSUME NEW f \in File PROVE file'[f].ref = References(f)'
    BY <1>1, RefsAre DEF FilesInv, RefExact
  <2> QED
    BY <2>1 DEF RefExact
<1>3. \A obj, W : ByCalls(st', obj, W) = ByCalls(st, obj, W)
  BY DEF ByCalls, CallHolds, Quiet
<1>4. \A i \in Inode : ByOpens(st', i) = ByOpens(st, i)
  BY FileSets DEF ByOpens, Quiet
<1>5. \A obj, W : Holders(obj, W)' = Holders(obj, W)
  BY <1>3, HoldersAre
<1>6. ObjectsExact'
  <2>1. ASSUME NEW i \in Inode
        PROVE  iref'[i] = Holders(i, BOOLEAN)' + Cardinality(ByOpens(st', i))
    <3>1. iref[i] = Holders(i, BOOLEAN) + Cardinality(ByOpens(st, i))
      BY Zenon DEF FilesInv, ObjectsExact, ByOpens
    <3> QED
      BY <1>4, <1>5, <3>1, Zenon
  <2>2. ASSUME NEW q \in PipePage, NEW wr \in BOOLEAN
        PROVE  Holders(q, {wr})' = IF End(wr) \in pipe'[q] THEN 1 ELSE 0
    <3>1. Holders(q, {wr}) = IF End(wr) \in pipe[q] THEN 1 ELSE 0
      BY Zenon DEF FilesInv, ObjectsExact
    <3> QED
      BY <1>5, <3>1, Zenon
  <2> QED
    BY <2>1, <2>2, Zenon DEF ObjectsExact, ByOpens
<1> QED
  BY <1>2, <1>6

(* fork() has a child that is in no other fork().                          *)
LEMMA ForkKeeps ==
  ASSUME FileConstants, FilesInv, NEW p \in Proc, NEW c \in Proc \ {p}, fork(p, c)
  PROVE  FilesInv'
<1> DEFINE t == [User EXCEPT !.pc = "fork", !.child = c]
           u == [st[c] EXCEPT !.pc = "child"]
<1>0. st \in [Proc -> Local]
  BY DEF FilesInv, TypeOK
<1>1. /\ st[p].pc = "user" /\ st[c].pc = "none" /\ UNCHANGED <<file, ofile, iref, pipe>>
      /\ st' = [st EXCEPT ![p] = t, ![c].pc = "child"]
  BY DEF fork, At
<1>2. /\ st[p] = User /\ st[c] = Nowhere
      /\ DescsFor(st[p], ofile[p], file) /\ DescsFor(st[c], ofile[c], file)
  BY <1>1 DEF FilesInv, Shape
<1>3. st'[p] = t /\ st'[c] = u /\ \A q \in Proc : q # p /\ q # c => st'[q] = st[q]
  BY <1>0, <1>1
<1>4. /\ t \in Local /\ t.pc = "fork" /\ t.f = None /\ t.ff = None /\ t.ip = None
      /\ t.closing = << >> /\ t.i = 0 /\ t.child = c
      /\ u \in Local /\ u.pc = "child" /\ u.f = None /\ u.ff = None /\ u.ip = None
      /\ u.closing = << >>
  <2> DEFINE C == UNION {[1 .. n -> File] : n \in 0 .. 2}
  <2>2. Local = LocalIn(C)
    BY DEF Local, LocalIn
  <2> HIDE DEF C
  <2> QED
    BY <1>2, <2>2, UserIs, Zenon DEF LocalIn, Location
<1> HIDE DEF t, u
<1>5. TypeOK'
  <2>1. st' \in [Proc -> Local]
    BY <1>0, <1>1, <1>3, <1>4
  <2> QED
    BY <1>1, <2>1 DEF FilesInv, TypeOK
<1>6. RefExact' /\ ObjectsExact'
  <2>1. Quiet(t) /\ Quiet(u) /\ Quiet(st[p]) /\ Quiet(st[c])
    BY <1>2, <1>4, UserIs DEF Quiet
  <2> QED
    BY <1>1, <1>3, <2>1, QuietCounts, Zenon
<1>7. ASSUME NEW q \in Proc
      PROVE  Shape(st'[q]) /\ FreshFor(st'[q], file') /\ DescsFor(st'[q], ofile'[q], file')
  <2>1. CASE q = p
    BY <1>1, <1>2, <1>3, <1>4, <2>1, UserIs, FileSets DEF Shape, FreshFor, DescsFor, Filling
  <2>2. CASE q = c
    BY <1>1, <1>2, <1>3, <1>4, <2>2, UserIs, FileSets DEF Shape, FreshFor, DescsFor, Filling
  <2>3. CASE q # p /\ q # c
    BY <1>1, <1>3, <2>3, Zenon DEF FilesInv
  <2> QED
    BY <2>1, <2>2, <2>3
<1>8. ASSUME NEW q \in Proc PROVE ForkFor(q, st', ofile')
  <2>0. \A x \in Proc : st[x].pc = "fork" => st[x].child # c /\ st[x].child # p
    BY <1>1 DEF FilesInv, ForkFor
  <2>1. CASE q = p
    <3>1. \A d \in Fd : ofile'[c][d] = None
      BY <1>1, <1>2, UserIs DEF DescsFor
    <3>2. \A x \in Proc : x # p /\ st'[x].pc = "fork" => st'[x].child # c
      BY <1>3, <1>4, <2>0
    <3> QED
      BY <1>3, <1>4, <2>1, <3>1, <3>2 DEF ForkFor
  <2>2. CASE q = c
    BY <1>3, <1>4, <2>2 DEF ForkFor
  <2>3. CASE q # p /\ q # c
    <3>1. ForkFor(q, st, ofile) /\ st'[q] = st[q]
      BY <1>3, <2>3 DEF FilesInv
    <3> SUFFICES ASSUME st[q].pc = "fork" PROVE ForkFor(q, st', ofile')
      BY <3>1 DEF ForkFor
    <3>2. /\ st[q].child \in Proc \ {q} /\ st[st[q].child].pc = "child"
          /\ \A d \in Fd : d >= st[q].i => ofile[st[q].child][d] = None
          /\ \A x \in Proc : x # q /\ st[x].pc = "fork" => st[x].child # st[q].child
      BY <3>1 DEF ForkFor
    <3>3. st[q].child # c /\ st[q].child # p
      BY <2>0
    <3>4. st'[st[q].child] = st[st[q].child]
      BY <1>3, <3>2, <3>3
    <3>5. \A x \in Proc : x # q /\ st'[x].pc = "fork" => st'[x].child # st[q].child
      BY <1>3, <1>4, <3>2, <3>3
    <3> QED
      BY <1>1, <3>1, <3>2, <3>4, <3>5, Zenon DEF ForkFor
  <2> QED
    BY <2>1, <2>2, <2>3
<1>9. Separate(st')
  <2>1. \A x \in Proc : st'[x].pc \in Filling => st'[x] = st[x]
    BY <1>3, <1>4 DEF Filling
  <2> QED
    BY <2>1 DEF FilesInv, Separate
<1> QED
  BY <1>1, <1>5, <1>6, <1>7, <1>8, <1>9, Zenon DEF FilesInv

(* Parent and child run.                                                   *)
LEMMA ForkDoneKeeps ==
  ASSUME FileConstants, FilesInv, NEW p \in Proc, forkDone(p)
  PROVE  FilesInv'
<1> DEFINE c == st[p].child
           t == User
<1>0. st \in [Proc -> Local]
  BY DEF FilesInv, TypeOK
<1>1. /\ st[p].pc = "fork" /\ UNCHANGED <<file, ofile, iref, pipe>>
      /\ st' = [st EXCEPT ![p] = t, ![c] = t]
  BY DEF forkDone, At
<1>2. /\ c \in Proc /\ c # p /\ st[c].pc = "child"
      /\ \A x \in Proc : x # p /\ st[x].pc = "fork" => st[x].child # c
      /\ \A x \in Proc : st[x].pc = "fork" => st[x].child # p
      /\ DescsFor(st[p], ofile[p], file) /\ DescsFor(st[c], ofile[c], file)
      /\ Shape(st[p]) /\ Shape(st[c])
  BY <1>1 DEF FilesInv, ForkFor
<1> HIDE DEF c
<1>3. st'[p] = t /\ st'[c] = t /\ \A q \in Proc : q # p /\ q # c => st'[q] = st[q]
  BY <1>0, <1>1, <1>2
<1>5. TypeOK'
  <2>1. st' \in [Proc -> Local]
    BY <1>0, <1>1, <1>2, UserIs
  <2> QED
    BY <1>1, <2>1 DEF FilesInv, TypeOK
<1>6. RefExact' /\ ObjectsExact'
  <2>1. Quiet(t) /\ Quiet(st[p]) /\ Quiet(st[c])
    BY <1>1, <1>2, UserIs DEF Quiet, Shape
  <2> QED
    BY <1>1, <1>3, <2>1, QuietCounts, Zenon
<1>7. ASSUME NEW q \in Proc
      PROVE  Shape(st'[q]) /\ FreshFor(st'[q], file') /\ DescsFor(st'[q], ofile'[q], file')
  <2>1. CASE q = p
    BY <1>1, <1>2, <1>3, <2>1, UserIs, FileSets DEF Shape, FreshFor, DescsFor, Filling
  <2>2. CASE q = c
    BY <1>1, <1>2, <1>3, <2>2, UserIs, FileSets DEF Shape, FreshFor, DescsFor, Filling
  <2>3. CASE q # p /\ q # c
    BY <1>1, <1>3, <2>3, Zenon DEF FilesInv
  <2> QED
    BY <2>1, <2>2, <2>3
<1>8. ASSUME NEW q \in Proc PROVE ForkFor(q, st', ofile')
  <2>2. CASE q = p \/ q = c
    BY <1>3, <2>2, UserIs DEF ForkFor
  <2>3. CASE q # p /\ q # c
    <3>1. ForkFor(q, st, ofile) /\ st'[q] = st[q]
      BY <1>3, <2>3 DEF FilesInv
    <3>2. st'[p].pc = "user" /\ st'[c].pc = "user"
      BY <1>3, UserIs
    <3> QED
      BY <1>1, <1>2, <1>3, <2>3, <3>1, <3>2, Zenon DEF ForkFor
  <2> QED
    BY <2>2, <2>3
<1>9. Separate(st')
  <2>1. \A x \in Proc : st'[x].pc \in Filling => st'[x] = st[x]
    BY <1>3, UserIs DEF Filling
  <2> QED
    BY <2>1 DEF FilesInv, Separate
<1> QED
  BY <1>1, <1>5, <1>6, <1>7, <1>8, <1>9, Zenon DEF FilesInv
-----------------------------------------------------------------------------
(* Two descriptors of process q are set.                                   *)
TwoNames(q, c, d, h, g) ==
  /\ ofile' \in [Proc -> [Fd -> File \cup {None}]]
  /\ \A r1 \in Proc : r1 # q => ofile'[r1] = ofile[r1]
  /\ ofile'[q][c] = h /\ ofile'[q][d] = g
  /\ \A a \in Fd : a # c /\ a # d => ofile'[q][a] = ofile[q][a]
  /\ \A f \in File : NamedGain(f) = Eq(h, f) + Eq(g, f)

(* What it does to the counts.                                             *)
LEMMA TwoNamesIs ==
  ASSUME FileConstants, FilesInv, NEW q \in Proc, NEW c \in Fd, NEW d \in Fd, c # d,
         NEW h \in File, NEW g \in File, ofile[q][c] = None, ofile[q][d] = None,
         ofile' = [ofile EXCEPT ![q][c] = h, ![q][d] = g]
  PROVE  TwoNames(q, c, d, h, g)
<1> DEFINE m == [ofile EXCEPT ![q][c] = h]
<1>1. ofile \in [Proc -> [Fd -> File \cup {None}]]
  BY DEF FilesInv, TypeOK
<1>2. /\ ofile' \in [Proc -> [Fd -> File \cup {None}]]
      /\ \A r1 \in Proc : r1 # q => ofile'[r1] = ofile[r1]
      /\ ofile'[q][c] = h /\ ofile'[q][d] = g
      /\ \A a \in Fd : a # c /\ a # d => ofile'[q][a] = ofile[q][a]
  BY <1>1
<1>3. /\ \A r1 \in Proc : r1 # q => m[r1] = ofile[r1]
      /\ m[q][c] = h /\ \A a \in Fd : a # c => m[q][a] = ofile[q][a]
  BY <1>1
<1> HIDE DEF m
<1>4. ASSUME NEW f \in File PROVE NamedGain(f) = Eq(h, f) + Eq(g, f)
  <2>1. NamedFacts(ofile, m, q, c, f)
    BY <1>3, NamedChange
  <2>2. NamedFacts(m, ofile', q, d, f)
    <3>1. \A x \in Proc : \A a \in Fd : ~(x = q /\ a = d) => ofile'[x][a] = m[x][a]
      BY <1>2, <1>3
    <3> QED
      BY <3>1, NamedChange, Zenon
  <2>3. /\ Cardinality(Named(m, f)) = Cardinality(Named(ofile, f)) + Eq(h, f) - Eq(ofile[q][c], f)
        /\ Cardinality(Named(ofile, f)) \in Nat
    BY <1>3, <2>1, Zenon DEF NamedFacts
  <2>4. Cardinality(Named(ofile', f)) = Cardinality(Named(m, f)) + Eq(g, f) - Eq(ofile[q][d], f)
    BY <1>2, <1>3, <2>2, Zenon DEF NamedFacts
  <2>5. /\ Eq(h, f) \in Int /\ Eq(g, f) \in Int
        /\ Eq(ofile[q][c], f) = 0 /\ Eq(ofile[q][d], f) = 0
    BY FileSets DEF Eq
  <2> QED
    BY <2>3, <2>4, <2>5 DEF NamedGain
<1> QED
  BY <1>2, <1>4 DEF TwoNames

(* pipe() has two descriptors, or closes both files.                       *)
LEMMA SysPipeKeeps ==
  ASSUME FileConstants, FilesInv, NEW p \in Proc, sys_pipe(p)
  PROVE  FilesInv'
<1> DEFINE h == st[p].f
           g == st[p].closing[1]
           free == {d \in Fd : ofile[p][d] = None}
           c == Min(free)
           d == Min(free \ {c})
<1>1. st[p].pc = "pipefd" /\ UNCHANGED <<file, iref, pipe>>
  BY DEF sys_pipe, At
<1>2. /\ Shape(st[p]) /\ DescsFor(st[p], ofile[p], file) /\ FreshFor(st[p], file)
      /\ st[p] \in Local /\ h \in File /\ st[p].ip = None /\ st[p].ff = None
  BY <1>1 DEF FilesInv, Shape
<1>3. g \in File /\ st[p].closing = <<g>>
  BY <1>1, <1>2, Tuples DEF Shape
<1>4. /\ \A f \in File : Own(st[p], f) = Eq(h, f) + Eq(g, f)
      /\ \A f \in File : Eq(h, f) \in Int /\ Eq(g, f) \in Int
  <2>1. \A f \in File : Own(st[p], f) = Eq(h, f) + Eq(g, f)
    BY <1>1, <1>3, OwnIs DEF OwnFacts
  <2> QED
    BY <2>1 DEF Eq
<1>5. CASE Cardinality(free) >= 2
  <2>0. IsFiniteSet(free) /\ Cardinality(free) \in Nat
    <3>1. IsFiniteSet(Fd)
      BY FileSets, FS_Interval
    <3>2. IsFiniteSet(free)
      BY <3>1, FS_Subset
    <3> QED
      BY <3>2, FS_CardinalityType
  <2>1. Become(p, User) /\ ofile' = [ofile EXCEPT ![p][c] = h, ![p][d] = g]
    <3>1. ~(Cardinality(free) < 2)
      <4> HIDE DEF free
      <4> QED
        BY <1>5, <2>0
    <3> QED
      BY <3>1 DEF sys_pipe
  <2>2. free # {} /\ \A a : free \ {a} # {}
    <3> HIDE DEF free
    <3>1. free # {}
      BY <1>5, FS_EmptySet
    <3>2. ASSUME NEW a, free \ {a} = {} PROVE FALSE
      <4>1. free = {a}
        BY <3>1, <3>2
      <4>2. Cardinality({a}) = 1
        BY FS_Singleton, Zenon
      <4> QED
        BY <1>5, <4>1, <4>2
    <3> QED
      BY <3>1, <3>2
  <2>3. c \in free /\ d \in free /\ d # c
    <3>1. free \subseteq Nat
      BY FileSets
    <3> HIDE DEF free
    <3>2. c \in free
      BY <2>2, <3>1, MinIn, Zenon
    <3>3. d \in free \ {c}
      BY <2>2, <3>1, MinIn, Zenon
    <3> QED
      BY <3>2, <3>3
  <2> HIDE DEF c, d, g, h
  <2>4. c \in Fd /\ d \in Fd /\ ofile[p][c] = None /\ ofile[p][d] = None
    BY <2>3
  <2>5. TwoNames(p, c, d, h, g)
    BY <1>2, <1>3, <2>1, <2>3, <2>4, TwoNamesIs, Zenon
  <2> DEFINE t == User
  <2>6. \A f \in File : Own(t, f) = 0
    BY UserIs, OwnIs DEF OwnFacts
  <2>7. Goes(p, t)
    <3>1. file[h].type = "FD_PIPE" /\ file[g].type = "FD_PIPE"
      BY <1>1, <1>2 DEF FreshFor, g, h
    <3>2. \A a \in Fd : ofile'[p][a] # None => file'[ofile'[p][a]].type # "FD_NONE"
      BY <1>1, <1>2, <2>5, <3>1 DEF TwoNames, DescsFor
    <3>3. DescsFor(t, ofile'[p], file')
      BY <3>2, UserIs DEF DescsFor
    <3>4. Shape(t)
      BY UserIs, FileSets DEF Shape
    <3> QED
      BY <3>3, <3>4, UserIs DEF Goes, FreshFor, Filling
  <2>8. TableTyped
    BY <1>1, <2>5 DEF FilesInv, TypeOK, TableTyped, TwoNames
  <2>9. FilesKept(p) /\ \A obj, W : FilesGain(obj, W) = 0
    BY <1>1, SameFiles
  <2>10. ASSUME NEW f \in File
         PROVE  file'[f].ref = file[f].ref + NamedGain(f) + (Own(t, f) - Own(st[p], f))
    <3>1. NamedGain(f) = Eq(h, f) + Eq(g, f)
      BY <2>5 DEF TwoNames
    <3>2. file[f].ref \in Int /\ file' = file
      BY <1>1 DEF FilesInv, Record, FileRecord
    <3>3. Own(t, f) = 0 /\ Own(st[p], f) = Eq(h, f) + Eq(g, f)
      BY <1>4, <2>6 DEF g, h
    <3>4. Eq(h, f) \in Int /\ Eq(g, f) \in Int
      BY DEF Eq
    <3> HIDE DEF t
    <3> QED
      BY <3>1, <3>2, <3>3, <3>4
  <2>11. RefExact'
    BY <2>1, <2>10, CountsStep
  <2>12. ObjectsExact'
    BY <1>1, <1>2, <2>1, <2>9, UserIs, SameObjects, ObjectsStep
  <2>13. \A q \in Proc \ {p} : ofile'[q] = ofile[q]
    BY <2>5 DEF TwoNames
  <2> QED
    BY <1>1, <2>1, <2>7, <2>8, <2>9, <2>11, <2>12, <2>13, StepKeeps, Zenon
<1>6. CASE ~(Cardinality(free) >= 2)
  <2> DEFINE u == [st[p] EXCEPT !.f = None]
             t == Closing(u, <<h, g>>, "user")
  <2>1. ofile' = ofile /\ Become(p, t)
    BY <1>6 DEF sys_pipe
  <2> HIDE DEF free
  <2>2. u \in Local /\ u.f = None /\ u.ff = None /\ u.ip = None
    <3> DEFINE C == UNION {[1 .. n -> File] : n \in 0 .. 2}
    <3>2. Local = LocalIn(C)
      BY DEF Local, LocalIn
    <3> HIDE DEF C
    <3> QED
      BY <1>2, <3>2 DEF LocalIn
  <2> HIDE DEF u, g, h
  <2>3. /\ t \in Local /\ t.pc = "close" /\ t.f = None /\ t.ip = None
        /\ t.closing = <<h, g>> /\ t.ff = None /\ t.after = "user"
    <3>1. ClosingFacts(u, <<h, g>>, "user")
      BY <1>2, <1>3, <2>2, ClosingGoes
    <3> QED
      BY <2>2, <3>1 DEF ClosingFacts
  <2> HIDE DEF t
  <2>4. Shape(t)
    BY <1>2, <1>3, <2>3, FileSets, ClosingShape
  <2>5. Goes(p, t)
    BY <1>1, <1>2, <2>1, <2>3, <2>4 DEF Goes, FreshFor, DescsFor, Filling
  <2>6. \A f \in File : Own(t, f) = Own(st[p], f)
    <3>1. \A f \in File : Own(t, f) = Eq(h, f) + Eq(g, f)
      BY <2>3, OwnIs DEF OwnFacts
    <3> QED
      BY <1>4, <3>1 DEF h, g
  <2> QED
    BY <1>1, <1>2, <2>1, <2>3, <2>5, <2>6, WalkKeeps
<1> QED
  BY <1>5, <1>6
-----------------------------------------------------------------------------
(* No file is open at first.                                               *)
LEMMA FilesInit == ASSUME FileConstants PROVE Init => FilesInv
<1> SUFFICES ASSUME Init PROVE FilesInv
  OBVIOUS
<1>1. /\ file = [f \in File |-> Closed]
      /\ ofile = [p \in Proc |-> [d \in Fd |-> None]]
      /\ iref = [i \in Inode |-> 0] /\ pipe = [q \in PipePage |-> {}]
      /\ st = [p \in Proc |-> IF p = initproc THEN User ELSE Nowhere]
  BY DEF Init
<1>2. \A p \in Proc : st[p] = User \/ st[p] = Nowhere
  BY <1>1
<1>3. /\ Closed \in FileRecord /\ Closed.ref = 0
      /\ Closed.type = "FD_NONE"
  BY DEF Closed, FileRecord
<1>4. Record(Closed)
  BY <1>3 DEF Record
<1>5. TypeOK
  <2>1. file \in [File -> FileRecord] /\ \A f \in File : file[f].ref >= 0
    BY <1>1, <1>3
  <2>2. ofile \in [Proc -> [Fd -> File \cup {None}]]
    BY <1>1
  <2>3. st \in [Proc -> Local]
    BY <1>1, UserIs
  <2> QED
    BY <1>1, <2>1, <2>2, <2>3 DEF TypeOK
<1>6. ASSUME NEW p \in Proc
      PROVE  /\ Shape(st[p]) /\ FreshFor(st[p], file) /\ DescsFor(st[p], ofile[p], file)
             /\ ForkFor(p, st, ofile)
  <2>1. Shape(User) /\ Shape(Nowhere)
    BY UserIs, FileSets DEF Shape
  <2>2. st[p].pc \in {"user", "none"} /\ \A d \in Fd : ofile[p][d] = None
    BY <1>1, <1>2, UserIs
  <2> QED
    BY <1>2, <2>1, <2>2 DEF FreshFor, DescsFor, ForkFor, Filling
<1>7. \A f \in File : Record(file[f])
  BY <1>1, <1>4
<1>8. Separate(st)
  BY <1>2, UserIs DEF Separate, Filling
<1>9. \A f \in File : file[f].ref = 0 /\ file[f].type = "FD_NONE"
  BY <1>1, <1>3
<1>10. RefExact
  <2>1. ASSUME NEW f \in File PROVE file[f].ref = References(f)
    <3>1. References(f) = Cardinality(Named(ofile, f)) + Calls(st, f)
      BY RefsAre
    <3>2. Named(ofile, f) = {}
      BY <1>1, FileSets DEF Named
    <3>3. Allocated(st, f) = {} /\ Dupping(st, f) = {}
      BY <1>2, UserIs DEF Allocated, Dupping
    <3>4. Listed(st, f) = {}
      <4>1. ASSUME NEW x \in Proc \X (1 .. 2), x[2] \in DOMAIN st[x[1]].closing PROVE FALSE
        <5>1. st[x[1]].closing = << >>
          BY <1>2, UserIs
        <5> QED
          BY <4>1, <5>1
      <4> QED
        BY <4>1 DEF Listed
    <3> QED
      BY <1>9, <3>1, <3>2, <3>3, <3>4, FS_EmptySet DEF Calls
  <2> QED
    BY <2>1 DEF RefExact
<1>11. ObjectsExact
  <2>1. ASSUME NEW obj, NEW W PROVE Holders(obj, W) = 0
    <3>1. ByFiles(file, obj, W) = {} /\ ByCalls(st, obj, W) = {}
      BY <1>2, <1>9, UserIs DEF ByFiles, ByCalls, FileHolds, CallHolds
    <3> QED
      BY <3>1, HoldersAre, FS_EmptySet
  <2>2. ASSUME NEW i \in Inode
        PROVE  iref[i] = Holders(i, BOOLEAN) + Cardinality(ByOpens(st, i))
    <3>1. ByOpens(st, i) = {}
      BY <1>2, UserIs, FileSets DEF ByOpens
    <3>2. iref[i] = 0 /\ Cardinality(ByOpens(st, i)) = 0
      BY <1>1, <3>1, FS_EmptySet
    <3> QED
      BY <2>1, <3>2
  <2>3. ASSUME NEW q \in PipePage, NEW wr \in BOOLEAN
        PROVE  Holders(q, {wr}) = IF End(wr) \in pipe[q] THEN 1 ELSE 0
    BY <1>1, <2>1
  <2> QED
    BY <2>2, <2>3, Zenon DEF ObjectsExact, ByOpens
<1> QED
  BY <1>5, <1>6, <1>7, <1>8, <1>10, <1>11 DEF FilesInv

(* Every step keeps the invariant.                                         *)
LEMMA FilesNext == ASSUME FileConstants PROVE FilesInv /\ [Next]_(vars) => FilesInv'
<1> SUFFICES ASSUME FilesInv, [Next]_(vars) PROVE FilesInv'
  OBVIOUS
<1>1. ASSUME NEW p \in Proc,
             \/ \E i \in Inode : sys_open(p, i)
             \/ openAlloc(p) \/ openFd(p) \/ openFail(p) \/ openFill(p)
      PROVE  FilesInv'
  BY <1>1, SysOpenKeeps, OpenAllocKeeps, OpenFdKeeps, OpenFailKeeps, OpenFillKeeps
<1>2. ASSUME NEW p \in Proc,
             \/ pipealloc0(p) \/ pipeallocFails(p) \/ pipealloc1(p)
             \/ sys_pipe(p)
      PROVE  FilesInv'
  BY <1>2, PipeAlloc0Keeps, PipeAllocFailsKeeps, PipeAlloc1Keeps, SysPipeKeeps
<1>3. ASSUME NEW p \in Proc, NEW d \in Fd,
             sys_dup(p, d) \/ sys_close(p, d) \/ fileread(p, d)
      PROVE  FilesInv'
  BY <1>3, SysDupKeeps, SysCloseKeeps, FileReadKeeps
<1>4. ASSUME NEW p \in Proc,
             \/ dupRef(p) \/ filereadDone(p)
             \/ fileclose(p) \/ filecloseObject(p) \/ filecloseDone(p)
      PROVE  FilesInv'
  BY <1>4, DupRefKeeps, FileReadDoneKeeps, FileCloseKeeps, CloseObjectKeeps, FileCloseDoneKeeps
<1>5. ASSUME NEW p \in Proc,
             \/ \E c \in Proc \ {p} : fork(p, c)
             \/ forkFile(p) \/ forkDone(p)
             \/ exit(p) \/ exitFile(p) \/ exitDone(p)
      PROVE  FilesInv'
  BY <1>5, ForkKeeps, ForkFileKeeps, ForkDoneKeeps, ExitKeeps, ExitFileKeeps, ExitDoneKeeps
<1>6. CASE UNCHANGED vars
  <2>1. /\ ofile' = ofile /\ file' = file /\ st' = st
        /\ iref' = iref /\ pipe' = pipe
    BY <1>6 DEF vars
  <2>2. TypeOK' /\ Separate(st')
    BY <2>1 DEF FilesInv, TypeOK, Separate
  <2>3. \A p \in Proc : ForkFor(p, st', ofile')
    BY <2>1 DEF FilesInv, ForkFor
  <2>4. RefExact' /\ ObjectsExact'
    BY <2>1 DEF FilesInv, RefExact, References, ObjectsExact, Holders, At
  <2>5. /\ \A p \in Proc : /\ Shape(st'[p]) /\ FreshFor(st'[p], file')
                            /\ DescsFor(st'[p], ofile'[p], file')
        /\ \A f \in File : Record(file'[f])
    BY <2>1 DEF FilesInv
  <2> QED
    BY <2>2, <2>3, <2>4, <2>5 DEF FilesInv
<1> QED
  BY <1>1, <1>2, <1>3, <1>4, <1>5, <1>6 DEF Next

(* The counts of files, inodes and pipe ends are exact, and nothing in use *)
(* is closed.                                                              *)
LEMMA FilesLive == ASSUME FileConstants PROVE FilesInv => UseLive
<1> SUFFICES ASSUME FilesInv, NEW p \in Proc
             PROVE  /\ ~At(p, "panic")
                    /\ At(p, "use") =>
                         /\ file[st[p].f].ref > 0
                         /\ \/ file[st[p].f].type = "FD_INODE" /\ iref[file[st[p].f].obj] > 0
                            \/ /\ file[st[p].f].type = "FD_PIPE"
                               /\ End(file[st[p].f].writable) \in pipe[file[st[p].f].obj]
  BY Zenon DEF UseLive
<1>1. Shape(st[p]) /\ DescsFor(st[p], ofile[p], file)
  BY DEF FilesInv
<1>2. ~At(p, "panic")
  BY <1>1 DEF Shape, At
<1>3. SUFFICES ASSUME st[p].pc = "use"
               PROVE  /\ file[st[p].f].ref > 0
                      /\ \/ file[st[p].f].type = "FD_INODE" /\ iref[file[st[p].f].obj] > 0
                         \/ /\ file[st[p].f].type = "FD_PIPE"
                            /\ End(file[st[p].f].writable) \in pipe[file[st[p].f].obj]
  BY <1>2, Zenon DEF At
<1> DEFINE g == st[p].f
<1>4. g \in File /\ \E d \in Fd : ofile[p][d] = g
  BY <1>1, <1>3 DEF Shape, DescsFor
<1>5. Record(file[g]) /\ file[g] \in FileRecord
  BY <1>4 DEF FilesInv, Record
<1>6. file[g].type # "FD_NONE"
  BY <1>1, <1>3, <1>4, FileSets DEF DescsFor
<1> HIDE DEF g
<1>7. file[g].ref >= 1 /\ file[g].ref \in Int
  BY <1>4, FileAlive
<1>8. CASE file[g].type = "FD_INODE"
  <2>1. file[g].obj \in Inode /\ FileHolds(file[g], file[g].obj, BOOLEAN)
    BY <1>5, <1>7, <1>8 DEF Record, FileHolds, FileRecord
  <2>2. iref[file[g].obj] >= 1 /\ iref[file[g].obj] \in Nat
    BY <1>4, <2>1, InodeHeld
  <2> QED
    BY <1>7, <1>8, <2>2 DEF g
<1>9. CASE file[g].type = "FD_PIPE"
  <2> DEFINE wr == file[g].writable
  <2>1. file[g].obj \in PipePage /\ wr \in BOOLEAN
    BY <1>5, <1>9 DEF Record, FileRecord
  <2>2. FileHolds(file[g], file[g].obj, {wr})
    BY <1>7, <1>9 DEF FileHolds
  <2>3. End(wr) \in pipe[file[g].obj]
    BY <1>4, <2>1, <2>2, EndHeld, Zenon
  <2> QED
    BY <1>7, <1>9, <2>3 DEF g
<1> QED
  BY <1>5, <1>6, <1>8, <1>9 DEF FileRecord, g

(* The invariant of the table of open files.                               *)
LEMMA FilesStay == ASSUME FileConstants PROVE Spec => []FilesInv
  BY FilesInit, FilesNext, PTL DEF Spec

(* Each count of file.c is the number of references there are, for every   *)
(* interleaving of open(), pipe(), dup(), close(), fork() and exit() and   *)
(* on every error path; inodes are put and pipe ends closed exactly once.  *)
THEOREM FileCountsExact == ASSUME FileConstants PROVE Spec => [](RefExact /\ ObjectsExact)
<1>1. FilesInv => RefExact /\ ObjectsExact
  BY DEF FilesInv
<1> QED
  BY <1>1, FilesStay, PTL

(* A process in read() or write() has a file that stays open under it, and *)
(* file.c never panics.                                                    *)
THEOREM FilesInUseLive == ASSUME FileConstants PROVE Spec => []UseLive
  BY FilesLive, FilesStay, PTL
=============================================================================
