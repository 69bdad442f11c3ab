------------------------------ MODULE FileTable ------------------------------
(***************************************************************************)
(* The table of open files (file.c), the descriptors of the processes      *)
(* (sysfile.c), and what fork() and exit() do to them (proc.c).            *)
(*                                                                         *)
(* A section under ftable.lock is one step; the fields of a struct file    *)
(* other than ref are filled in without the lock, in steps of their own.   *)
(* Of an inode the model keeps the number of references (module Inode),    *)
(* of a pipe the ends that are open (module Pipe); a pipe without open     *)
(* ends is a free page, which the next pipealloc() may get.                *)
(***************************************************************************)
EXTENDS Integers, Sequences, FiniteSets, FiniteSetsExt

CONSTANTS Proc, initproc, Inode, PipePage, None,
          NFILE,       \* files of the table
          NOFILE       \* descriptors of a process

File == 1 .. NFILE

Fd == 0 .. NOFILE - 1

(* What the constants are: a null pointer is none of the things it could   *)
(* point to.                                                               *)
FileConstants ==
  /\ IsFiniteSet(Proc) /\ initproc \in Proc /\ NFILE \in Nat /\ NOFILE \in Nat
  /\ None \notin Inode \cup PipePage \cup File \cup Fd
  /\ Inode \cap PipePage = {}

VARIABLES file,      \* ftable.file
          ofile,     \* proc->ofile
          iref,      \* references that open files have to an inode
          pipe,      \* ends of a pipe that are open
          st         \* where a process is, and its local variables

vars == <<file, ofile, iref, pipe, st>>

(* writable matters for pipes: it names the end that pipeclose() closes.   *)
FileRecord == [ref : Int, type : {"FD_NONE", "FD_PIPE", "FD_INODE"},
               obj : Inode \cup PipePage \cup {None}, writable : BOOLEAN]

Location == {"none", "user", "open", "openfd", "openfill", "openfail", "pipe", "pipefd", "dup",
             "use", "fork", "child", "exit", "close", "closed", "panic"}

(* ip and f are the arguments of open(), pipe(), dup() and read(); closing *)
(* are the files that fileclose() is called with, ff its copy.             *)
Local == [pc : Location, ip : Inode \cup {None}, f : File \cup {None}, ff : FileRecord \cup {None},
          closing : UNION {[1 .. n -> File] : n \in 0 .. 2}, after : Location,
          child : Proc \cup {None}, i : 0 .. NOFILE]

TypeOK ==
  /\ file \in [File -> FileRecord] /\ \A f \in File : file[f].ref >= 0
  /\ ofile \in [Proc -> [Fd -> File \cup {None}]]
  /\ iref \in [Inode -> Nat]
  /\ pipe \in [PipePage -> SUBSET {"read", "write"}]
  /\ st \in [Proc -> Local]

Nowhere == [pc |-> "none", ip |-> None, f |-> None, ff |-> None, closing |-> <<>>,
            after |-> "user", child |-> None, i |-> 0]

User == [Nowhere EXCEPT !.pc = "user"]

(* A file nobody has.  fileclose() resets the type alone, and without a    *)
(* type no other field is read: they are kept at these values.             *)
Closed == [ref |-> 0, type |-> "FD_NONE", obj |-> None, writable |-> FALSE]

(* The first process, and no open files.                                   *)
Init ==
  /\ file = [f \in File |-> Closed]
  /\ ofile = [p \in Proc |-> [d \in Fd |-> None]]
  /\ iref = [i \in Inode |-> 0]
  /\ pipe = [q \in PipePage |-> {}]
  /\ st = [p \in Proc |-> IF p = initproc THEN User ELSE Nowhere]
-----------------------------------------------------------------------------
At(p, loc) == st[p].pc = loc

Become(p, t) == st' = [st EXCEPT ![p] = t]

(* The file that filealloc() returns, or None.                             *)
FreeFile == LET free == {f \in File : file[f].ref = 0} IN IF free = {} THEN None ELSE Min(free)

filealloc(f) == [file EXCEPT ![f].ref = 1]

(* The descriptor that fdalloc() returns, or None.                         *)
FreeFd(p) == LET free == {d \in Fd : ofile[p][d] = None} IN IF free = {} THEN None ELSE Min(free)

(* p calls fileclose() for the files fs and then goes on at after.         *)
Closing(t, fs, after) == [t EXCEPT !.pc = "close", !.closing = fs, !.after = after]

(* fileclose(), under ftable.lock: the last reference takes the copy ff,   *)
(* and the slot is free from here on.                                      *)
fileclose(p) ==
  LET t == st[p]
      f == Head(t.closing)
      last == file[f].ref = 1
  IN /\ At(p, "close") /\ t.closing # <<>>
     /\ IF file[f].ref < 1
        THEN Become(p, [t EXCEPT !.pc = "panic"]) /\ UNCHANGED file
        ELSE /\ file' = IF last THEN [file EXCEPT ![f] = Closed] ELSE [file EXCEPT ![f].ref = @ - 1]
             /\ Become(p, IF last THEN [t EXCEPT !.pc = "closed", !.ff = file[f]]
                                  ELSE [t EXCEPT !.closing = Tail(@)])
     /\ UNCHANGED <<ofile, iref, pipe>>

End(writable) == IF writable THEN "write" ELSE "read"

(* The rest of fileclose(), without the lock: pipeclose() or iput().       *)
filecloseObject(p) ==
  LET t == st[p]
      ff == t.ff
  IN /\ At(p, "closed")
     /\ iref' = IF ff.type = "FD_INODE" THEN [iref EXCEPT ![ff.obj] = @ - 1] ELSE iref
     /\ pipe' = IF ff.type = "FD_PIPE" THEN [pipe EXCEPT ![ff.obj] = @ \ {End(ff.writable)}] ELSE pipe
     /\ Become(p, [t EXCEPT !.pc = "close", !.closing = Tail(@), !.ff = None])
     /\ UNCHANGED <<file, ofile>>

(* fileclose() returns to its caller.                                      *)
filecloseDone(p) ==
  /\ At(p, "close") /\ st[p].closing = <<>>
  /\ Become(p, IF st[p].after = "user" THEN User ELSE [st[p] EXCEPT !.pc = st[p].after])
  /\ UNCHANGED <<file, ofile, iref, pipe>>
-----------------------------------------------------------------------------
(* sys_open(): namei() or create() gives a reference to the inode i.       *)
sys_open(p, i) ==
  /\ At(p, "user")
  /\ iref' = [iref EXCEPT ![i] = @ + 1]
  /\ Become(p, [User EXCEPT !.pc = "open", !.ip = i])
  /\ UNCHANGED <<file, ofile, pipe>>

openAlloc(p) ==
  LET f == FreeFile
  IN /\ At(p, "open")
     /\ file' = IF f = None THEN file ELSE filealloc(f)
     /\ Become(p, [st[p] EXCEPT !.pc = IF f = None THEN "openfail" ELSE "openfd", !.f = f])
     /\ UNCHANGED <<ofile, iref, pipe>>

openFd(p) ==
  LET t == st[p]
      d == FreeFd(p)
  IN /\ At(p, "openfd")
     /\ ofile' = IF d = None THEN ofile ELSE [ofile EXCEPT ![p][d] = t.f]
     /\ Become(p, IF d = None THEN Closing([t EXCEPT !.f = None], <<t.f>>, "openfail")
                              ELSE [t EXCEPT !.pc = "openfill"])
     /\ UNCHANGED <<file, iref, pipe>>

(* No file or no descriptor: iunlockput(ip).                               *)
openFail(p) ==
  /\ At(p, "openfail")
  /\ iref' = [iref EXCEPT ![st[p].ip] = @ - 1]
  /\ Become(p, User)
  /\ UNCHANGED <<file, ofile, pipe>>

(* The file gets its type and its inode after it has its descriptor.       *)
openFill(p) ==
  /\ At(p, "openfill")
  /\ file' = [file EXCEPT ![st[p].f].type = "FD_INODE", ![st[p].f].obj = st[p].ip]
  /\ Become(p, User)
  /\ UNCHANGED <<ofile, iref, pipe>>

(* pipealloc(): the file of the read end ...                               *)
pipealloc0(p) ==
  LET f == FreeFile
  IN /\ At(p, "user") /\ f # None
     /\ file' = filealloc(f)
     /\ Become(p, [User EXCEPT !.pc = "pipe", !.f = f])
     /\ UNCHANGED <<ofile, iref, pipe>>

(* ... fails for want of a second file or of a page ...                    *)
pipeallocFails(p) ==
  LET g == FreeFile
  IN /\ At(p, "pipe")
     /\ g = None \/ \A q \in PipePage : pipe[q] # {}
     /\ file' = IF g = None THEN file ELSE filealloc(g)
     /\ Become(p, Closing([st[p] EXCEPT !.f = None],
                          IF g = None THEN <<st[p].f>> ELSE <<st[p].f, g>>, "user"))
     /\ UNCHANGED <<ofile, iref, pipe>>

(* ... or has the file of the write end, closing[1], and a page.           *)
pipealloc1(p) ==
  LET t == st[p]
      g == FreeFile
  IN /\ At(p, "pipe") /\ g # None
     /\ \E q \in PipePage :
          /\ pipe[q] = {}
          /\ pipe' = [pipe EXCEPT ![q] = {"read", "write"}]
          /\ file' = [filealloc(g) EXCEPT
                        ![t.f].type = "FD_PIPE", ![t.f].obj = q, ![t.f].writable = FALSE,
                        ![g].type = "FD_PIPE", ![g].obj = q, ![g].writable = TRUE]
     /\ Become(p, [t EXCEPT !.pc = "pipefd", !.closing = <<g>>])
     /\ UNCHANGED <<ofile, iref>>

(* Faulty: a pipe with one descriptor too few keeps the first one.         *)
sys_pipeKeeps(p) ==
  LET t == st[p]
      g == t.closing[1]
      free == {d \in Fd : ofile[p][d] = None}
      fd0 == Min(free)
      fd1 == Min(free \ {fd0})
  IN /\ At(p, "pipefd")
     /\ \/ /\ Cardinality(free) >= 2
           /\ ofile' = [ofile EXCEPT ![p][fd0] = t.f, ![p][fd1] = g]
           /\ Become(p, User)
        \/ /\ Cardinality(free) < 2
           /\ ofile' = IF free = {} THEN ofile ELSE [ofile EXCEPT ![p][fd0] = t.f]
           /\ Become(p, Closing([t EXCEPT !.f = None], <<t.f, g>>, "user"))
     /\ UNCHANGED <<file, iref, pipe>>

(* sys_pipe(): two descriptors or none.                                    *)
sys_pipe(p) ==
  LET t == st[p]
      g == t.closing[1]
      free == {d \in Fd : ofile[p][d] = None}
      fd0 == Min(free)
      fd1 == Min(free \ {fd0})
  IN /\ At(p, "pipefd")
     /\ \/ /\ Cardinality(free) >= 2
           /\ ofile' = [ofile EXCEPT ![p][fd0] = t.f, ![p][fd1] = g]
           /\ Become(p, User)
        \/ /\ Cardinality(free) < 2
           /\ Become(p, Closing([t EXCEPT !.f = None], <<t.f, g>>, "user"))
           /\ UNCHANGED ofile
     /\ UNCHANGED <<file, iref, pipe>>
-----------------------------------------------------------------------------
(* sys_dup(): the descriptor first, and then filedup().                    *)
sys_dup(p, d) ==
  /\ At(p, "user") /\ ofile[p][d] # None /\ FreeFd(p) # None
  /\ ofile' = [ofile EXCEPT ![p][FreeFd(p)] = ofile[p][d]]
  /\ Become(p, [User EXCEPT !.pc = "dup", !.f = ofile[p][d]])
  /\ UNCHANGED <<file, iref, pipe>>

filedup(f) == [file EXCEPT ![f].ref = @ + 1]

(* Faulty: a file with one reference counts as closed.                     *)
dupRefPanics(p) ==
  LET f == st[p].f
  IN /\ At(p, "dup")
     /\ IF file[f].ref <= 1
        THEN Become(p, [User EXCEPT !.pc = "panic"]) /\ UNCHANGED file
        ELSE file' = filedup(f) /\ Become(p, User)
     /\ UNCHANGED <<ofile, iref, pipe>>

dupRef(p) ==
  LET f == st[p].f
  IN /\ At(p, "dup")
     /\ IF file[f].ref < 1
        THEN Become(p, [User EXCEPT !.pc = "panic"]) /\ UNCHANGED file
        ELSE file' = filedup(f) /\ Become(p, User)
     /\ UNCHANGED <<ofile, iref, pipe>>

sys_close(p, d) ==
  /\ At(p, "user") /\ ofile[p][d] # None
  /\ ofile' = [ofile EXCEPT ![p][d] = None]
  /\ Become(p, Closing(User, <<ofile[p][d]>>, "user"))
  /\ UNCHANGED <<file, iref, pipe>>

(* read(), write() or fstat() of a descriptor, which may take long; the    *)
(* file must have a type.                                                  *)
fileread(p, d) ==
  /\ At(p, "user") /\ ofile[p][d] # None
  /\ Become(p, [User EXCEPT !.pc = IF file[ofile[p][d]].type = "FD_NONE" THEN "panic" ELSE "use",
                            !.f = ofile[p][d]])
  /\ UNCHANGED <<file, ofile, iref, pipe>>

filereadDone(p) ==
  /\ At(p, "use")
  /\ Become(p, User)
  /\ UNCHANGED <<file, ofile, iref, pipe>>

(* fork(): the child c gets every file of p, one filedup() at a time ...   *)
fork(p, c) ==
  /\ At(p, "user") /\ At(c, "none")
  /\ st' = [st EXCEPT ![p] = [User EXCEPT !.pc = "fork", !.child = c], ![c].pc = "child"]
  /\ UNCHANGED <<file, ofile, iref, pipe>>

forkFile(p) ==
  LET t == st[p]
      f == ofile[p][t.i]
  IN /\ At(p, "fork") /\ t.i < NOFILE
     /\ IF f = None
        THEN Become(p, [t EXCEPT !.i = @ + 1]) /\ UNCHANGED <<file, ofile>>
        ELSE IF file[f].ref < 1
        THEN Become(p, [t EXCEPT !.pc = "panic"]) /\ UNCHANGED <<file, ofile>>
        ELSE /\ file' = filedup(f)
             /\ ofile' = [ofile EXCEPT ![t.child][t.i] = f]
             /\ Become(p, [t EXCEPT !.i = @ + 1])
     /\ UNCHANGED <<iref, pipe>>

(* ... and then runs.                                                      *)
forkDone(p) ==
  /\ At(p, "fork") /\ st[p].i = NOFILE
  /\ st' = [st EXCEPT ![p] = User, ![st[p].child] = User]
  /\ UNCHANGED <<file, ofile, iref, pipe>>

(* exit(): closes descriptor i and then clears it, for each i; initproc    *)
(* does not exit.                                                          *)
exit(p) ==
  /\ At(p, "user") /\ p # initproc
  /\ Become(p, [User EXCEPT !.pc = "exit"])
  /\ UNCHANGED <<file, ofile, iref, pipe>>

(* exit() closes the file and then clears the descriptor, which nobody but *)
(* p can see: here it is cleared first, as close() does.                   *)
exitFile(p) ==
  LET t == st[p]
      f == ofile[p][t.i]
  IN /\ At(p, "exit") /\ t.i < NOFILE
     /\ ofile' = [ofile EXCEPT ![p][t.i] = None]
     /\ Become(p, [IF f = None THEN t ELSE Closing(t, <<f>>, "exit") EXCEPT !.i = @ + 1])
     /\ UNCHANGED <<file, iref, pipe>>

exitDone(p) ==
  /\ At(p, "exit") /\ st[p].i = NOFILE
  /\ Become(p, Nowhere)
  /\ UNCHANGED <<file, ofile, iref, pipe>>

Next ==
  \E p \in Proc :
    \/ \E i \in Inode : sys_open(p, i)
    \/ openAlloc(p) \/ openFd(p) \/ openFail(p) \/ openFill(p)
    \/ pipealloc0(p) \/ pipeallocFails(p) \/ pipealloc1(p) \/ sys_pipe(p)
    \/ \E d \in Fd : sys_dup(p, d) \/ sys_close(p, d) \/ fileread(p, d)
    \/ dupRef(p) \/ filereadDone(p)
    \/ fileclose(p) \/ filecloseObject(p) \/ filecloseDone(p)
    \/ \E c \in Proc \ {p} : fork(p, c)
    \/ forkFile(p) \/ forkDone(p)
    \/ exit(p) \/ exitFile(p) \/ exitDone(p)

Spec == Init /\ [][Next]_vars
-----------------------------------------------------------------------------
(* The references to file f: descriptors, and files that a system call has *)
(* allocated or is about to close; a dup() under way has not counted yet.  *)
References(f) ==
  Cardinality({x \in Proc \X Fd : ofile[x[1]][x[2]] = f})
  + Cardinality({p \in Proc : st[p].f = f /\ st[p].pc \in {"openfd", "pipe", "pipefd"}})
  + Cardinality({x \in Proc \X (1 .. 2) :
                   /\ x[2] \in DOMAIN st[x[1]].closing /\ st[x[1]].closing[x[2]] = f
                   /\ ~(At(x[1], "closed") /\ x[2] = 1)})
  - Cardinality({p \in Proc : st[p].f = f /\ At(p, "dup")})

(* f->ref is the number of references to the file, whatever processes that *)
(* share it do at the same time and on every error path.                   *)
RefExact == \A f \in File : file[f].ref = References(f)

(* What open files and closing calls hold of obj, and end of it if it is a *)
(* pipe.                                                                   *)
Holders(obj, writable) ==
  Cardinality({f \in File : file[f].ref > 0 /\ file[f].type # "FD_NONE" /\ file[f].obj = obj
                              /\ file[f].writable \in writable})
  + Cardinality({p \in Proc : At(p, "closed") /\ st[p].ff.type # "FD_NONE" /\ st[p].ff.obj = obj
                              /\ st[p].ff.writable \in writable})

(* An inode is put once for each time it was opened, and each end of a     *)
(* pipe is closed once, by its last file.                                  *)
ObjectsExact ==
  /\ \A i \in Inode : iref[i] = Holders(i, BOOLEAN) + Cardinality({p \in Proc : st[p].ip = i})
  /\ \A q \in PipePage : \A w \in BOOLEAN :
       Holders(q, {w}) = IF End(w) \in pipe[q] THEN 1 ELSE 0

(* A read() or write() works on an open file with a live object although  *)
(* it holds no reference of its own, and filedup(), fileclose() and        *)
(* fileread() find no file closed or without a type, where they panic.     *)
UseLive ==
  \A p \in Proc :
    /\ ~At(p, "panic")
    /\ At(p, "use") =>
         LET f == file[st[p].f]
         IN f.ref > 0 /\ \/ f.type = "FD_INODE" /\ iref[f.obj] > 0
                         \/ f.type = "FD_PIPE" /\ End(f.writable) \in pipe[f.obj]
=============================================================================
