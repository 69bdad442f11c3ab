-------------------------------- MODULE Inode --------------------------------
(***************************************************************************)
(* The inode cache and inode allocation (fs.c), path lookup (namex), and   *)
(* the system calls that change the tree of names (sysfile.c).             *)
(*                                                                         *)
(* A section under icache.lock, and the access to the block of an inode    *)
(* under its buffer lock (module Bio), is one step.  ip->lock is held      *)
(* across steps, as in the code: what a process does to the inodes it has  *)
(* locked, up to the next lock it needs or gives up, is one step.  The     *)
(* content of a directory is its map from names to inode numbers; the      *)
(* content of a file is left out.  Every call runs inside a transaction,   *)
(* so that crashes are the concern of module Log.                          *)
(***************************************************************************)
EXTENDS Integers, Sequences, FiniteSets, FiniteSetsExt

CONSTANTS Proc, Name, None,
          Request,     \* the calls that each process may make: bound
          NINODES,     \* sb.ninodes: inode numbers are 1 .. NINODES
          NINODE       \* entries of the inode cache

ROOTINO == 1

Inum == 1 .. NINODES

Slot == 1 .. NINODE

Entry == Name \cup {".", ".."}

ASSUME InodeConstants ==
  /\ NINODES \in Nat \ {0} /\ NINODE \in Nat \ {0}
  /\ Name \cap {".", ".."} = {} /\ None \notin Proc \cup Slot

VARIABLES dinode,   \* inodes on the disk
          ents,     \* content of the directories
          icache,
          cwd, fd,  \* proc->cwd, and the one open file a process may have
          st        \* where a process is, and its local variables

vars == <<dinode, ents, icache, cwd, fd, st>>

Dinode == [type : {"free", "dir", "file", "dev"}, nlink : Nat]

CacheEntry == [inum : Inum \cup {0}, ref : Nat, valid : BOOLEAN, type : {"free", "dir", "file", "dev"},
               nlink : Nat, owner : Proc \cup {None}]

Location == {"user", "namex", "look", "node", "have", "parent", "dir", "new", "made", "victim",
             "erase", "unlinked", "bad", "exists", "undo", "linked",
             "iput", "itest", "ifree", "irelease", "idrop", "panic"}

TypeOK ==
  /\ dinode \in [Inum -> Dinode]
  /\ ents \in [Inum -> [Entry -> Inum \cup {0}]]
  /\ icache \in [Slot -> CacheEntry]
  /\ cwd \in [Proc -> Slot] /\ fd \in [Proc -> Slot \cup {None}]
  /\ \A p \in Proc :
       /\ st[p].pc \in Location /\ st[p].after \in Location
       /\ {st[p].at, st[p].ip, st[p].dp, st[p].put} \subseteq Slot \cup {None}

Empty == [n \in Entry |-> 0]

(* An entry of the cache that was never used.  One that iput() has let go  *)
(* keeps its other fields: iget() looks at ref alone.                      *)
Unused == [inum |-> 0, ref |-> 0, valid |-> FALSE, type |-> "free", nlink |-> 0, owner |-> None]

(* A process in user mode.                                                 *)
User == [pc |-> "user", req |-> None, elems |-> <<>>, name |-> ".",
         at |-> None, ip |-> None, dp |-> None, put |-> None, after |-> "user"]

(* The disk as mkfs leaves it, and every process in the root directory.    *)
Init ==
  /\ dinode = [i \in Inum |-> IF i = ROOTINO THEN [type |-> "dir", nlink |-> 1]
                                             ELSE [type |-> "free", nlink |-> 0]]
  /\ ents = [i \in Inum |-> IF i = ROOTINO THEN [Empty EXCEPT !["."] = i, ![".."] = i] ELSE Empty]
  /\ icache = [s \in Slot |-> IF s = 1 THEN [Unused EXCEPT !.inum = ROOTINO, !.ref = Cardinality(Proc)]
                                  ELSE Unused]
  /\ cwd = [p \in Proc |-> 1] /\ fd = [p \in Proc |-> None]
  /\ st = [p \in Proc |-> User]
-----------------------------------------------------------------------------
(* The operations on the cache, as functions of the cache.                 *)

Locked(ic, s, p) == [ic EXCEPT ![s].owner = p]

iunlock(ic, s) == [ic EXCEPT ![s].owner = None]

(* Faulty: the new reference is not counted.                               *)
idupUncounted(ic, s) == ic

idup(ic, s) == [ic EXCEPT ![s].ref = @ + 1]

(* The entry iget() returns for inode i: the one that has it, or else the  *)
(* first unused one, or None where it panics.                              *)
igetSlot(ic, i) ==
  LET cached == {s \in Slot : ic[s].ref > 0 /\ ic[s].inum = i}
      unused == {s \in Slot : ic[s].ref = 0}
  IN IF cached # {} THEN Min(cached) ELSE IF unused # {} THEN Min(unused) ELSE None

(* Faulty: the entry stays valid for the inode it had before.              *)
igetStale(ic, i, s) ==
  IF ic[s].ref > 0 THEN idup(ic, s) ELSE [ic EXCEPT ![s].inum = i, ![s].ref = 1]

iget(ic, i, s) ==
  IF ic[s].ref > 0 THEN idup(ic, s)
  ELSE [ic EXCEPT ![s].inum = i, ![s].ref = 1, ![s].valid = FALSE]

(* ilock() and acquiresleep(): p waits until s has no owner; ilock() then  *)
(* reads an inode that is not valid, and panics if it is free.             *)
ilock(s, p) ==
  LET d == dinode[icache[s].inum]
      ic == Locked(icache, s, p)
  IN IF icache[s].valid THEN ic
     ELSE [ic EXCEPT ![s].valid = TRUE, ![s].type = d.type, ![s].nlink = d.nlink]

NoType(s) == ~icache[s].valid /\ dinode[icache[s].inum].type = "free"

(* iupdate(): the inode in entry s of the cache, on the disk.              *)
iupdate(ic, s) ==
  [dinode EXCEPT ![ic[s].inum] = [type |-> ic[s].type, nlink |-> ic[s].nlink]]

(* t is about to call iput(s), and goes on at location after.              *)
Iput(t, s, after) == [t EXCEPT !.pc = "iput", !.put = s, !.after = after]

(* p goes on with the local variables t.                                   *)
Become(p, t) == st' = [st EXCEPT ![p] = t]

(* p is at loc, and no panic() has stopped the machine.                    *)
At(p, loc) == st[p].pc = loc /\ \A q \in Proc : st[q].pc # "panic"

(* p takes the lock of entry s and goes on at to.                          *)
Lock(p, s, to) ==
  /\ icache[s].owner = None
  /\ icache' = ilock(s, p)
  /\ st' = [st EXCEPT ![p].pc = IF NoType(s) THEN "panic" ELSE to]
  /\ UNCHANGED <<dinode, ents, cwd, fd>>
-----------------------------------------------------------------------------
(* iput(): takes ip->lock and looks for the last link ...                  *)
iput(p) ==
  LET s == st[p].put
      unlinked == icache[s].valid /\ icache[s].nlink = 0
  IN /\ At(p, "iput") /\ icache[s].owner = None
     /\ icache' = IF unlinked THEN Locked(icache, s, p) ELSE icache
     /\ st' = [st EXCEPT ![p].pc = IF unlinked THEN "itest" ELSE "idrop"]
     /\ UNCHANGED <<dinode, ents, cwd, fd>>

(* Faulty: whoever finds the inode without links frees it.                 *)
iputTestAlways(p) ==
  /\ At(p, "itest")
  /\ st' = [st EXCEPT ![p].pc = "ifree"]
  /\ UNCHANGED <<dinode, ents, icache, cwd, fd>>

(* ... reads ip->ref under icache.lock, which it then lets go ...          *)
iputTest(p) ==
  LET s == st[p].put
  IN /\ At(p, "itest")
     /\ icache' = IF icache[s].ref = 1 THEN icache ELSE iunlock(icache, s)
     /\ st' = [st EXCEPT ![p].pc = IF icache[s].ref = 1 THEN "ifree" ELSE "idrop"]
     /\ UNCHANGED <<dinode, ents, cwd, fd>>

(* ... truncates and frees the inode: from here on ialloc() may use it ... *)
iputFree(p) ==
  LET s == st[p].put
      ic == [icache EXCEPT ![s].type = "free"]
  IN /\ At(p, "ifree")
     /\ dinode' = iupdate(ic, s)
     /\ ents' = [ents EXCEPT ![icache[s].inum] = Empty]
     /\ icache' = [ic EXCEPT ![s].valid = FALSE]
     /\ st' = [st EXCEPT ![p].pc = "irelease"]
     /\ UNCHANGED <<cwd, fd>>

iputRelease(p) ==
  /\ At(p, "irelease")
  /\ icache' = iunlock(icache, st[p].put)
  /\ st' = [st EXCEPT ![p].pc = "idrop"]
  /\ UNCHANGED <<dinode, ents, cwd, fd>>

(* ... and drops the reference, in a second section under icache.lock.     *)
iputDrop(p) ==
  /\ At(p, "idrop")
  /\ icache' = [icache EXCEPT ![st[p].put].ref = @ - 1]
  /\ st' = [st EXCEPT ![p] = IF @.after = "user" THEN User
                             ELSE [@ EXCEPT !.pc = st[p].after, !.put = None, !.after = "user"]]
  /\ UNCHANGED <<dinode, ents, cwd, fd>>
-----------------------------------------------------------------------------
(* p calls namex() with the local variables t and the cache ic: it starts  *)
(* at the root, iget(ROOTINO), or at idup(cwd).                            *)
StartNamex(p, t, ic, path) ==
  LET s == IF path.abs THEN igetSlot(ic, ROOTINO) ELSE cwd[p]
  IN /\ icache' = IF s = None THEN ic ELSE IF path.abs THEN iget(ic, ROOTINO, s) ELSE idup(ic, s)
     /\ Become(p, [t EXCEPT !.pc = IF s = None THEN "panic" ELSE "namex",
                            !.at = s, !.elems = path.elems])

(* The call wants the parent directory of its path: nameiparent().         *)
Parent(t) == t.req.call \in {"create", "mkdir", "mknod", "unlink"} \/ t.ip # None

(* namex() returned 0: link() has to undo its nlink++, the others fail.    *)
NotFound(t) == IF t.ip # None THEN "undo" ELSE "user"

(* A system call begins and namex() has its first reference.               *)
SysCall(p, r) ==
  /\ At(p, "user")
  /\ StartNamex(p, [User EXCEPT !.req = r], icache, r.path)
  /\ UNCHANGED <<dinode, ents, cwd, fd>>

(* The path is used up: namei() has its inode, nameiparent() has failed.   *)
namexEnd(p) ==
  LET t == st[p]
  IN /\ At(p, "namex") /\ t.elems = <<>>
     /\ Become(p, IF Parent(t) THEN Iput([t EXCEPT !.at = None], t.at, NotFound(t))
                               ELSE [t EXCEPT !.pc = "node", !.ip = t.at, !.at = None])
     /\ UNCHANGED <<dinode, ents, icache, cwd, fd>>

namexLock(p) == At(p, "namex") /\ st[p].elems # <<>> /\ Lock(p, st[p].at, "look")

(* One element of the path, with the directory locked: not a directory or  *)
(* no such name; the last element of nameiparent(); or the next inode.     *)
namexLook(p) ==
  LET t == st[p]
      d == icache[t.at]
      n == Head(t.elems)
      i == ents[d.inum][n]
      s == igetSlot(icache, i)
      open == iunlock(icache, t.at)
      last == Parent(t) /\ Len(t.elems) = 1
  IN /\ At(p, "look")
     /\ \/ /\ d.type # "dir" \/ (~last /\ i = 0)
           /\ icache' = open
           /\ Become(p, Iput([t EXCEPT !.at = None], t.at, NotFound(t)))
        \/ /\ d.type = "dir" /\ last
           /\ icache' = open
           /\ Become(p, [t EXCEPT !.pc = "parent", !.dp = t.at, !.at = None, !.name = n])
        \/ /\ d.type = "dir" /\ ~last /\ i # 0
           /\ icache' = IF s = None THEN icache ELSE iget(open, i, s)
           /\ Become(p, IF s = None THEN [t EXCEPT !.pc = "panic"]
                        ELSE Iput([t EXCEPT !.at = s, !.elems = Tail(@)], t.at, "namex"))
     /\ UNCHANGED <<dinode, ents, cwd, fd>>
-----------------------------------------------------------------------------
(* The entry of dp (locked by p) for the last element of the path.         *)
Found(t) == ents[icache[t.dp].inum][t.name]

parentLock(p) == At(p, "parent") /\ Lock(p, st[p].dp, "dir")

nodeLock(p) == At(p, "node") /\ Lock(p, st[p].ip, "have")

(* dirlookup() in dp finds an entry: create() lets go of dp and looks at   *)
(* what there is; unlink() keeps dp locked; the dirlink() of link() fails, *)
(* and puts the inode it was not interested in.                            *)
dirlookupFound(p) ==
  LET t == st[p]
      i == Found(t)
      s == igetSlot(icache, i)
  IN /\ At(p, "dir") /\ i # 0
     /\ t.req.call = "unlink" => t.name \in Name
     /\ IF s = None THEN Become(p, [t EXCEPT !.pc = "panic"]) /\ UNCHANGED icache
        ELSE \/ /\ t.req.call \in {"create", "mkdir", "mknod"}
                /\ icache' = iget(iunlock(icache, t.dp), i, s)
                /\ Become(p, Iput([t EXCEPT !.ip = s, !.dp = None], t.dp, "node"))
             \/ /\ t.req.call = "unlink"
                /\ icache' = iget(icache, i, s)
                /\ Become(p, [t EXCEPT !.ip = s, !.pc = "victim"])
             \/ /\ t.req.call = "link"
                /\ icache' = iget(icache, i, s)
                /\ Become(p, Iput(t, s, "exists"))
     /\ UNCHANGED <<dinode, ents, cwd, fd>>

(* iunlockput(dp), after which p goes on at after.                         *)
DropDir(p, after) ==
  /\ icache' = iunlock(icache, st[p].dp)
  /\ Become(p, Iput([st[p] EXCEPT !.dp = None], st[p].dp, after))

(* "." and ".." and names that do not exist cannot be unlinked.            *)
unlinkNothing(p) ==
  /\ At(p, "dir") /\ st[p].req.call = "unlink"
  /\ st[p].name \notin Name \/ Found(st[p]) = 0
  /\ DropDir(p, "user")
  /\ UNCHANGED <<dinode, ents, cwd, fd>>

(* link(): the new name, and after it iput(ip).                            *)
linkEntry(p) ==
  /\ At(p, "dir") /\ st[p].req.call = "link" /\ Found(st[p]) = 0
  /\ ents' = [ents EXCEPT ![icache[st[p].dp].inum][st[p].name] = icache[st[p].ip].inum]
  /\ DropDir(p, "linked")
  /\ UNCHANGED <<dinode, cwd, fd>>

linked(p) ==
  /\ At(p, "linked")
  /\ Become(p, Iput([st[p] EXCEPT !.ip = None], st[p].ip, "user"))
  /\ UNCHANGED <<dinode, ents, icache, cwd, fd>>

linkExists(p) ==
  /\ At(p, "exists")
  /\ DropDir(p, "undo")
  /\ UNCHANGED <<dinode, ents, cwd, fd>>

(* Faulty: link() forgets that it has counted the link it did not make.    *)
linkUndoNot(p) ==
  /\ At(p, "undo") /\ icache[st[p].ip].owner = None
  /\ Become(p, Iput([st[p] EXCEPT !.ip = None], st[p].ip, "user"))
  /\ UNCHANGED <<dinode, ents, icache, cwd, fd>>

(* link() fails: ilock(ip), nlink--, iupdate(ip), iunlockput(ip).          *)
linkUndo(p) ==
  LET s == st[p].ip
      ic == [ilock(s, p) EXCEPT ![s].nlink = @ - 1, ![s].owner = None]
  IN /\ At(p, "undo") /\ icache[s].owner = None
     /\ icache' = ic
     /\ dinode' = iupdate(ic, s)
     /\ Become(p, Iput([st[p] EXCEPT !.ip = None], s, "user"))
     /\ UNCHANGED <<ents, cwd, fd>>

(* ialloc(): the first free inode; it panics when there is none, which the *)
(* bound NINODES would make happen too soon.                               *)
Type(call) == CASE call = "mkdir" -> "dir" [] call = "mknod" -> "dev" [] OTHER -> "file"

ialloc(p) ==
  LET t == st[p]
      free == {i \in Inum : dinode[i].type = "free"}
      s == igetSlot(icache, Min(free))
  IN /\ At(p, "dir") /\ t.req.call \in {"create", "mkdir", "mknod"} /\ Found(t) = 0
     /\ free # {}
     /\ dinode' = [dinode EXCEPT ![Min(free)] = [type |-> Type(t.req.call), nlink |-> 0]]
     /\ IF s = None THEN Become(p, [t EXCEPT !.pc = "panic"]) /\ UNCHANGED icache
        ELSE /\ icache' = iget(icache, Min(free), s)
             /\ Become(p, [t EXCEPT !.ip = s, !.pc = "new"])
     /\ UNCHANGED <<ents, cwd, fd>>

(* create(): with dp and the new inode locked, nlink, "." and "..", and    *)
(* the name; dp is then put while the new inode stays locked.              *)
create(p) ==
  LET t == st[p]
      i == icache[t.ip].inum
      d == icache[t.dp].inum
      isdir == t.req.call = "mkdir"
      ic == [ilock(t.ip, p) EXCEPT ![t.ip].nlink = 1, ![t.dp].nlink = @ + (IF isdir THEN 1 ELSE 0)]
  IN /\ At(p, "new") /\ icache[t.ip].owner = None
     /\ IF NoType(t.ip) THEN Become(p, [t EXCEPT !.pc = "panic"]) /\ UNCHANGED <<dinode, ents, icache>>
        ELSE /\ dinode' = [iupdate(ic, t.ip) EXCEPT ![d].nlink = ic[t.dp].nlink]
             /\ ents' = [ents EXCEPT ![d][t.name] = i,
                                     ![i] = IF isdir THEN [@ EXCEPT !["."] = i, ![".."] = d] ELSE @]
             /\ icache' = iunlock(ic, t.dp)
             /\ Become(p, Iput([t EXCEPT !.dp = None], t.dp, "made"))
     /\ UNCHANGED <<cwd, fd>>
-----------------------------------------------------------------------------
(* open() keeps its reference for the open file, or gives it up where      *)
(* fdalloc() fails: p has one descriptor.                                  *)
Keep(p) ==
  LET t == st[p]
  IN /\ icache' = iunlock(icache, t.ip)
     /\ \/ /\ fd[p] = None
           /\ fd' = [fd EXCEPT ![p] = t.ip]
           /\ Become(p, User)
        \/ /\ fd[p] # None
           /\ Become(p, Iput([t EXCEPT !.ip = None], t.ip, "user"))
           /\ UNCHANGED fd

(* iunlockput(ip): the call is over.                                       *)
DropNode(p) ==
  /\ icache' = iunlock(icache, st[p].ip)
  /\ Become(p, Iput([st[p] EXCEPT !.ip = None], st[p].ip, "user"))
  /\ UNCHANGED fd

(* sys_open() of an inode that exists: directories cannot be written, and  *)
(* create() returns only files.                                            *)
sys_open(p) ==
  LET t == st[p]
      type == icache[t.ip].type
  IN /\ At(p, "have") /\ t.req.call \in {"open", "openrw", "create", "mkdir", "mknod"}
     /\ IF \/ t.req.call = "open"
           \/ t.req.call = "openrw" /\ type # "dir"
           \/ t.req.call = "create" /\ type = "file"
        THEN Keep(p) ELSE DropNode(p)
     /\ UNCHANGED <<dinode, ents, cwd>>

(* The end of sys_open(), sys_mkdir() and sys_mknod() for a new inode.     *)
created(p) ==
  /\ At(p, "made")
  /\ IF st[p].req.call = "create" THEN Keep(p) ELSE DropNode(p)
  /\ UNCHANGED <<dinode, ents, cwd>>

(* sys_chdir(): the reference of the old cwd is put.  Only p itself reads  *)
(* cwd, so that it does not matter that it changes after iput().           *)
sys_chdir(p) ==
  LET t == st[p]
  IN /\ At(p, "have") /\ t.req.call = "chdir"
     /\ IF icache[t.ip].type = "dir"
        THEN /\ icache' = iunlock(icache, t.ip)
             /\ cwd' = [cwd EXCEPT ![p] = t.ip]
             /\ Become(p, Iput([t EXCEPT !.ip = None], cwd[p], "user"))
             /\ UNCHANGED fd
        ELSE DropNode(p) /\ UNCHANGED cwd
     /\ UNCHANGED <<dinode, ents>>

(* sys_link(): counts the link first, and then looks for its directory.    *)
sys_link(p) ==
  LET t == st[p]
      ic == [icache EXCEPT ![t.ip].nlink = @ + 1]
  IN /\ At(p, "have") /\ t.req.call = "link"
     /\ IF icache[t.ip].type = "dir"
        THEN DropNode(p) /\ UNCHANGED dinode
        ELSE /\ dinode' = iupdate(ic, t.ip)
             /\ StartNamex(p, t, iunlock(ic, t.ip), t.req.new)
             /\ UNCHANGED fd
     /\ UNCHANGED <<ents, cwd>>

(* sys_unlink(): with dp locked, the inode of the entry.                   *)
victimLock(p) == At(p, "victim") /\ Lock(p, st[p].ip, "erase")

isdirempty(i) == \A n \in Name : ents[i][n] = 0

(* A directory that is not empty stays; otherwise the entry is erased, and *)
(* dp is put while ip stays locked.                                        *)
unlinkErase(p) ==
  LET t == st[p]
      d == icache[t.dp].inum
      v == icache[t.ip]
      ic == [icache EXCEPT ![t.dp].nlink = @ - (IF v.type = "dir" THEN 1 ELSE 0)]
  IN /\ At(p, "erase")
     /\ IF v.nlink < 1                     \* "unlink: nlink < 1"
        THEN Become(p, [t EXCEPT !.pc = "panic"]) /\ UNCHANGED <<ents, dinode, icache>>
        ELSE \/ /\ v.type = "dir" /\ ~isdirempty(v.inum)
                /\ icache' = iunlock(icache, t.ip)
                /\ Become(p, Iput([t EXCEPT !.ip = None], t.ip, "bad"))
                /\ UNCHANGED <<ents, dinode>>
             \/ /\ v.type # "dir" \/ isdirempty(v.inum)
                /\ ents' = [ents EXCEPT ![d][t.name] = 0]
                /\ dinode' = iupdate(ic, t.dp)
                /\ icache' = iunlock(ic, t.dp)
                /\ Become(p, Iput([t EXCEPT !.dp = None], t.dp, "unlinked"))
     /\ UNCHANGED <<cwd, fd>>

unlinkBad(p) ==
  /\ At(p, "bad")
  /\ DropDir(p, "user")
  /\ UNCHANGED <<dinode, ents, cwd, fd>>

(* The rest of sys_unlink(): ip->nlink--, iupdate(ip), iunlockput(ip).     *)
unlinked(p) ==
  LET s == st[p].ip
      ic == [icache EXCEPT ![s].nlink = @ - 1]
  IN /\ At(p, "unlinked")
     /\ dinode' = iupdate(ic, s)
     /\ icache' = iunlock(ic, s)
     /\ Become(p, Iput([st[p] EXCEPT !.ip = None], s, "user"))
     /\ UNCHANGED <<ents, cwd, fd>>

(* fileclose() of the last reference to the open file.                     *)
fileclose(p) ==
  /\ At(p, "user") /\ fd[p] # None
  /\ fd' = [fd EXCEPT ![p] = None]
  /\ Become(p, Iput(User, fd[p], "user"))
  /\ UNCHANGED <<dinode, ents, icache, cwd>>

Next ==
  \E p \in Proc :
    \/ \E r \in Request[p] : SysCall(p, r)
    \/ fileclose(p)
    \/ namexEnd(p) \/ namexLock(p) \/ namexLook(p)
    \/ parentLock(p) \/ nodeLock(p) \/ dirlookupFound(p)
    \/ unlinkNothing(p) \/ victimLock(p) \/ unlinkErase(p) \/ unlinkBad(p) \/ unlinked(p)
    \/ ialloc(p) \/ create(p) \/ created(p)
    \/ sys_open(p) \/ sys_chdir(p)
    \/ sys_link(p) \/ linkEntry(p) \/ linked(p) \/ linkExists(p) \/ linkUndo(p)
    \/ iput(p) \/ iputTest(p) \/ iputFree(p) \/ iputRelease(p) \/ iputDrop(p)

Spec == Init /\ [][Next]_vars
-----------------------------------------------------------------------------
(* The in-memory pointers to entry s of the cache: open files, current     *)
(* directories and the local variables of system calls.                    *)
Pointers(s) ==
  Cardinality({p \in Proc : cwd[p] = s}) + Cardinality({p \in Proc : fd[p] = s})
  + Cardinality({p \in Proc : st[p].at = s}) + Cardinality({p \in Proc : st[p].ip = s})
  + Cardinality({p \in Proc : st[p].dp = s}) + Cardinality({p \in Proc : st[p].put = s})

(* ip->ref is the number of pointers to the entry, over all error paths of *)
(* namex(), create(), link(), unlink() and open().                         *)
RefExact == \A s \in Slot : icache[s].ref = Pointers(s)

(* The cache is coherent: no inode has two entries, whatever iget()        *)
(* recycles, and a valid entry in use agrees with the inode on the disk,   *)
(* also when iput() frees the inode while ialloc() hands it out again.     *)
CacheCoherent ==
  \A s \in Slot : icache[s].ref > 0 =>
    /\ \A t \in Slot \ {s} : icache[t].ref > 0 => icache[t].inum # icache[s].inum
    /\ icache[s].valid =>
         dinode[icache[s].inum] = [type |-> icache[s].type, nlink |-> icache[s].nlink]

(* iput() frees no inode that somebody else has: all pointers but the one  *)
(* that iput() itself drops are to allocated inodes.  So ilock() finds a   *)
(* type, unlink() a link to remove, iget() an entry: nothing panics.       *)
NotFreedInUse ==
  /\ \A s \in Slot :
       Pointers(s) > Cardinality({p \in Proc : st[p].put = s})
         => dinode[icache[s].inum].type # "free"
  /\ \A p \in Proc : st[p].pc # "panic"

InTree(d) == d = ROOTINO \/ \E e \in Inum, n \in Name : ents[e][n] = d

(* The entries for i: its names, and the ".." of directories in the tree.  *)
Links(i) ==
  Cardinality({<<d, n>> \in Inum \X Name : ents[d][n] = i})
  + Cardinality({d \in Inum : InTree(d) /\ ents[d][".."] = i})

(* link() counts a link before it makes it, unlink() discounts it after it *)
(* has erased it.                                                          *)
Pending(i) ==
  Cardinality({p \in Proc :
    LET t == st[p]
    IN /\ t.ip # None /\ icache[t.ip].inum = i
       /\ \/ t.req.call = "link" /\ t.pc \notin {"node", "have", "linked"} /\ t.after # "linked"
          \/ t.req.call = "unlink" /\ (t.pc = "unlinked" \/ t.after = "unlinked")})

(* nlink is the number of entries that refer to the inode, but for the     *)
(* calls that are under way.                                               *)
LinksExact == \A i \in Inum : dinode[i].type # "free" => dinode[i].nlink = Links(i) + Pending(i)

(* An inode without links that nobody has any more has been freed: iput()  *)
(* of the last reference frees it.                                         *)
FreedWhenUnused ==
  \A i \in Inum : dinode[i].type # "free" /\ dinode[i].nlink = 0 =>
    \E s \in Slot : icache[s].ref > 0 /\ icache[s].inum = i

(* The entry whose lock p is about to take, or None.                       *)
Wants(p) ==
  CASE At(p, "namex") /\ st[p].elems # <<>> -> st[p].at
    [] At(p, "node") \/ At(p, "new") \/ At(p, "victim") \/ At(p, "undo") -> st[p].ip
    [] At(p, "parent") -> st[p].dp
    [] At(p, "iput") -> st[p].put
    [] OTHER -> None

(* No processes wait for each other's inode locks in a circle.             *)
NoStandstill ==
  ~ \E P \in SUBSET Proc \ {{}} :
      \A p \in P : Wants(p) # None /\ icache[Wants(p)].owner \in P

(* The ".." of a directory refers to a directory: it counts as a link.     *)
DotDotAllocated ==
  \A i \in Inum : dinode[i].type = "dir" /\ ents[i][".."] # 0 => dinode[ents[i][".."]].type = "dir"
=============================================================================
