------------------------------ MODULE FileCounts ------------------------------
(***************************************************************************)
(* The counts of the table of open files (file.c, sysfile.c), for any      *)
(* number of processes, files, descriptors, inodes and pipes: the          *)
(* inductive invariant of module FileTable, what a change of a descriptor  *)
(* or of a call does to the counts, and the steps that take no new file.   *)
(* FileTableProofs has the other steps and the theorems.                   *)
(*                                                                         *)
(* The counts are cardinalities of sets of descriptors and of calls, so a  *)
(* step is proved in two parts: what it does to these sets (NamedChange,   *)
(* CallsChange, FilesHoldChange), and where it takes the process (Goes).   *)
(* A step of one process then keeps the invariant by StepKeeps.            *)
(***************************************************************************)
EXTENDS FileTable, FiniteSetTheorems, WellFoundedInduction, TLAPS

NewFile == [ref |-> 1, type |-> "FD_NONE", obj |-> None, writable |-> FALSE]

(* What the location of a process says of its local variables.             *)
Shape(t) ==
  /\ t \in Local
  /\ t.closing = <<>> \/ (\E f \in File : t.closing = <<f>>)
       \/ (\E f, g \in File : t.closing = <<f, g>>)
  /\ t.pc = "none" => t = Nowhere
  /\ t.pc = "user" => t = User
  /\ t.pc \in {"open", "openfd", "openfill", "openfail"} => t.ip \in Inode
  /\ t.pc \in {"close", "closed"} =>
       /\ t.after \in {"user", "openfail", "exit"}
       /\ t.after = "openfail" <=> t.ip \in Inode
  /\ t.pc \notin {"open", "openfd", "openfill", "openfail", "close", "closed"} => t.ip = None
  /\ t.pc \in {"openfd", "openfill", "pipe", "pipefd", "dup", "use"} => t.f \in File
  /\ t.pc \notin {"openfd", "openfill", "pipe", "pipefd", "dup", "use"} => t.f = None
  /\ t.pc \notin {"pipefd", "close", "closed"} => t.closing = <<>>
  /\ t.pc = "pipefd" => \E g \in File : t.closing = <<g>>
  /\ t.pc = "closed" => t.closing # <<>> /\ t.ff \in FileRecord
  /\ t.pc # "closed" => t.ff = None
  /\ t.pc # "panic"

Record(a) ==
  /\ a \in FileRecord /\ a.ref >= 0
  /\ a.ref = 0 => a = Closed
  /\ a.type = "FD_INODE" => a.obj \in Inode
  /\ a.type = "FD_PIPE" => a.obj \in PipePage

(* A file is new until open() or pipe() fills it in, and then it has its   *)
(* type until it is closed.                                                *)
Filling == {"openfd", "openfill", "pipe"}

FreshFor(t, fl) ==
  /\ t.pc \in Filling => fl[t.f] = NewFile
  /\ t.pc = "pipefd" => fl[t.f].type = "FD_PIPE" /\ fl[t.closing[1]].type = "FD_PIPE"
  /\ t.pc = "closed" => Record(t.ff) /\ t.ff.ref = 1

(* The descriptors o of a process at t.                                    *)
DescsFor(t, o, fl) ==
  /\ t.pc = "none" => \A d \in Fd : o[d] = None
  /\ t.pc \in {"openfill", "use"} => \E d \in Fd : o[d] = t.f
  /\ t.pc = "dup" => \E c, d \in Fd : c # d /\ o[c] = t.f /\ o[d] = t.f
  /\ t.pc = "exit" \/ (t.pc \in {"close", "closed"} /\ t.after = "exit") =>
       \A d \in Fd : d < t.i => o[d] = None
  /\ \A d \in Fd : o[d] # None /\ fl[o[d]].type = "FD_NONE" => t.pc = "openfill" /\ t.f = o[d]

(* A process in fork() has its child for itself.                           *)
ForkFor(p, s, o) ==
  s[p].pc = "fork" =>
    /\ s[p].child \in Proc \ {p} /\ s[s[p].child].pc = "child"
    /\ \A d \in Fd : d >= s[p].i => o[s[p].child][d] = None
    /\ \A q \in Proc : q # p /\ s[q].pc = "fork" => s[q].child # s[p].child

Separate(s) ==
  \A p, q \in Proc : p # q /\ s[p].pc \in Filling /\ s[q].pc \in Filling => s[p].f # s[q].f

FilesInv ==
  /\ TypeOK
  /\ \A p \in Proc : Shape(st[p]) /\ FreshFor(st[p], file) /\ DescsFor(st[p], ofile[p], file)
                       /\ ForkFor(p, st, ofile)
  /\ \A f \in File : Record(file[f])
  /\ Separate(st)
  /\ RefExact /\ ObjectsExact
-----------------------------------------------------------------------------
Ind(b) == IF b THEN 1 ELSE 0
Eq(a, b) == IF a = b THEN 1 ELSE 0

(* Sets that agree but for one element.                                    *)
LEMMA OneChange ==
  ASSUME NEW S, NEW T, NEW x, IsFiniteSet(S), \A y : y # x => (y \in S <=> y \in T)
  PROVE  /\ IsFiniteSet(T) /\ Cardinality(S) \in Nat /\ Cardinality(T) \in Nat
         /\ Cardinality(T) = Cardinality(S) + Ind(x \in T) - Ind(x \in S)
<1>0. Cardinality(S) \in Nat
  BY FS_CardinalityType
<1>1. CASE (x \in S <=> x \in T)
  <2>1. T = S
    BY <1>1
  <2> QED
    BY <1>0, <2>1 DEF Ind
<1>2. CASE x \in S /\ x \notin T
  <2>1. T = S \ {x}
    BY <1>2
  <2>2. IsFiniteSet(T) /\ Cardinality(T) = Cardinality(S) - 1
    BY <1>2, <2>1, FS_RemoveElement
  <2>3. Cardinality(T) \in Nat
    BY <2>2, FS_CardinalityType
  <2> QED
    BY <1>0, <1>2, <2>2, <2>3 DEF Ind
<1>3. CASE x \notin S /\ x \in T
  <2>1. T = S \cup {x}
    BY <1>3
  <2>2. IsFiniteSet(T) /\ Cardinality(T) = Cardinality(S) + 1
    BY <1>3, <2>1, FS_AddElement
  <2> QED
    BY <1>0, <1>3, <2>2 DEF Ind
<1> QED
  BY <1>1, <1>2, <1>3

(* Sets that agree but for two elements.                                   *)
LEMMA TwoChange ==
  ASSUME NEW S, NEW T, NEW x, NEW y, x # y, IsFiniteSet(S),
         \A z : z # x /\ z # y => (z \in S <=> z \in T)
  PROVE  /\ IsFiniteSet(T) /\ Cardinality(S) \in Nat /\ Cardinality(T) \in Nat
         /\ Cardinality(T) = Cardinality(S) + (Ind(x \in T) - Ind(x \in S))
                                            + (Ind(y \in T) - Ind(y \in S))
<1> DEFINE U == IF x \in T THEN S \cup {x} ELSE S \ {x}
<1>1. /\ \A z : z # x => (z \in S <=> z \in U)
      /\ \A z : z # y => (z \in U <=> z \in T)
      /\ (x \in U <=> x \in T) /\ (y \in U <=> y \in S)
  OBVIOUS
<1> HIDE DEF U
<1>2. /\ IsFiniteSet(U) /\ Cardinality(S) \in Nat /\ Cardinality(U) \in Nat
      /\ Cardinality(U) = Cardinality(S) + Ind(x \in U) - Ind(x \in S)
  BY <1>1, OneChange
<1>3. /\ IsFiniteSet(T) /\ Cardinality(T) \in Nat
      /\ Cardinality(T) = Cardinality(U) + Ind(y \in T) - Ind(y \in U)
  BY <1>1, <1>2, OneChange
<1> QED
  BY <1>1, <1>2, <1>3 DEF Ind

(* Sets with one and with two members.                                     *)
LEMMA CardAtLeast ==
  ASSUME NEW S, IsFiniteSet(S)
  PROVE  /\ Cardinality(S) \in Nat
         /\ (\E x : x \in S) <=> Cardinality(S) >= 1
         /\ (\E x, y : x # y /\ x \in S /\ y \in S) => Cardinality(S) >= 2
<1>1. Cardinality(S) \in Nat
  BY FS_CardinalityType
<1>2. (\E x : x \in S) <=> Cardinality(S) >= 1
  BY <1>1, FS_EmptySet
<1>3. ASSUME NEW x, NEW y, x # y, x \in S, y \in S PROVE Cardinality(S) >= 2
  <2>1. IsFiniteSet(S \ {x}) /\ Cardinality(S \ {x}) = Cardinality(S) - 1
    BY <1>3, FS_RemoveElement
  <2>2. S \ {x} # {} /\ Cardinality(S \ {x}) \in Nat
    BY <1>3, <2>1, FS_CardinalityType
  <2>3. Cardinality(S \ {x}) # 0
    BY <2>1, <2>2, FS_EmptySet
  <2> QED
    BY <1>1, <2>1, <2>2, <2>3
<1> QED
  BY <1>1, <1>2, <1>3
-----------------------------------------------------------------------------
(* The references to a file, as sets: descriptors, files that a call has   *)
(* allocated, that it is about to close, and that a dup() has not counted. *)
Named(o, f) == {x \in Proc \X Fd : o[x[1]][x[2]] = f}
Allocated(s, f) == {p \in Proc : s[p].f = f /\ s[p].pc \in {"openfd", "pipe", "pipefd"}}
Listed(s, f) == {x \in Proc \X (1 .. 2) :
                   /\ x[2] \in DOMAIN s[x[1]].closing /\ s[x[1]].closing[x[2]] = f
                   /\ ~(s[x[1]].pc = "closed" /\ x[2] = 1)}
Dupping(s, f) == {p \in Proc : s[p].f = f /\ s[p].pc = "dup"}

(* The part of a process.                                                  *)
Lists(t, j, f) == j \in DOMAIN t.closing /\ t.closing[j] = f /\ ~(t.pc = "closed" /\ j = 1)
Own(t, f) == Ind(t.f = f /\ t.pc \in {"openfd", "pipe", "pipefd"})
               + Ind(Lists(t, 1, f)) + Ind(Lists(t, 2, f)) - Ind(t.f = f /\ t.pc = "dup")

Calls(s, f) == Cardinality(Allocated(s, f)) + Cardinality(Listed(s, f)) - Cardinality(Dupping(s, f))

(* They are finite.                                                        *)
LEMMA RefsFinite ==
  ASSUME FileConstants, NEW o, NEW s, NEW f
  PROVE  /\ IsFiniteSet(Named(o, f)) /\ IsFiniteSet(Allocated(s, f))
         /\ IsFiniteSet(Listed(s, f)) /\ IsFiniteSet(Dupping(s, f))
<1>0. 0 \in Int /\ NOFILE - 1 \in Int /\ 1 \in Int /\ 2 \in Int
  BY DEF FileConstants
<1>1. IsFiniteSet(Proc) /\ IsFiniteSet(Fd) /\ IsFiniteSet(1 .. 2)
  BY <1>0, FS_Interval, Zenon DEF FileConstants, Fd
<1>2. IsFiniteSet(Proc \X Fd) /\ IsFiniteSet(Proc \X (1 .. 2))
  BY <1>1, FS_Product
<1>3. /\ Named(o, f) \in SUBSET (Proc \X Fd) /\ Listed(s, f) \in SUBSET (Proc \X (1 .. 2))
      /\ Allocated(s, f) \in SUBSET Proc /\ Dupping(s, f) \in SUBSET Proc
  BY DEF Named, Listed, Allocated, Dupping
<1> QED
  BY <1>1, <1>2, <1>3, FS_Subset

(* References() is the sum.                                          *)
LEMMA RefsAre ==
  ASSUME FileConstants, NEW f
  PROVE  /\ References(f) = Cardinality(Named(ofile, f)) + Calls(st, f)
         /\ References(f)' = Cardinality(Named(ofile', f)) + Calls(st', f)
<1>1. /\ References(f) = Cardinality(Named(ofile, f)) + Cardinality(Allocated(st, f))
                                 + Cardinality(Listed(st, f)) - Cardinality(Dupping(st, f))
      /\ References(f)' = Cardinality(Named(ofile', f)) + Cardinality(Allocated(st', f))
                                 + Cardinality(Listed(st', f)) - Cardinality(Dupping(st', f))
  BY Zenon DEF References, Named, Allocated, Listed, Dupping, At
<1>2. /\ Cardinality(Named(ofile, f)) \in Nat /\ Cardinality(Named(ofile', f)) \in Nat
      /\ Cardinality(Allocated(st, f)) \in Nat /\ Cardinality(Allocated(st', f)) \in Nat
      /\ Cardinality(Listed(st, f)) \in Nat /\ Cardinality(Listed(st', f)) \in Nat
      /\ Cardinality(Dupping(st, f)) \in Nat /\ Cardinality(Dupping(st', f)) \in Nat
  BY RefsFinite, FS_CardinalityType
<1> QED
  BY <1>1, <1>2 DEF Calls

(* A process goes from its state to t: its part of the count changes.      *)
LEMMA CallsChange ==
  ASSUME FileConstants, NEW X, NEW s \in [Proc -> X], NEW p \in Proc, NEW t, NEW f
  PROVE  /\ Calls([s EXCEPT ![p] = t], f) = Calls(s, f) + Own(t, f) - Own(s[p], f)
         /\ Calls(s, f) \in Int
<1> DEFINE u == [s EXCEPT ![p] = t]
<1>0. u[p] = t /\ (\A q \in Proc : q # p => u[q] = s[q])
  OBVIOUS
<1> HIDE DEF u
<1>1. /\ Cardinality(Allocated(s, f)) \in Nat
      /\ Cardinality(Allocated(u, f)) = Cardinality(Allocated(s, f))
           + Ind(t.f = f /\ t.pc \in {"openfd", "pipe", "pipefd"})
           - Ind(s[p].f = f /\ s[p].pc \in {"openfd", "pipe", "pipefd"})
  <2>1. /\ \A q : q # p => (q \in Allocated(s, f) <=> q \in Allocated(u, f))
        /\ p \in Allocated(s, f) <=> s[p].f = f /\ s[p].pc \in {"openfd", "pipe", "pipefd"}
        /\ p \in Allocated(u, f) <=> t.f = f /\ t.pc \in {"openfd", "pipe", "pipefd"}
    BY <1>0, Zenon DEF Allocated
  <2>2. /\ Cardinality(Allocated(s, f)) \in Nat
        /\ Cardinality(Allocated(u, f)) = Cardinality(Allocated(s, f))
             + Ind(p \in Allocated(u, f)) - Ind(p \in Allocated(s, f))
    BY <2>1, RefsFinite, OneChange
  <2> QED
    BY <2>1, <2>2, Zenon DEF Ind
<1>2. /\ Cardinality(Dupping(s, f)) \in Nat
      /\ Cardinality(Dupping(u, f)) = Cardinality(Dupping(s, f))
           + Ind(t.f = f /\ t.pc = "dup") - Ind(s[p].f = f /\ s[p].pc = "dup")
  <2>1. /\ \A q : q # p => (q \in Dupping(s, f) <=> q \in Dupping(u, f))
        /\ p \in Dupping(s, f) <=> s[p].f = f /\ s[p].pc = "dup"
        /\ p \in Dupping(u, f) <=> t.f = f /\ t.pc = "dup"
    BY <1>0, Zenon DEF Dupping
  <2>2. /\ Cardinality(Dupping(s, f)) \in Nat
        /\ Cardinality(Dupping(u, f)) = Cardinality(Dupping(s, f))
             + Ind(p \in Dupping(u, f)) - Ind(p \in Dupping(s, f))
    BY <2>1, RefsFinite, OneChange
  <2> QED
    BY <2>1, <2>2, Zenon DEF Ind
<1>3. /\ Cardinality(Listed(s, f)) \in Nat
      /\ Cardinality(Listed(u, f)) = Cardinality(Listed(s, f))
           + (Ind(Lists(t, 1, f)) - Ind(Lists(s[p], 1, f)))
           + (Ind(Lists(t, 2, f)) - Ind(Lists(s[p], 2, f)))
  <2>1. \A v : v \in 1 .. 2 <=> v = 1 \/ v = 2
    OBVIOUS
  <2>2. \A v, j : /\ <<v, j>> \in Listed(s, f) <=> v \in Proc /\ j \in 1 .. 2 /\ Lists(s[v], j, f)
                  /\ <<v, j>> \in Listed(u, f) <=> v \in Proc /\ j \in 1 .. 2 /\ Lists(u[v], j, f)
    BY DEF Listed, Lists
  <2>3. \A x : x \in Listed(s, f) \/ x \in Listed(u, f) =>
                 \E v \in Proc : \E j \in 1 .. 2 : x = <<v, j>>
    BY DEF Listed
  <2>4. ASSUME NEW x, x # <<p, 1>>, x # <<p, 2>> PROVE x \in Listed(s, f) <=> x \in Listed(u, f)
    BY <1>0, <2>1, <2>2, <2>3, <2>4
  <2>5. /\ <<p, 1>> \in Listed(s, f) <=> Lists(s[p], 1, f)
        /\ <<p, 2>> \in Listed(s, f) <=> Lists(s[p], 2, f)
        /\ <<p, 1>> \in Listed(u, f) <=> Lists(t, 1, f)
        /\ <<p, 2>> \in Listed(u, f) <=> Lists(t, 2, f)
    BY <1>0, <2>1, <2>2
  <2>6. <<p, 1>> # <<p, 2>> /\ IsFiniteSet(Listed(s, f))
    BY RefsFinite
  <2>7. /\ Cardinality(Listed(s, f)) \in Nat
        /\ Cardinality(Listed(u, f)) = Cardinality(Listed(s, f))
             + (Ind(<<p, 1>> \in Listed(u, f)) - Ind(<<p, 1>> \in Listed(s, f)))
             + (Ind(<<p, 2>> \in Listed(u, f)) - Ind(<<p, 2>> \in Listed(s, f)))
    BY <2>4, <2>6, TwoChange, Zenon
  <2> QED
    BY <2>5, <2>7, Zenon DEF Ind
<1>4. \A b : Ind(b) \in Int
  BY DEF Ind
<1>5. Calls(u, f) = Calls(s, f) + Own(t, f) - Own(s[p], f) /\ Calls(s, f) \in Int
  BY <1>1, <1>2, <1>3, <1>4 DEF Calls, Own
<1> QED
  BY <1>5 DEF u

NamedFacts(o, u, p, d, f) ==
  /\ Cardinality(Named(u, f)) = Cardinality(Named(o, f)) + Eq(u[p][d], f) - Eq(o[p][d], f)
  /\ Cardinality(Named(o, f)) \in Nat

(* One descriptor changes.                                                 *)
LEMMA NamedChange ==
  ASSUME FileConstants, NEW o, NEW u, NEW p \in Proc, NEW d \in Fd, NEW f,
         \A q \in Proc : \A c \in Fd : ~(q = p /\ c = d) => u[q][c] = o[q][c]
  PROVE  NamedFacts(o, u, p, d, f)
<1> DEFINE x == <<p, d>>
<1>1. ASSUME NEW y, y # x PROVE y \in Named(o, f) <=> y \in Named(u, f)
  BY <1>1 DEF Named
<1>2. (x \in Named(o, f) <=> o[p][d] = f) /\ (x \in Named(u, f) <=> u[p][d] = f)
  BY DEF Named
<1> HIDE DEF x
<1>3. /\ Cardinality(Named(o, f)) \in Nat
      /\ Cardinality(Named(u, f)) = Cardinality(Named(o, f))
           + Ind(x \in Named(u, f)) - Ind(x \in Named(o, f))
  BY <1>1, RefsFinite, OneChange
<1> QED
  BY <1>2, <1>3, Zenon DEF Ind, Eq, NamedFacts

(* Lower bounds of the count.                                              *)
BoundFacts(o, s, f) ==
  /\ Cardinality(Named(o, f)) + Calls(s, f)
       >= Ind(\E p \in Proc : \E d \in Fd : o[p][d] = f)
            + Cardinality(Allocated(s, f)) + Cardinality(Listed(s, f))
  /\ Cardinality(Allocated(s, f)) \in Nat /\ Cardinality(Listed(s, f)) \in Nat
  /\ Cardinality(Named(o, f)) \in Nat /\ Calls(s, f) \in Int

(* A dup() that has not counted has two descriptors: the count is at least *)
(* one for any descriptor, and one for each file of a call.                *)
LEMMA RefBound ==
  ASSUME FileConstants, NEW o, NEW s, NEW f,
         \A p \in Proc : s[p].f = f /\ s[p].pc = "dup" =>
           \E c, d \in Fd : c # d /\ o[p][c] = f /\ o[p][d] = f
  PROVE  BoundFacts(o, s, f)
<1>0. /\ Cardinality(Allocated(s, f)) \in Nat /\ Cardinality(Listed(s, f)) \in Nat
      /\ Cardinality(Named(o, f)) \in Nat /\ Cardinality(Dupping(s, f)) \in Nat
      /\ IsFiniteSet(Named(o, f)) /\ IsFiniteSet(Dupping(s, f))
  BY RefsFinite, FS_CardinalityType
<1> DEFINE some == \E p \in Proc : \E d \in Fd : o[p][d] = f
<1>1. CASE ~some
  <2>1. Dupping(s, f) = {}
    BY <1>1 DEF Dupping
  <2>2. Cardinality(Dupping(s, f)) = 0
    BY <2>1, FS_EmptySet
  <2> QED
    BY <1>0, <1>1, <2>2 DEF Calls, Ind, BoundFacts
<1>2. CASE some
  <2>1. PICK q \in Proc, d \in Fd : o[q][d] = f
    BY <1>2
  <2>2. \E z \in Fd : o[q][z] = f /\ (q \in Dupping(s, f) =>
                               \E y \in Fd : y # z /\ o[q][y] = f)
    BY <2>1 DEF Dupping
  <2>3. PICK z \in Fd : o[q][z] = f /\ (q \in Dupping(s, f) =>
                               \E y \in Fd : y # z /\ o[q][y] = f)
    BY <2>2
  <2> DEFINE x == <<q, z>>
             T == Named(o, f) \ {x}
             P(p, y) == y \in Fd /\ o[p][y] = f /\ <<p, y>> # x
             V(p) == <<p, CHOOSE y : P(p, y)>>
             inj == [p \in Dupping(s, f) |-> V(p)]
  <2>4. ASSUME NEW p \in Dupping(s, f) PROVE \E y : P(p, y)
    <3>1. p \in Proc /\ \E c, b \in Fd : c # b /\ o[p][c] = f /\ o[p][b] = f
      BY DEF Dupping
    <3>2. CASE p = q
      BY <2>3, <3>2
    <3>3. CASE p # q
      BY <3>1, <3>3
    <3> QED
      BY <3>2, <3>3
  <2>5. ASSUME NEW p \in Dupping(s, f) PROVE P(p, CHOOSE y : P(p, y))
    BY <2>4, Zenon
  <2>6. ASSUME NEW p \in Dupping(s, f) PROVE V(p) \in T /\ V(p)[1] = p
    <3> DEFINE y == CHOOSE v : P(p, v)
    <3>1. V(p) = <<p, y>> /\ p \in Proc
      BY DEF Dupping
    <3>2. P(p, y)
      BY <2>5, Zenon
    <3> HIDE DEF y, V
    <3> QED
      BY <3>1, <3>2 DEF Named
  <2> HIDE DEF V
  <2>7. inj \in [Dupping(s, f) -> T] /\ \A p \in Dupping(s, f) : inj[p] = V(p)
    BY <2>6
  <2>8. inj \in Injection(Dupping(s, f), T)
    <3> HIDE DEF inj, T
    <3> QED
      BY <2>6, <2>7 DEF Injection, IsInjective
  <2>9. x \in Named(o, f)
    BY <2>3 DEF Named
  <2>10. IsFiniteSet(T) /\ Cardinality(T) = Cardinality(Named(o, f)) - 1
    <3> HIDE DEF x
    <3> QED
      BY <1>0, <2>9, FS_RemoveElement
  <2>11. Cardinality(Dupping(s, f)) <= Cardinality(T)
    <3> HIDE DEF inj, T
    <3> QED
      BY <2>8, <2>10, FS_Injection
  <2> HIDE DEF T, some
  <2> QED
    BY <1>0, <1>2, <2>10, <2>11 DEF Calls, Ind, BoundFacts, some
<1> QED
  BY <1>1, <1>2
-----------------------------------------------------------------------------
(* What holds an inode or an end of a pipe: open files, calls of           *)
(* fileclose() that have not put or closed it, and calls of open().        *)
FileHolds(a, obj, W) == a.ref > 0 /\ a.type # "FD_NONE" /\ a.obj = obj /\ a.writable \in W
CallHolds(t, obj, W) == /\ t.pc = "closed" /\ t.ff.type # "FD_NONE" /\ t.ff.obj = obj
                        /\ t.ff.writable \in W

ByFiles(fl, obj, W) == {f \in File : FileHolds(fl[f], obj, W)}
ByCalls(s, obj, W) == {p \in Proc : CallHolds(s[p], obj, W)}
ByOpens(s, i) == {p \in Proc : s[p].ip = i}

(* The part of one file, and of one process.                               *)
FilePart(a, obj, W) == Ind(FileHolds(a, obj, W))
CallPart(t, obj, W) == Ind(CallHolds(t, obj, W))
OpenPart(t, i) == Ind(t.ip = i)

(* They are finite.                                                        *)
LEMMA HoldersFinite ==
  ASSUME FileConstants, NEW fl, NEW s, NEW obj, NEW W, NEW i
  PROVE  /\ IsFiniteSet(ByFiles(fl, obj, W)) /\ IsFiniteSet(ByCalls(s, obj, W))
         /\ IsFiniteSet(ByOpens(s, i))
         /\ Cardinality(ByFiles(fl, obj, W)) \in Nat /\ Cardinality(ByCalls(s, obj, W)) \in Nat
         /\ Cardinality(ByOpens(s, i)) \in Nat
<1>0. 1 \in Int /\ NFILE \in Int
  BY DEF FileConstants
<1>1. IsFiniteSet(Proc) /\ IsFiniteSet(File)
  BY <1>0, FS_Interval, Zenon DEF FileConstants, File
<1>2. /\ ByFiles(fl, obj, W) \in SUBSET File /\ ByCalls(s, obj, W) \in SUBSET Proc
      /\ ByOpens(s, i) \in SUBSET Proc
  BY DEF ByFiles, ByCalls, ByOpens
<1> QED
  BY <1>1, <1>2, FS_Subset, FS_CardinalityType

(* Holders() is the sum of the first two.                            *)
LEMMA HoldersAre ==
  ASSUME NEW obj, NEW W
  PROVE  /\ Holders(obj, W) = Cardinality(ByFiles(file, obj, W)) + Cardinality(ByCalls(st, obj, W))
         /\ Holders(obj, W)' =
              Cardinality(ByFiles(file', obj, W)) + Cardinality(ByCalls(st', obj, W))
  BY Zenon DEF Holders, ByFiles, ByCalls, FileHolds, CallHolds, At

FilesHold(fl, fn, g) ==
  \A obj, W : Cardinality(ByFiles(fn, obj, W)) = Cardinality(ByFiles(fl, obj, W))
                + FilePart(fn[g], obj, W) - FilePart(fl[g], obj, W)

(* One file changes.                                                       *)
LEMMA FilesHoldChange ==
  ASSUME FileConstants, NEW fl, NEW fn, NEW g \in File, \A f \in File : f # g => fn[f] = fl[f]
  PROVE  FilesHold(fl, fn, g)
<1> SUFFICES ASSUME NEW obj, NEW W
             PROVE  Cardinality(ByFiles(fn, obj, W)) = Cardinality(ByFiles(fl, obj, W))
                      + FilePart(fn[g], obj, W) - FilePart(fl[g], obj, W)
  BY DEF FilesHold
<1> DEFINE S == ByFiles(fl, obj, W)
           T == ByFiles(fn, obj, W)
<1>1. /\ \A y : y # g => (y \in S <=> y \in T)
      /\ g \in S <=> FileHolds(fl[g], obj, W)
      /\ g \in T <=> FileHolds(fn[g], obj, W)
  BY DEF ByFiles
<1>2. IsFiniteSet(S)
  BY HoldersFinite
<1> HIDE DEF S, T
<1>3. Cardinality(T) = Cardinality(S) + Ind(g \in T) - Ind(g \in S)
  BY <1>1, <1>2, OneChange
<1> QED
  BY <1>1, <1>3, Zenon DEF Ind, S, T, FilePart

CallsHold(s, u, p) ==
  \A obj, W : Cardinality(ByCalls(u, obj, W)) = Cardinality(ByCalls(s, obj, W))
                + CallPart(u[p], obj, W) - CallPart(s[p], obj, W)

(* One process changes.                                                    *)
LEMMA CallsHoldChange ==
  ASSUME FileConstants, NEW s, NEW u, NEW p \in Proc, \A q \in Proc : q # p => u[q] = s[q]
  PROVE  CallsHold(s, u, p)
<1> SUFFICES ASSUME NEW obj, NEW W
             PROVE  Cardinality(ByCalls(u, obj, W)) = Cardinality(ByCalls(s, obj, W))
                      + CallPart(u[p], obj, W) - CallPart(s[p], obj, W)
  BY Zenon DEF CallsHold
<1> DEFINE S == ByCalls(s, obj, W)
           T == ByCalls(u, obj, W)
<1>1. /\ \A y : y # p => (y \in S <=> y \in T)
      /\ p \in S <=> CallHolds(s[p], obj, W)
      /\ p \in T <=> CallHolds(u[p], obj, W)
  BY DEF ByCalls
<1>2. IsFiniteSet(S)
  BY HoldersFinite
<1> HIDE DEF S, T
<1>3. Cardinality(T) = Cardinality(S) + Ind(p \in T) - Ind(p \in S)
  BY <1>1, <1>2, OneChange
<1> QED
  BY <1>1, <1>3, Zenon DEF Ind, S, T, CallPart

OpensHold(s, u, p) ==
  \A i : Cardinality(ByOpens(u, i)) = Cardinality(ByOpens(s, i))
           + OpenPart(u[p], i) - OpenPart(s[p], i)

(* The same for the calls of open().                                       *)
LEMMA OpensChange ==
  ASSUME FileConstants, NEW s, NEW u, NEW p \in Proc, \A q \in Proc : q # p => u[q] = s[q]
  PROVE  OpensHold(s, u, p)
<1> SUFFICES ASSUME NEW i
             PROVE  Cardinality(ByOpens(u, i)) = Cardinality(ByOpens(s, i))
                      + OpenPart(u[p], i) - OpenPart(s[p], i)
  BY Zenon DEF OpensHold
<1> DEFINE S == ByOpens(s, i)
           T == ByOpens(u, i)
<1>1. /\ \A y : y # p => (y \in S <=> y \in T)
      /\ p \in S <=> s[p].ip = i
      /\ p \in T <=> u[p].ip = i
  BY DEF ByOpens
<1>2. IsFiniteSet(S)
  BY HoldersFinite
<1> HIDE DEF S, T
<1>3. Cardinality(T) = Cardinality(S) + Ind(p \in T) - Ind(p \in S)
  BY <1>1, <1>2, OneChange
<1> QED
  BY <1>1, <1>3, Zenon DEF Ind, S, T, OpenPart
-----------------------------------------------------------------------------
(* Every set of naturals has a least element.                              *)
LEMMA LeastNat ==
  ASSUME NEW S, S \subseteq Nat, S # {}
  PROVE  \E x \in S : \A y \in S : x <= y
<1>1. PICK x \in S : \A y \in S : ~(<<y, x>> \in OpToRel(<, Nat))
  BY WFMin, NatLessThanWellFounded, Zenon
<1>2. \A y \in S : <<y, x>> \in OpToRel(<, Nat) <=> y < x
  BY DEF OpToRel
<1>3. \A y \in S : x \in Nat /\ y \in Nat /\ ~(y < x)
  BY <1>1, <1>2, Zenon
<1>4. \A y \in S : x <= y
  BY <1>3
<1> QED
  BY <1>4
-----------------------------------------------------------------------------
(* The constants of module FileTable.                                      *)
LEMMA FileSets ==
  ASSUME FileConstants
  PROVE  /\ File = 1 .. NFILE /\ Fd = 0 .. NOFILE - 1 /\ NOFILE \in Nat /\ NFILE \in Nat
         /\ None \notin File /\ None \notin Inode /\ None \notin PipePage /\ None \notin Fd
         /\ Inode \cap PipePage = {} /\ File \subseteq Nat /\ Fd \subseteq Nat
  BY DEF FileConstants, File, Fd

(* Min() picks a member.                                             *)
LEMMA MinIn ==
  ASSUME NEW S, S \subseteq Nat, S # {}
  PROVE  Min(S) \in S
<1>1. \E x \in S : \A y \in S : x <= y
  BY LeastNat, Zenon
<1> QED
  BY <1>1, Zenon DEF Min

(* filealloc() finds a file without references, or there is none.          *)
LEMMA FreeFileIs ==
  ASSUME FileConstants
  PROVE  \/ FreeFile = None
         \/ FreeFile # None /\ FreeFile \in File /\ file[FreeFile].ref = 0
<1> DEFINE S == {f \in File : file[f].ref = 0}
<1>1. FreeFile = IF S = {} THEN None ELSE Min(S)
  BY DEF FreeFile
<1>2. S # {} => Min(S) \in S
  BY FileSets, MinIn, Zenon
<1> QED
  BY <1>1, <1>2, FileSets

(* fdalloc() finds an unused descriptor, or there is none.                 *)
LEMMA FreeFdIs ==
  ASSUME FileConstants, NEW p
  PROVE  \/ FreeFd(p) = None
         \/ FreeFd(p) # None /\ FreeFd(p) \in Fd /\ ofile[p][FreeFd(p)] = None
<1> DEFINE S == {d \in Fd : ofile[p][d] = None}
<1>1. FreeFd(p) = IF S = {} THEN None ELSE Min(S)
  BY DEF FreeFd
<1>2. S # {} => Min(S) \in S
  BY FileSets, MinIn, Zenon
<1> QED
  BY <1>1, <1>2, FileSets

(* Sequences of one and two files.                                         *)
LEMMA Tuples ==
  ASSUME NEW f, NEW g
  PROVE  /\ DOMAIN << >> = {} /\ DOMAIN <<f>> = {1} /\ DOMAIN <<f, g>> = {1, 2}
         /\ <<f>>[1] = f /\ <<f, g>>[1] = f /\ <<f, g>>[2] = g
         /\ Head(<<f>>) = f /\ Head(<<f, g>>) = f
         /\ Tail(<<f>>) = << >> /\ Tail(<<f, g>>) = <<g>>
         /\ <<f>> # << >> /\ <<f, g>> # << >>
<1>1. /\ DOMAIN << >> = {} /\ DOMAIN <<f>> = {1} /\ DOMAIN <<f, g>> = {1, 2}
      /\ <<f>>[1] = f /\ <<f, g>>[1] = f /\ <<f, g>>[2] = g
  OBVIOUS
<1>2. Head(<<f>>) = f /\ Head(<<f, g>>) = f
  OBVIOUS
<1>3. Tail(<<f>>) = << >>
  OBVIOUS
<1>4. Tail(<<f, g>>) = <<g>>
  OBVIOUS
<1> QED
  BY <1>1, <1>2, <1>3, <1>4

(* The files that a process is about to close.                             *)
LEMMA ListsIs ==
  ASSUME NEW t, NEW f
  PROVE  /\ t.closing = << >> => ~Lists(t, 1, f) /\ ~Lists(t, 2, f)
         /\ \A a : t.closing = <<a>> => /\ Lists(t, 1, f) <=> a = f /\ t.pc # "closed"
                                        /\ ~Lists(t, 2, f)
         /\ \A a, b : t.closing = <<a, b>> => /\ Lists(t, 1, f) <=> a = f /\ t.pc # "closed"
                                              /\ Lists(t, 2, f) <=> b = f
  BY Tuples DEF Lists
-----------------------------------------------------------------------------
(* A step of one process changes the counts by its part.                   *)
Moves(p, t) ==
  /\ \A f : Calls(st', f) = Calls(st, f) + Own(t, f) - Own(st[p], f) /\ Calls(st, f) \in Int
  /\ \A obj, W : Cardinality(ByCalls(st', obj, W)) = Cardinality(ByCalls(st, obj, W))
                   + CallPart(t, obj, W) - CallPart(st[p], obj, W)
  /\ \A i : Cardinality(ByOpens(st', i)) = Cardinality(ByOpens(st, i))
                   + OpenPart(t, i) - OpenPart(st[p], i)
  /\ st'[p] = t /\ \A q \in Proc : q # p => st'[q] = st[q]

(* This is what Become() does.                                             *)
LEMMA Moved ==
  ASSUME FileConstants, FilesInv, NEW p \in Proc, NEW t, Become(p, t)
  PROVE  Moves(p, t)
<1>1. st \in [Proc -> Local] /\ file \in [File -> FileRecord]
  BY DEF FilesInv, TypeOK
<1>2. st' = [st EXCEPT ![p] = t]
  BY DEF Become
<1>3. \A f : Calls(st', f) = Calls(st, f) + Own(t, f) - Own(st[p], f) /\ Calls(st, f) \in Int
  BY <1>1, <1>2, CallsChange, Zenon
<1>4. st'[p] = t /\ \A q \in Proc : q # p => st'[q] = st[q]
  BY <1>1, <1>2
<1>5. CallsHold(st, st', p) /\ OpensHold(st, st', p)
  BY <1>4, CallsHoldChange, OpensChange
<1> QED
  BY <1>3, <1>4, <1>5, Zenon DEF Moves, CallsHold, OpensHold

(* A file is in use when something refers to it.                           *)
LEMMA Bound ==
  ASSUME FileConstants, FilesInv, NEW f \in File
  PROVE  /\ file[f].ref >= Ind(\E p \in Proc : \E d \in Fd : ofile[p][d] = f)
                             + Cardinality(Allocated(st, f)) + Cardinality(Listed(st, f))
         /\ file[f].ref \in Int
         /\ Cardinality(Allocated(st, f)) \in Nat /\ Cardinality(Listed(st, f)) \in Nat
         /\ file[f].ref = Cardinality(Named(ofile, f)) + Calls(st, f)
<1>1. file[f].ref = Cardinality(Named(ofile, f)) + Calls(st, f)
  BY RefsAre DEF FilesInv, RefExact
<1>2. \A p \in Proc : st[p].f = f /\ st[p].pc = "dup" =>
           \E c, d \in Fd : c # d /\ ofile[p][c] = f /\ ofile[p][d] = f
  BY DEF FilesInv, DescsFor
<1>3. BoundFacts(ofile, st, f)
  BY <1>2, RefBound, Zenon
<1>4. Cardinality(Named(ofile, f)) \in Nat /\ Calls(st, f) \in Int
  BY <1>3, Zenon DEF BoundFacts
<1>5. file[f].ref \in Int
  BY <1>1, <1>4
<1> QED
  BY <1>1, <1>3, <1>5, Zenon DEF BoundFacts
-----------------------------------------------------------------------------
(* What a process refers to, by where it is.                               *)
OwnFacts(t, f) ==
  /\ t.closing = << >> =>
       /\ t.pc \in {"openfd", "pipe"} => Own(t, f) = Eq(t.f, f)
       /\ t.pc = "dup" => Own(t, f) = 0 - Eq(t.f, f)
       /\ t.pc \notin {"openfd", "pipe", "pipefd", "dup"} => Own(t, f) = 0
  /\ \A a : t.closing = <<a>> =>
       /\ t.pc = "pipefd" => Own(t, f) = Eq(t.f, f) + Eq(a, f)
       /\ t.pc = "close" => Own(t, f) = Eq(a, f)
       /\ t.pc = "closed" => Own(t, f) = 0
  /\ \A a, b : t.closing = <<a, b>> =>
       /\ t.pc = "close" => Own(t, f) = Eq(a, f) + Eq(b, f)
       /\ t.pc = "closed" => Own(t, f) = Eq(b, f)

(* This is Own().                                                          *)
LEMMA OwnIs ==
  ASSUME NEW t, NEW f
  PROVE  OwnFacts(t, f)
<1>1. /\ t.closing = << >> => ~Lists(t, 1, f) /\ ~Lists(t, 2, f)
      /\ \A a : t.closing = <<a>> => /\ Lists(t, 1, f) <=> a = f /\ t.pc # "closed"
                                     /\ ~Lists(t, 2, f)
      /\ \A a, b : t.closing = <<a, b>> => /\ Lists(t, 1, f) <=> a = f /\ t.pc # "closed"
                                           /\ Lists(t, 2, f) <=> b = f
  BY ListsIs
<1>2. t.closing = << >> =>
       /\ t.pc \in {"openfd", "pipe"} => Own(t, f) = Eq(t.f, f)
       /\ t.pc = "dup" => Own(t, f) = 0 - Eq(t.f, f)
       /\ t.pc \notin {"openfd", "pipe", "pipefd", "dup"} => Own(t, f) = 0
  BY <1>1 DEF Own, Ind, Eq
<1>3. ASSUME NEW a, t.closing = <<a>>
      PROVE  /\ t.pc = "pipefd" => Own(t, f) = Eq(t.f, f) + Eq(a, f)
             /\ t.pc = "close" => Own(t, f) = Eq(a, f)
             /\ t.pc = "closed" => Own(t, f) = 0
  BY <1>1, <1>3 DEF Own, Ind, Eq
<1>4. ASSUME NEW a, NEW b, t.closing = <<a, b>>
      PROVE  /\ t.pc = "close" => Own(t, f) = Eq(a, f) + Eq(b, f)
             /\ t.pc = "closed" => Own(t, f) = Eq(b, f)
  BY <1>1, <1>4 DEF Own, Ind, Eq
<1> QED
  BY <1>2, <1>3, <1>4 DEF OwnFacts
-----------------------------------------------------------------------------
(* What a step may do to the files when process p takes it.                *)
FilesKept(p) ==
  /\ file' \in [File -> FileRecord]
  /\ \A f \in File : Record(file'[f])
  /\ \A q \in Proc \ {p} : FreshFor(st[q], file')
  /\ \A f \in File : file'[f].type = "FD_NONE" /\ file[f].type # "FD_NONE" =>
       \A q \in Proc : \A d \in Fd : ofile[q][d] # f

TableTyped == /\ ofile' \in [Proc -> [Fd -> File \cup {None}]]
         /\ iref' \in [Inode -> Nat]
         /\ pipe' \in [PipePage -> SUBSET {"read", "write"}]

(* Where p may go.                                                         *)
Goes(p, t) ==
  /\ Shape(t) /\ FreshFor(t, file') /\ DescsFor(t, ofile'[p], file')
  /\ t.pc = "fork" => st[p].pc = "fork" /\ t.child = st[p].child /\ t.i >= st[p].i
  /\ t.pc \in Filling => (st[p].pc \in Filling /\ t.f = st[p].f) \/ file[t.f].ref = 0

(* Only fork() sets a descriptor of another process, of its child.         *)
GivesTo(p, t, q) ==
  /\ st[p].pc = "fork" /\ q = st[p].child /\ DescsFor(st[q], ofile'[q], file')
  /\ t.pc = "fork" /\ \A d \in Fd : d >= t.i => ofile'[q][d] = None

(* A step of one process.                                                  *)
LEMMA StepKeeps ==
  ASSUME FileConstants, FilesInv, NEW p \in Proc, NEW t, Become(p, t), st[p].pc # "child",
         FilesKept(p), TableTyped, Goes(p, t),
         \A q \in Proc \ {p} : ofile'[q] = ofile[q] \/ GivesTo(p, t, q),
         RefExact', ObjectsExact'
  PROVE  FilesInv'
<1>0. /\ st \in [Proc -> Local] /\ ofile \in [Proc -> [Fd -> File \cup {None}]]
      /\ file \in [File -> FileRecord]
  BY DEF FilesInv, TypeOK
<1>1. st'[p] = t /\ \A q \in Proc : q # p => st'[q] = st[q]
  BY <1>0 DEF Become
<1>2. TypeOK'
  <2>1. t \in Local
    BY DEF Goes, Shape
  <2>2. st' \in [Proc -> Local]
    BY <1>0, <2>1 DEF Become
  <2> QED
    BY <2>2 DEF TypeOK, TableTyped, FilesKept, Record
<1>3. \A q \in Proc : Shape(st'[q]) /\ FreshFor(st'[q], file')
  BY <1>1 DEF FilesInv, FilesKept, Goes
<1>4. ASSUME NEW q \in Proc PROVE DescsFor(st'[q], ofile'[q], file')
  <2>1. CASE q = p
    BY <1>1, <2>1 DEF Goes
  <2>3. CASE q # p /\ GivesTo(p, t, q)
    BY <1>1, <2>3 DEF GivesTo
  <2>2. CASE q # p /\ ofile'[q] = ofile[q]
    <3>1. DescsFor(st[q], ofile[q], file) /\ ofile'[q] = ofile[q] /\ st'[q] = st[q]
      BY <1>1, <2>2 DEF FilesInv
    <3>2. \A d \in Fd : ofile[q][d] # None => ofile[q][d] \in File
      BY <1>0
    <3>3. \A d \in Fd : ofile[q][d] # None /\ file'[ofile[q][d]].type = "FD_NONE" =>
                                file[ofile[q][d]].type = "FD_NONE"
      BY <3>2 DEF FilesKept
    <3> QED
      BY <3>1, <3>3 DEF DescsFor
  <2> QED
    BY <2>1, <2>2, <2>3
<1>5. ASSUME NEW q \in Proc PROVE ForkFor(q, st', ofile')
  <2>0. SUFFICES ASSUME st'[q].pc = "fork" PROVE ForkFor(q, st', ofile')
    BY DEF ForkFor
  <2>1. \A x \in Proc : st'[x].pc = "fork" => st[x].pc = "fork" /\ st'[x].child = st[x].child
    BY <1>1 DEF Goes
  <2>2. st[q].pc = "fork" /\ st'[q].child = st[q].child /\ ForkFor(q, st, ofile)
    BY <2>0, <2>1 DEF FilesInv
  <2> DEFINE c == st[q].child
  <2>3. /\ c \in Proc \ {q} /\ st[c].pc = "child" /\ c # p
        /\ \A x \in Proc : x # q /\ st[x].pc = "fork" => st[x].child # c
        /\ \A d \in Fd : d >= st[q].i => ofile[c][d] = None
    BY <2>2 DEF ForkFor
  <2>4. st'[q].i >= st[q].i /\ st'[q].i \in Int /\ st[q].i \in Int
    <3>1. st'[q] \in Local /\ st[q] \in Local
      BY <1>2, <1>0 DEF TypeOK
    <3>2. st'[q].i \in 0 .. NOFILE /\ st[q].i \in 0 .. NOFILE
      BY <3>1 DEF Local
    <3> QED
      BY <3>2, <1>1, FileSets, <2>0 DEF Goes
  <2>5. st'[c] = st[c]
    BY <2>3, <1>1
  <2>6. \A d \in Fd : d >= st'[q].i => ofile'[c][d] = None
    <3>1. CASE ofile'[c] = ofile[c]
      <4> HIDE DEF c
      <4> QED
        BY <2>3, <2>4, <3>1, FileSets
    <3>2. CASE GivesTo(p, t, c)
      <4>1. q = p
        BY <2>3, <3>2 DEF GivesTo
      <4> QED
        BY <1>1, <3>2, <4>1 DEF GivesTo
    <3> QED
      BY <2>3, <3>1, <3>2
  <2> HIDE DEF c
  <2> QED
    BY <2>1, <2>2, <2>3, <2>5, <2>6 DEF ForkFor, c
<1>6. Separate(st')
  <2>1. ASSUME NEW x \in Proc, NEW y \in Proc, x # y, st'[x].pc \in Filling, st'[y].pc \in Filling,
               st'[x].f = st'[y].f
        PROVE  FALSE
    <3>0. \A q \in Proc : q # p /\ st[q].pc \in Filling => file[st[q].f].ref = 1
      BY DEF FilesInv, FreshFor, NewFile, Closed
    <3>1. CASE x # p /\ y # p
      BY <1>1, <2>1, <3>1 DEF FilesInv, Separate
    <3>2. CASE x = p
      BY <1>1, <2>1, <3>0, <3>2 DEF FilesInv, Separate, Goes
    <3>3. CASE y = p
      BY <1>1, <2>1, <3>0, <3>3 DEF FilesInv, Separate, Goes
    <3> QED
      BY <3>1, <3>2, <3>3
  <2> QED
    BY <2>1 DEF Separate
<1> QED
  BY <1>2, <1>3, <1>4, <1>5, <1>6 DEF FilesInv, FilesKept
-----------------------------------------------------------------------------
(* The counts after a step.                                                *)
NamedGain(f) == Cardinality(Named(ofile', f)) - Cardinality(Named(ofile, f))
FilesGain(obj, W) == Cardinality(ByFiles(file', obj, W)) - Cardinality(ByFiles(file, obj, W))
CallsGain(p, t, obj, W) == CallPart(t, obj, W) - CallPart(st[p], obj, W)

(* f->ref goes with the references.                                        *)
LEMMA CountsStep ==
  ASSUME FileConstants, FilesInv, NEW p \in Proc, NEW t, Become(p, t),
         \A f \in File :
           file'[f].ref = file[f].ref + NamedGain(f) + (Own(t, f) - Own(st[p], f))
  PROVE  RefExact'
<1>1. Moves(p, t)
  BY Moved
<1>2. ASSUME NEW f \in File PROVE file'[f].ref = References(f)'
  <2>1. file[f].ref = Cardinality(Named(ofile, f)) + Calls(st, f)
    BY RefsAre DEF FilesInv, RefExact
  <2>2. References(f)' = Cardinality(Named(ofile', f)) + Calls(st', f)
    BY RefsAre
  <2>3. Calls(st', f) = Calls(st, f) + Own(t, f) - Own(st[p], f) /\ Calls(st, f) \in Int
    BY <1>1 DEF Moves
  <2>4. Own(t, f) \in Int /\ Own(st[p], f) \in Int
    BY DEF Own, Ind
  <2>5. Cardinality(Named(ofile, f)) \in Nat /\ Cardinality(Named(ofile', f)) \in Nat
    BY RefsFinite, FS_CardinalityType
  <2> QED
    BY <2>1, <2>2, <2>3, <2>4, <2>5 DEF NamedGain
<1> QED
  BY <1>2 DEF RefExact

(* What a step does to inodes and pipes goes with what holds them.         *)
ObjectsGo(p, t) ==
  /\ \A i \in Inode : iref'[i] = iref[i]
                                   + (FilesGain(i, BOOLEAN) + CallsGain(p, t, i, BOOLEAN))
                                   + (OpenPart(t, i) - OpenPart(st[p], i))
  /\ \A q \in PipePage : \A wr \in BOOLEAN :
       (IF End(wr) \in pipe'[q] THEN 1 ELSE 0) = (IF End(wr) \in pipe[q] THEN 1 ELSE 0)
          + (FilesGain(q, {wr}) + CallsGain(p, t, q, {wr}))

(* That is enough.                                                         *)
LEMMA ObjectsStep ==
  ASSUME FileConstants, FilesInv, NEW p \in Proc, NEW t, Become(p, t), ObjectsGo(p, t)
  PROVE  ObjectsExact'
<1>1. Moves(p, t)
  BY Moved
<1>0. \A obj, W, i : /\ Cardinality(ByFiles(file, obj, W)) \in Int
                     /\ Cardinality(ByFiles(file', obj, W)) \in Int
                     /\ Cardinality(ByCalls(st, obj, W)) \in Int
                     /\ Cardinality(ByOpens(st, i)) \in Int
                     /\ CallPart(t, obj, W) \in Int /\ CallPart(st[p], obj, W) \in Int
                     /\ OpenPart(t, i) \in Int /\ OpenPart(st[p], i) \in Int
  <2>1. \A obj, W, i : /\ Cardinality(ByFiles(file, obj, W)) \in Int
                     /\ Cardinality(ByFiles(file', obj, W)) \in Int
                     /\ Cardinality(ByCalls(st, obj, W)) \in Int
                     /\ Cardinality(ByOpens(st, i)) \in Int
    BY HoldersFinite
  <2>2. \A obj, W, i : /\ CallPart(t, obj, W) \in Int /\ CallPart(st[p], obj, W) \in Int
                     /\ OpenPart(t, i) \in Int /\ OpenPart(st[p], i) \in Int
    BY DEF CallPart, OpenPart, Ind
  <2> QED
    BY <2>1, <2>2, Zenon
<1>2. ASSUME NEW i \in Inode
      PROVE  iref'[i] = Holders(i, BOOLEAN)' + Cardinality(ByOpens(st', i))
  <2>1. /\ iref[i] = Holders(i, BOOLEAN) + Cardinality(ByOpens(st, i))
        /\ Holders(i, BOOLEAN) =
             Cardinality(ByFiles(file, i, BOOLEAN)) + Cardinality(ByCalls(st, i, BOOLEAN))
        /\ Holders(i, BOOLEAN)' =
             Cardinality(ByFiles(file', i, BOOLEAN)) + Cardinality(ByCalls(st', i, BOOLEAN))
    BY HoldersAre, Zenon DEF FilesInv, ObjectsExact, ByOpens
  <2>2. /\ Cardinality(ByCalls(st', i, BOOLEAN)) = Cardinality(ByCalls(st, i, BOOLEAN))
             + CallPart(t, i, BOOLEAN) - CallPart(st[p], i, BOOLEAN)
        /\ Cardinality(ByOpens(st', i)) = Cardinality(ByOpens(st, i))
             + OpenPart(t, i) - OpenPart(st[p], i)
    BY <1>1, Zenon DEF Moves
  <2>3. iref'[i] = iref[i]
                                   + (FilesGain(i, BOOLEAN) + CallsGain(p, t, i, BOOLEAN))
                                   + (OpenPart(t, i) - OpenPart(st[p], i))
    BY Zenon DEF ObjectsGo
  <2> QED
    BY <1>0, <2>1, <2>2, <2>3 DEF FilesGain, CallsGain
<1>3. ASSUME NEW q \in PipePage, NEW wr \in BOOLEAN
      PROVE  Holders(q, {wr})' = IF End(wr) \in pipe'[q] THEN 1 ELSE 0
  <2>1. /\ Holders(q, {wr}) = IF End(wr) \in pipe[q] THEN 1 ELSE 0
        /\ Holders(q, {wr}) =
             Cardinality(ByFiles(file, q, {wr})) + Cardinality(ByCalls(st, q, {wr}))
        /\ Holders(q, {wr})' =
             Cardinality(ByFiles(file', q, {wr})) + Cardinality(ByCalls(st', q, {wr}))
    BY HoldersAre, Zenon DEF FilesInv, ObjectsExact
  <2>2. Cardinality(ByCalls(st', q, {wr})) = Cardinality(ByCalls(st, q, {wr}))
             + CallPart(t, q, {wr}) - CallPart(st[p], q, {wr})
    BY <1>1, Zenon DEF Moves
  <2>3. (IF End(wr) \in pipe'[q] THEN 1 ELSE 0) = (IF End(wr) \in pipe[q] THEN 1 ELSE 0)
          + (FilesGain(q, {wr}) + CallsGain(p, t, q, {wr}))
    BY Zenon DEF ObjectsGo
  <2>4. /\ Cardinality(ByFiles(file, q, {wr})) \in Int
       /\ Cardinality(ByFiles(file', q, {wr})) \in Int
        /\ Cardinality(ByCalls(st, q, {wr})) \in Int
        /\ CallPart(t, q, {wr}) \in Int /\ CallPart(st[p], q, {wr}) \in Int
    BY <1>0, Zenon
  <2> QED
    BY <2>4, <2>1, <2>2, <2>3 DEF FilesGain, CallsGain
<1> QED
  BY <1>2, <1>3, Zenon DEF ObjectsExact, ByOpens
-----------------------------------------------------------------------------
(* The sequences that a process may be about to close.                     *)
LEMMA ClosingIs ==
  ASSUME NEW f \in File, NEW g \in File
  PROVE  /\ << >> \in UNION {[1 .. n -> File] : n \in 0 .. 2}
         /\ <<f>> \in UNION {[1 .. n -> File] : n \in 0 .. 2}
         /\ <<f, g>> \in UNION {[1 .. n -> File] : n \in 0 .. 2}
<1>1. << >> \in [1 .. 0 -> File] /\ <<f>> \in [1 .. 1 -> File]
       /\ <<f, g>> \in [1 .. 2 -> File]
  OBVIOUS
<1>2. 0 \in 0 .. 2 /\ 1 \in 0 .. 2 /\ 2 \in 0 .. 2
  OBVIOUS
<1> QED
  BY <1>1, <1>2

(* No sequence.                                                            *)
LEMMA ClosingNone == << >> \in UNION {[1 .. n -> File] : n \in 0 .. 2}
<1>1. << >> \in [1 .. 0 -> File]
  OBVIOUS
<1>2. 0 \in 0 .. 2
  OBVIOUS
<1> QED
  BY <1>1, <1>2

(* The fields of a process in user code, and of one that is not in use.    *)
LEMMA UserIs ==
  ASSUME FileConstants
  PROVE  /\ User \in Local /\ Nowhere \in Local
         /\ User.pc = "user" /\ User.ip = None /\ User.f = None /\ User.ff = None
         /\ User.closing = << >> /\ User.after = "user" /\ User.child = None
         /\ User.i = 0
         /\ Nowhere.pc = "none" /\ Nowhere.ip = None /\ Nowhere.f = None
         /\ Nowhere.ff = None /\ Nowhere.closing = << >> /\ Nowhere.after = "user"
         /\ Nowhere.child = None /\ Nowhere.i = 0
<1> DEFINE C == UNION {[1 .. n -> File] : n \in 0 .. 2}
<1>1. << >> \in C /\ 0 \in 0 .. NOFILE
  BY ClosingNone, FileSets
<1>2. Local = [pc : Location, ip : Inode \cup {None}, f : File \cup {None},
          ff : FileRecord \cup {None}, closing : C, after : Location,
          child : Proc \cup {None}, i : 0 .. NOFILE]
  BY DEF Local
<1> HIDE DEF C
<1> QED
  BY <1>1, <1>2 DEF User, Nowhere, Location

(* The fields of any process.                                              *)
LEMMA LocalIs ==
  ASSUME NEW t \in Local
  PROVE  /\ t.pc \in Location /\ t.ip \in Inode \cup {None} /\ t.f \in File \cup {None}
         /\ t.ff \in FileRecord \cup {None} /\ t.after \in Location
         /\ t.child \in Proc \cup {None} /\ t.i \in 0 .. NOFILE
         /\ t = [pc |-> t.pc, ip |-> t.ip, f |-> t.f, ff |-> t.ff, closing |-> t.closing,
                 after |-> t.after, child |-> t.child, i |-> t.i]
  BY DEF Local
-----------------------------------------------------------------------------
(* The files stay.                                                         *)
LEMMA SameFiles ==
  ASSUME FileConstants, FilesInv, NEW p \in Proc, file' = file
  PROVE  FilesKept(p) /\ \A obj, W : FilesGain(obj, W) = 0
<1>1. FilesKept(p)
  BY DEF FilesInv, FilesKept, TypeOK
<1>2. \A obj, W : Cardinality(ByFiles(file, obj, W)) \in Nat
  BY HoldersFinite
<1> QED
  BY <1>1, <1>2 DEF FilesGain

(* The descriptors stay.                                                   *)
LEMMA SameNames ==
  ASSUME FileConstants, ofile' = ofile
  PROVE  \A f : NamedGain(f) = 0
<1>1. \A f : Cardinality(Named(ofile, f)) \in Nat
  BY RefsFinite, FS_CardinalityType
<1> QED
  BY <1>1 DEF NamedGain

(* Every open file has what it had.                                        *)
LEMMA SameHolds ==
  ASSUME FileConstants, \A f \in File :
           \/ file'[f] = file[f]
           \/ file[f].type = "FD_NONE" /\ file'[f].type = "FD_NONE"
           \/ /\ file[f].ref > 0 /\ file'[f].ref > 0 /\ file'[f].type = file[f].type
              /\ file'[f].obj = file[f].obj /\ file'[f].writable = file[f].writable
  PROVE  \A obj, W : FilesGain(obj, W) = 0
<1>1. ASSUME NEW obj, NEW W PROVE FilesGain(obj, W) = 0
  <2>1. ByFiles(file', obj, W) = ByFiles(file, obj, W)
    BY DEF ByFiles, FileHolds
  <2>2. Cardinality(ByFiles(file, obj, W)) \in Nat
    BY HoldersFinite
  <2> QED
    BY <2>1, <2>2 DEF FilesGain
<1> QED
  BY <1>1

(* Only a process in fileclose() holds an object by itself.                *)
LEMMA NoCall ==
  ASSUME NEW p, NEW t, st[p].pc # "closed", t.pc # "closed"
  PROVE  \A obj, W : CallsGain(p, t, obj, W) = 0
  BY DEF CallsGain, CallPart, CallHolds, Ind

(* Inodes and pipes stay.                                                  *)
LEMMA SameObjects ==
  ASSUME FilesInv, NEW p \in Proc, NEW t, iref' = iref, pipe' = pipe, t.ip = st[p].ip,
         \A obj, W : FilesGain(obj, W) = 0, st[p].pc # "closed", t.pc # "closed"
  PROVE  ObjectsGo(p, t)
<1>1. \A obj, W : CallsGain(p, t, obj, W) = 0
  BY NoCall
<1>2. \A i : OpenPart(t, i) - OpenPart(st[p], i) = 0
  BY DEF OpenPart, Ind
<1>3. \A i \in Inode : iref[i] \in Int
  BY DEF FilesInv, TypeOK
<1>4. \A i \in Inode : iref'[i] = iref[i]
                                   + (FilesGain(i, BOOLEAN) + CallsGain(p, t, i, BOOLEAN))
                                   + (OpenPart(t, i) - OpenPart(st[p], i))
  BY <1>1, <1>2, <1>3
<1>5. \A q \in PipePage : \A wr \in BOOLEAN :
       (IF End(wr) \in pipe'[q] THEN 1 ELSE 0) = (IF End(wr) \in pipe[q] THEN 1 ELSE 0)
          + (FilesGain(q, {wr}) + CallsGain(p, t, q, {wr}))
  BY <1>1
<1> QED
  BY <1>4, <1>5 DEF ObjectsGo

(* The counts of a step that leaves files and descriptors alone.           *)
LEMMA SameCounts ==
  ASSUME FileConstants, FilesInv, NEW p \in Proc, NEW t, Become(p, t), file' = file, ofile' = ofile,
         \A f \in File : Own(t, f) = Own(st[p], f)
  PROVE  RefExact'
<1>1. \A f \in File : Own(t, f) - Own(st[p], f) = 0 /\ file[f].ref \in Int
  BY DEF Own, Ind, FilesInv, Record, FileRecord
<1>2. \A f : NamedGain(f) = 0
  BY SameNames
<1> QED
  BY <1>1, <1>2, CountsStep
-----------------------------------------------------------------------------
(* sys_open() has the inode.                                               *)
LEMMA SysOpenKeeps ==
  ASSUME FileConstants, FilesInv, NEW p \in Proc, NEW i \in Inode, sys_open(p, i)
  PROVE  FilesInv'
<1> DEFINE t == [User EXCEPT !.pc = "open", !.ip = i]
<1>1. /\ Become(p, t) /\ file' = file /\ ofile' = ofile /\ pipe' = pipe
      /\ iref' = [iref EXCEPT ![i] = @ + 1] /\ st[p].pc = "user"
  BY DEF sys_open, At
<1>2. st[p] = User
  BY <1>1 DEF FilesInv, Shape
<1>3. /\ t \in Local /\ t.pc = "open" /\ t.ip = i /\ t.f = None /\ t.ff = None
      /\ t.closing = << >>
  BY UserIs, Zenon DEF User, Nowhere, Local, Location
<1> HIDE DEF t
<1>4. TableTyped /\ FilesKept(p) /\ \A obj, W : FilesGain(obj, W) = 0
  BY <1>1, SameFiles DEF FilesInv, TypeOK, TableTyped
<1>5. Goes(p, t)
  BY <1>1, <1>2, <1>3, UserIs DEF Goes, Shape, FreshFor, DescsFor, Filling, FilesInv
<1>6. RefExact'
  <2>1. \A f \in File : Own(t, f) = 0 /\ Own(st[p], f) = 0
    BY <1>2, <1>3, UserIs, OwnIs DEF OwnFacts
  <2> QED
    BY <1>1, <2>1, SameCounts
<1>7. ObjectsGo(p, t)
  <2>1. \A obj, W : CallsGain(p, t, obj, W) = 0
    BY <1>1, <1>3, NoCall
  <2>2. ASSUME NEW j \in Inode
        PROVE  iref'[j] = iref[j] + (FilesGain(j, BOOLEAN) + CallsGain(p, t, j, BOOLEAN))
                                   + (OpenPart(t, j) - OpenPart(st[p], j))
    <3>1. OpenPart(t, j) = (IF i = j THEN 1 ELSE 0) /\ OpenPart(st[p], j) = 0
      BY <1>2, <1>3, UserIs, FileSets DEF OpenPart, Ind
    <3>2. iref'[j] = iref[j] + (IF i = j THEN 1 ELSE 0) /\ iref[j] \in Int
      BY <1>1 DEF FilesInv, TypeOK
    <3> QED
      BY <1>4, <2>1, <3>1, <3>2
  <2>3. \A q \in PipePage : \A wr \in BOOLEAN :
       (IF End(wr) \in pipe'[q] THEN 1 ELSE 0) = (IF End(wr) \in pipe[q] THEN 1 ELSE 0)
          + (FilesGain(q, {wr}) + CallsGain(p, t, q, {wr}))
    BY <1>1, <1>4, <2>1
  <2> QED
    BY <2>2, <2>3 DEF ObjectsGo
<1>8. ObjectsExact'
  BY <1>1, <1>7, ObjectsStep
<1> QED
  BY <1>1, <1>4, <1>5, <1>6, <1>8, StepKeeps

(* A step of a process that changes nothing but where it is.               *)
LEMMA WalkKeeps ==
  ASSUME FileConstants, FilesInv, NEW p \in Proc, NEW t, Become(p, t),
         UNCHANGED <<file, ofile, iref, pipe>>,
         \A f \in File : Own(t, f) = Own(st[p], f), st[p].pc \notin {"child", "closed"},
         t.pc # "closed", t.ip = st[p].ip, Goes(p, t)
  PROVE  FilesInv'
<1>1. TableTyped /\ FilesKept(p) /\ \A obj, W : FilesGain(obj, W) = 0
  BY SameFiles DEF FilesInv, TypeOK, TableTyped
<1>2. RefExact'
  BY SameCounts
<1>3. ObjectsExact'
  BY <1>1, SameObjects, ObjectsStep
<1> QED
  BY <1>1, <1>2, <1>3, StepKeeps
-----------------------------------------------------------------------------
(* fileread() finds a file with a type.                                    *)
LEMMA FileReadKeeps ==
  ASSUME FileConstants, FilesInv, NEW p \in Proc, NEW d \in Fd, fileread(p, d)
  PROVE  FilesInv'
<1> DEFINE t == [User EXCEPT !.pc = "use", !.f = ofile[p][d]]
<1>1. /\ st[p].pc = "user" /\ ofile[p][d] # None /\ UNCHANGED <<file, ofile, iref, pipe>>
  BY DEF fileread, At
<1>2. st[p] = User /\ ofile[p][d] \in File
  BY <1>1 DEF FilesInv, Shape, TypeOK
<1>3. file[ofile[p][d]].type # "FD_NONE"
  BY <1>1 DEF FilesInv, DescsFor
<1>4. Become(p, t)
  BY <1>3 DEF fileread
<1>5. /\ t \in Local /\ t.pc = "use" /\ t.ip = None /\ t.f = ofile[p][d] /\ t.ff = None
      /\ t.closing = << >>
  BY <1>2, UserIs, Zenon DEF User, Nowhere, Local, Location
<1> HIDE DEF t
<1>6. Goes(p, t)
  <2>1. DescsFor(st[p], ofile[p], file)
    BY DEF FilesInv
  <2> QED
    BY <1>1, <1>2, <1>5, <2>1, FileSets DEF Goes, Shape, FreshFor, DescsFor, Filling
<1>7. \A f \in File : Own(t, f) = Own(st[p], f)
  BY <1>2, <1>5, UserIs, OwnIs DEF OwnFacts
<1> QED
  BY <1>1, <1>2, <1>4, <1>5, <1>6, <1>7, UserIs, WalkKeeps

(* It returns.                                                             *)
LEMMA FileReadDoneKeeps ==
  ASSUME FileConstants, FilesInv, NEW p \in Proc, filereadDone(p)
  PROVE  FilesInv'
<1> DEFINE t == User
<1>1. /\ st[p].pc = "use" /\ Become(p, t) /\ UNCHANGED <<file, ofile, iref, pipe>>
  BY DEF filereadDone, At
<1>2. Shape(st[p]) /\ DescsFor(st[p], ofile[p], file)
  BY DEF FilesInv
<1>6. Goes(p, t)
  BY <1>1, <1>2, UserIs, FileSets DEF Goes, Shape, FreshFor, DescsFor, Filling
<1>7. \A f \in File : Own(t, f) = Own(st[p], f)
  BY <1>1, <1>2, UserIs, OwnIs DEF OwnFacts, Shape
<1>8. t.ip = st[p].ip /\ t.pc # "closed"
  BY <1>1, <1>2, UserIs DEF Shape
<1> QED
  BY <1>1, <1>6, <1>7, <1>8, WalkKeeps

(* fileclose() returns to its caller.                                      *)
LEMMA FileCloseDoneKeeps ==
  ASSUME FileConstants, FilesInv, NEW p \in Proc, filecloseDone(p)
  PROVE  FilesInv'
<1> DEFINE t == IF st[p].after = "user" THEN User ELSE [st[p] EXCEPT !.pc = st[p].after]
<1>1. /\ st[p].pc = "close" /\ st[p].closing = << >> /\ Become(p, t)
      /\ UNCHANGED <<file, ofile, iref, pipe>>
  BY DEF filecloseDone, At
<1>2. Shape(st[p]) /\ DescsFor(st[p], ofile[p], file) /\ st[p] \in Local
  BY DEF FilesInv, Shape
<1>3. \A f \in File : Own(st[p], f) = 0
  BY <1>1, OwnIs DEF OwnFacts
<1>4. CASE st[p].after = "user"
  <2>1. t = User /\ st[p].ip = None
    BY <1>1, <1>2, <1>4, LocalIs DEF Shape
  <2>2. Goes(p, t)
    BY <1>1, <1>2, <2>1, UserIs, FileSets DEF Goes, Shape, FreshFor, DescsFor, Filling
  <2>3. \A f \in File : Own(t, f) = 0
    BY <2>1, UserIs, OwnIs DEF OwnFacts
  <2>4. t.ip = st[p].ip /\ t.pc # "closed"
    BY <2>1, UserIs, Zenon
  <2> HIDE DEF t
  <2> QED
    BY <1>1, <1>3, <2>2, <2>3, <2>4, WalkKeeps
<1>5. CASE st[p].after # "user"
  <2>1. /\ t = [st[p] EXCEPT !.pc = st[p].after] /\ st[p].after \in {"openfail", "exit"}
        /\ t \in Local /\ t.pc = st[p].after /\ t.ip = st[p].ip /\ t.f = st[p].f
        /\ t.ff = st[p].ff /\ t.closing = << >> /\ t.after = st[p].after /\ t.i = st[p].i
        /\ st[p].f = None /\ st[p].ff = None
        /\ t.pc = "openfail" => t.ip \in Inode
        /\ t.pc = "exit" => t.ip = None
    BY <1>1, <1>2, <1>5 DEF Shape, Local, Location
  <2> HIDE DEF t
  <2>2. Goes(p, t)
    <3>1. Shape(t)
      BY <2>1 DEF Shape
    <3>2. DescsFor(t, ofile'[p], file')
      BY <1>1, <1>2, <2>1 DEF DescsFor
    <3> QED
      BY <2>1, <3>1, <3>2 DEF Goes, FreshFor, Filling
  <2>3. \A f \in File : Own(t, f) = 0
    BY <2>1, OwnIs, Zenon DEF OwnFacts
  <2>4. t.pc # "closed"
    BY <2>1
  <2> QED
    BY <1>1, <1>3, <2>1, <2>2, <2>3, <2>4, WalkKeeps, Zenon
<1> QED
  BY <1>4, <1>5

(* exit() begins.                                                          *)
LEMMA ExitKeeps ==
  ASSUME FileConstants, FilesInv, NEW p \in Proc, exit(p)
  PROVE  FilesInv'
<1> DEFINE t == [User EXCEPT !.pc = "exit"]
<1>1. /\ st[p].pc = "user" /\ UNCHANGED <<file, ofile, iref, pipe>> /\ Become(p, t)
  BY DEF exit, At
<1>2. st[p] = User /\ DescsFor(st[p], ofile[p], file)
  BY <1>1 DEF FilesInv, Shape
<1>5. /\ t \in Local /\ t.pc = "exit" /\ t.ip = None /\ t.f = None /\ t.ff = None
      /\ t.closing = << >> /\ t.i = 0
  BY <1>2, UserIs, Zenon DEF User, Nowhere, Local, Location
<1> HIDE DEF t
<1>6. Goes(p, t)
  BY <1>1, <1>2, <1>5, FileSets DEF Goes, Shape, FreshFor, DescsFor, Filling
<1>7. \A f \in File : Own(t, f) = Own(st[p], f)
  BY <1>2, <1>5, UserIs, OwnIs DEF OwnFacts
<1> QED
  BY <1>1, <1>2, <1>5, <1>6, <1>7, UserIs, WalkKeeps

(* The process of an exit() has no descriptors left.                       *)
LEMMA ExitDoneKeeps ==
  ASSUME FileConstants, FilesInv, NEW p \in Proc, exitDone(p)
  PROVE  FilesInv'
<1> DEFINE t == Nowhere
<1>1. /\ st[p].pc = "exit" /\ st[p].i = NOFILE /\ Become(p, t)
      /\ UNCHANGED <<file, ofile, iref, pipe>>
  BY DEF exitDone, At
<1>2. Shape(st[p]) /\ DescsFor(st[p], ofile[p], file)
  BY DEF FilesInv
<1>3. \A d \in Fd : ofile[p][d] = None
  BY <1>1, <1>2, FileSets DEF DescsFor
<1>6. Goes(p, t)
  BY <1>1, <1>2, <1>3, UserIs, FileSets DEF Goes, Shape, FreshFor, DescsFor, Filling
<1>7. \A f \in File : Own(t, f) = Own(st[p], f)
  BY <1>1, <1>2, UserIs, OwnIs DEF OwnFacts, Shape
<1>8. t.ip = st[p].ip /\ t.pc # "closed"
  BY <1>1, <1>2, UserIs DEF Shape
<1> QED
  BY <1>1, <1>6, <1>7, <1>8, WalkKeeps
-----------------------------------------------------------------------------
(* An inode that a call of open() has, or a closed file had, is counted.   *)
LEMMA InodeHeld ==
  ASSUME FileConstants, FilesInv, NEW p \in Proc, NEW i \in Inode,
         st[p].ip = i \/ CallHolds(st[p], i, BOOLEAN)
         \/ \E f \in File : FileHolds(file[f], i, BOOLEAN)
  PROVE  iref[i] >= 1 /\ iref[i] \in Nat
<1>1. /\ iref[i] = Holders(i, BOOLEAN) + Cardinality(ByOpens(st, i))
      /\ Holders(i, BOOLEAN) =
             Cardinality(ByFiles(file, i, BOOLEAN)) + Cardinality(ByCalls(st, i, BOOLEAN))
  BY HoldersAre, Zenon DEF FilesInv, ObjectsExact, ByOpens
<1>2. /\ IsFiniteSet(ByFiles(file, i, BOOLEAN)) /\ IsFiniteSet(ByCalls(st, i, BOOLEAN))
      /\ IsFiniteSet(ByOpens(st, i))
  BY HoldersFinite, Zenon
<1>3. \/ p \in ByOpens(st, i) \/ p \in ByCalls(st, i, BOOLEAN)
      \/ \E f : f \in ByFiles(file, i, BOOLEAN)
  BY DEF ByOpens, ByCalls, ByFiles
<1>4. /\ Cardinality(ByFiles(file, i, BOOLEAN)) \in Nat
      /\ Cardinality(ByCalls(st, i, BOOLEAN)) \in Nat
      /\ Cardinality(ByOpens(st, i)) \in Nat
      /\ \/ Cardinality(ByFiles(file, i, BOOLEAN)) >= 1 \/ Cardinality(ByCalls(st, i, BOOLEAN)) >= 1
         \/ Cardinality(ByOpens(st, i)) >= 1
  BY <1>2, <1>3, CardAtLeast
<1> QED
  BY <1>1, <1>4

(* The end of a pipe that an open file or a closed one has is open.        *)
LEMMA EndHeld ==
  ASSUME FileConstants, FilesInv, NEW p \in Proc, NEW q \in PipePage, NEW wr \in BOOLEAN,
         CallHolds(st[p], q, {wr}) \/ \E f \in File : FileHolds(file[f], q, {wr})
  PROVE  End(wr) \in pipe[q]
<1>1. /\ Holders(q, {wr}) = (IF End(wr) \in pipe[q] THEN 1 ELSE 0)
      /\ Holders(q, {wr}) =
             Cardinality(ByFiles(file, q, {wr})) + Cardinality(ByCalls(st, q, {wr}))
  BY HoldersAre, Zenon DEF FilesInv, ObjectsExact
<1>2. /\ IsFiniteSet(ByFiles(file, q, {wr})) /\ IsFiniteSet(ByCalls(st, q, {wr}))
  BY HoldersFinite, Zenon
<1>3. p \in ByCalls(st, q, {wr}) \/ \E f : f \in ByFiles(file, q, {wr})
  BY DEF ByCalls, ByFiles
<1>4. /\ Cardinality(ByFiles(file, q, {wr})) \in Nat /\ Cardinality(ByCalls(st, q, {wr})) \in Nat
      /\ Cardinality(ByFiles(file, q, {wr})) >= 1 \/ Cardinality(ByCalls(st, q, {wr})) >= 1
  BY <1>2, <1>3, CardAtLeast
<1> QED
  BY <1>1, <1>4
-----------------------------------------------------------------------------
(* A failing open() puts the inode.                                        *)
LEMMA OpenFailKeeps ==
  ASSUME FileConstants, FilesInv, NEW p \in Proc, openFail(p)
  PROVE  FilesInv'
<1> DEFINE t == User
           i == st[p].ip
<1>1. /\ Become(p, t) /\ file' = file /\ ofile' = ofile /\ pipe' = pipe
      /\ iref' = [iref EXCEPT ![i] = @ - 1] /\ st[p].pc = "openfail"
  BY DEF openFail, At
<1>2. Shape(st[p]) /\ DescsFor(st[p], ofile[p], file) /\ i \in Inode
  BY <1>1 DEF FilesInv, Shape
<1> HIDE DEF i
<1>3. iref[i] >= 1 /\ iref[i] \in Nat
  BY <1>2, InodeHeld DEF i
<1>4. TableTyped /\ FilesKept(p) /\ \A obj, W : FilesGain(obj, W) = 0
  BY <1>1, <1>2, <1>3, SameFiles DEF FilesInv, TypeOK, TableTyped
<1>5. Goes(p, t)
  BY <1>1, <1>2, UserIs, FileSets DEF Goes, Shape, FreshFor, DescsFor, Filling
<1>6. RefExact'
  <2>1. \A f \in File : Own(t, f) = 0 /\ Own(st[p], f) = 0
    BY <1>1, <1>2, UserIs, OwnIs DEF OwnFacts, Shape
  <2> QED
    BY <1>1, <2>1, SameCounts
<1>7. ObjectsGo(p, t)
  <2>1. \A obj, W : CallsGain(p, t, obj, W) = 0
    BY <1>1, UserIs, NoCall, Zenon
  <2>2. ASSUME NEW j \in Inode
        PROVE  iref'[j] = iref[j] + (FilesGain(j, BOOLEAN) + CallsGain(p, t, j, BOOLEAN))
                                   + (OpenPart(t, j) - OpenPart(st[p], j))
    <3>1. OpenPart(st[p], j) = (IF i = j THEN 1 ELSE 0) /\ OpenPart(t, j) = 0
      BY UserIs, FileSets DEF OpenPart, Ind, i
    <3>2. iref'[j] = iref[j] - (IF i = j THEN 1 ELSE 0) /\ iref[j] \in Int
      BY <1>1 DEF FilesInv, TypeOK
    <3> QED
      BY <1>4, <2>1, <3>1, <3>2
  <2>3. \A q \in PipePage : \A wr \in BOOLEAN :
       (IF End(wr) \in pipe'[q] THEN 1 ELSE 0) = (IF End(wr) \in pipe[q] THEN 1 ELSE 0)
          + (FilesGain(q, {wr}) + CallsGain(p, t, q, {wr}))
    BY <1>1, <1>4, <2>1
  <2> QED
    BY <2>2, <2>3 DEF ObjectsGo
<1>8. ObjectsExact'
  BY <1>1, <1>7, ObjectsStep
<1> QED
  BY <1>1, <1>4, <1>5, <1>6, <1>8, StepKeeps
-----------------------------------------------------------------------------
(* The file that fileclose() works on, by the files it is called with.     *)
LEMMA ClosingCases ==
  ASSUME NEW t, Shape(t), t.closing # << >>
  PROVE  \E a \in File :
           /\ Head(t.closing) = a
           /\ \/ t.closing = <<a>> /\ Tail(t.closing) = << >>
              \/ \E b \in File : t.closing = <<a, b>> /\ Tail(t.closing) = <<b>>
<1>1. (\E f \in File : t.closing = <<f>>) \/ (\E f, g \in File : t.closing = <<f, g>>)
  BY DEF Shape
<1>2. ASSUME NEW f \in File, t.closing = <<f>>
      PROVE  Head(t.closing) = f /\ Tail(t.closing) = << >>
  BY <1>2, Tuples
<1>3. ASSUME NEW f \in File, NEW g \in File, t.closing = <<f, g>>
      PROVE  Head(t.closing) = f /\ Tail(t.closing) = <<g>>
  BY <1>3, Tuples
<1> QED
  BY <1>1, <1>2, <1>3, Zenon

(* The rest of fileclose(): the inode is put, or the end is closed.        *)
LEMMA CloseObjectKeeps ==
  ASSUME FileConstants, FilesInv, NEW p \in Proc, filecloseObject(p)
  PROVE  FilesInv'
<1> DEFINE t == [st[p] EXCEPT !.pc = "close", !.closing = Tail(@), !.ff = None]
           ff == st[p].ff
<1>1. /\ Become(p, t) /\ file' = file /\ ofile' = ofile /\ st[p].pc = "closed"
      /\ iref' = IF ff.type = "FD_INODE" THEN [iref EXCEPT ![ff.obj] = @ - 1] ELSE iref
      /\ pipe' = IF ff.type = "FD_PIPE" THEN [pipe EXCEPT ![ff.obj] = @ \ {End(ff.writable)}]
                 ELSE pipe
  BY DEF filecloseObject, At
<1>2. /\ Shape(st[p]) /\ FreshFor(st[p], file) /\ DescsFor(st[p], ofile[p], file)
      /\ st[p] \in Local
  BY DEF FilesInv, Shape
<1>3. st[p].closing # << >> /\ ff \in FileRecord /\ Record(ff) /\ ff.ref = 1
  BY <1>1, <1>2 DEF Shape, FreshFor
<1>4. PICK a \in File :
        \/ st[p].closing = <<a>> /\ Tail(st[p].closing) = << >>
        \/ \E b \in File : st[p].closing = <<a, b>> /\ Tail(st[p].closing) = <<b>>
  BY <1>2, <1>3, ClosingCases
<1>5. /\ t.pc = "close" /\ t.ip = st[p].ip /\ t.f = st[p].f /\ t.ff = None
      /\ t.closing = Tail(st[p].closing) /\ t.after = st[p].after /\ t.i = st[p].i
      /\ t.child = st[p].child
  BY <1>2 DEF Local
<1>6. t.closing = << >> \/ \E b \in File : t.closing = <<b>>
  BY <1>4, <1>5
<1>7. t \in Local
  <2> DEFINE C == UNION {[1 .. n -> File] : n \in 0 .. 2}
  <2>1. t.closing \in C
    BY <1>6, ClosingIs, ClosingNone
  <2>2. Local = [pc : Location, ip : Inode \cup {None}, f : File \cup {None},
          ff : FileRecord \cup {None}, closing : C, after : Location,
          child : Proc \cup {None}, i : 0 .. NOFILE]
    BY DEF Local
  <2> HIDE DEF C
  <2> QED
    BY <1>2, <1>5, <2>1, <2>2, Zenon DEF Location
<1> HIDE DEF t, ff
<1>8. /\ ff.type = "FD_INODE" => ff.obj \in Inode /\ iref[ff.obj] >= 1
      /\ ff.type = "FD_PIPE" => ff.obj \in PipePage /\ End(ff.writable) \in pipe[ff.obj]
  <2>1. ff.writable \in BOOLEAN
    BY <1>3 DEF FileRecord
  <2>2. ASSUME ff.type = "FD_INODE" PROVE ff.obj \in Inode /\ iref[ff.obj] >= 1
    <3>1. ff.obj \in Inode
      BY <2>2, <1>3 DEF Record
    <3>2. CallHolds(st[p], ff.obj, BOOLEAN)
      BY <1>1, <2>1, <2>2 DEF CallHolds, ff
    <3> QED
      BY <3>1, <3>2, InodeHeld
  <2>3. ASSUME ff.type = "FD_PIPE"
        PROVE  ff.obj \in PipePage /\ End(ff.writable) \in pipe[ff.obj]
    <3>1. ff.obj \in PipePage
      BY <2>3, <1>3 DEF Record
    <3>2. CallHolds(st[p], ff.obj, {ff.writable})
      BY <1>1, <2>1, <2>3 DEF CallHolds, ff
    <3> QED
      BY <2>1, <3>1, <3>2, EndHeld, Zenon
  <2> QED
    BY <2>2, <2>3
<1>9. FilesKept(p) /\ \A obj, W : FilesGain(obj, W) = 0
  BY <1>1, SameFiles
<1>10. TableTyped
  <2>1. iref \in [Inode -> Nat] /\ pipe \in [PipePage -> SUBSET {"read", "write"}]
        /\ ofile \in [Proc -> [Fd -> File \cup {None}]]
    BY DEF FilesInv, TypeOK
  <2>2. iref' \in [Inode -> Nat]
    BY <1>1, <1>8, <2>1
  <2>3. pipe' \in [PipePage -> SUBSET {"read", "write"}]
    BY <1>1, <1>8, <2>1
  <2> QED
    BY <1>1, <2>1, <2>2, <2>3 DEF TableTyped
<1>11. Goes(p, t)
  <2>1. Shape(t)
    BY <1>1, <1>2, <1>5, <1>6, <1>7 DEF Shape
  <2>2. DescsFor(t, ofile'[p], file')
    BY <1>1, <1>2, <1>5 DEF DescsFor
  <2> QED
    BY <1>5, <2>1, <2>2 DEF Goes, FreshFor, Filling
<1>12. RefExact'
  <2>1. ASSUME NEW f \in File PROVE Own(t, f) = Own(st[p], f)
    <3>1. OwnFacts(t, f) /\ OwnFacts(st[p], f)
      BY OwnIs
    <3>2. CASE st[p].closing = <<a>> /\ t.closing = << >>
      BY <1>1, <1>5, <3>1, <3>2 DEF OwnFacts
    <3>3. ASSUME NEW b, st[p].closing = <<a, b>>, t.closing = <<b>>
          PROVE  Own(t, f) = Own(st[p], f)
      BY <1>1, <1>5, <3>1, <3>3 DEF OwnFacts
    <3> QED
      BY <1>4, <1>5, <3>2, <3>3
  <2> QED
    BY <1>1, <2>1, SameCounts
<1>13. \A obj, W : CallsGain(p, t, obj, W) =
          0 - (IF ff.type # "FD_NONE" /\ ff.obj = obj /\ ff.writable \in W THEN 1 ELSE 0)
  BY <1>1, <1>5 DEF CallsGain, CallPart, CallHolds, Ind, ff
<1>14. ASSUME NEW j \in Inode
       PROVE  iref'[j] = iref[j] + (FilesGain(j, BOOLEAN) + CallsGain(p, t, j, BOOLEAN))
                                   + (OpenPart(t, j) - OpenPart(st[p], j))
  <2>1. OpenPart(t, j) - OpenPart(st[p], j) = 0
    BY <1>5 DEF OpenPart, Ind
  <2>2. iref \in [Inode -> Nat] /\ iref[j] \in Int
    BY DEF FilesInv, TypeOK
  <2>3. ff.type \in {"FD_NONE", "FD_PIPE", "FD_INODE"} /\ ff.writable \in BOOLEAN
    BY <1>3 DEF FileRecord
  <2>4. CallsGain(p, t, j, BOOLEAN) = IF ff.type = "FD_INODE" /\ ff.obj = j THEN -1 ELSE 0
    BY <1>8, <1>13, <2>3, FileSets
  <2>5. iref'[j] = iref[j] + IF ff.type = "FD_INODE" /\ ff.obj = j THEN -1 ELSE 0
    BY <1>1, <2>2
  <2> QED
    BY <1>9, <2>1, <2>2, <2>4, <2>5
<1>15. ASSUME NEW q \in PipePage, NEW wr \in BOOLEAN
       PROVE  (IF End(wr) \in pipe'[q] THEN 1 ELSE 0) =
                (IF End(wr) \in pipe[q] THEN 1 ELSE 0)
                  + (FilesGain(q, {wr}) + CallsGain(p, t, q, {wr}))
  <2>1. ff.type \in {"FD_NONE", "FD_PIPE", "FD_INODE"} /\ ff.writable \in BOOLEAN
    BY <1>3 DEF FileRecord
  <2>2. CallsGain(p, t, q, {wr}) =
          IF ff.type = "FD_PIPE" /\ ff.obj = q /\ ff.writable = wr THEN -1 ELSE 0
    BY <1>8, <1>13, <2>1, FileSets
  <2>3. pipe \in [PipePage -> SUBSET {"read", "write"}]
    BY DEF FilesInv, TypeOK
  <2>4. CASE ff.type = "FD_PIPE" /\ ff.obj = q /\ ff.writable = wr
    <3>1. pipe'[q] = pipe[q] \ {End(wr)} /\ End(wr) \in pipe[q]
      BY <1>1, <1>8, <2>3, <2>4
    <3> QED
      BY <1>9, <2>2, <2>4, <3>1
  <2>5. CASE ~(ff.type = "FD_PIPE" /\ ff.obj = q /\ ff.writable = wr)
    <3>1. End(wr) \in pipe'[q] <=> End(wr) \in pipe[q]
      BY <1>1, <1>8, <2>1, <2>3, <2>5 DEF End
    <3> QED
      BY <1>9, <2>2, <2>5, <3>1
  <2> QED
    BY <2>4, <2>5
<1>16. ObjectsExact'
  BY <1>1, <1>14, <1>15, ObjectsStep DEF ObjectsGo
<1> QED
  BY <1>1, <1>9, <1>10, <1>11, <1>12, <1>16, StepKeeps
-----------------------------------------------------------------------------
(* What refers to a file keeps it open.                                    *)
LEMMA FileAlive ==
  ASSUME FileConstants, FilesInv, NEW f \in File, NEW p \in Proc,
         \/ \E q \in Proc : \E d \in Fd : ofile[q][d] = f
         \/ st[p].f = f /\ st[p].pc \in {"openfd", "pipe", "pipefd"}
         \/ Lists(st[p], 1, f)
  PROVE  file[f].ref >= 1 /\ file[f].ref \in Int
<1> DEFINE named == \E q \in Proc : \E d \in Fd : ofile[q][d] = f
<1>1. /\ file[f].ref >= Ind(named) + Cardinality(Allocated(st, f)) + Cardinality(Listed(st, f))
      /\ file[f].ref \in Int /\ Cardinality(Allocated(st, f)) \in Nat
      /\ Cardinality(Listed(st, f)) \in Nat
  BY Bound, Zenon
<1>2. IsFiniteSet(Allocated(st, f)) /\ IsFiniteSet(Listed(st, f))
  BY RefsFinite
<1>3. \/ named \/ p \in Allocated(st, f) \/ <<p, 1>> \in Listed(st, f)
  BY DEF Allocated, Listed, Lists
<1>4. \/ named \/ Cardinality(Allocated(st, f)) >= 1 \/ Cardinality(Listed(st, f)) >= 1
  BY <1>2, <1>3, CardAtLeast
<1> HIDE DEF named
<1> QED
  BY <1>1, <1>4 DEF Ind

(* The last reference of a file that is about to be closed is alone.       *)
LEMMA LastAlone ==
  ASSUME FileConstants, FilesInv, NEW f \in File, NEW p \in Proc,
         Lists(st[p], 1, f), file[f].ref = 1
  PROVE  /\ \A q \in Proc : \A d \in Fd : ofile[q][d] # f
         /\ \A q \in Proc : st[q].pc \in {"openfd", "pipe", "pipefd"} => st[q].f # f
         /\ \A q \in Proc : q # p => ~Lists(st[q], 1, f)
<1> DEFINE named == \E q \in Proc : \E d \in Fd : ofile[q][d] = f
<1>1. /\ file[f].ref >= Ind(named) + Cardinality(Allocated(st, f)) + Cardinality(Listed(st, f))
      /\ file[f].ref \in Int /\ Cardinality(Allocated(st, f)) \in Nat
      /\ Cardinality(Listed(st, f)) \in Nat
  BY Bound, Zenon
<1>2. IsFiniteSet(Allocated(st, f)) /\ IsFiniteSet(Listed(st, f))
  BY RefsFinite
<1>3. <<p, 1>> \in Listed(st, f)
  BY DEF Listed, Lists
<1>4. Cardinality(Listed(st, f)) >= 1
  BY <1>2, <1>3, CardAtLeast
<1>5. ~named /\ Cardinality(Allocated(st, f)) = 0 /\ Cardinality(Listed(st, f)) = 1
  <2> HIDE DEF named
  <2> QED
    BY <1>1, <1>4 DEF Ind
<1>6. \A q \in Proc : q \notin Allocated(st, f)
  BY <1>2, <1>5, FS_EmptySet
<1>7. ASSUME NEW q \in Proc, q # p, Lists(st[q], 1, f) PROVE FALSE
  <2>1. <<q, 1>> \in Listed(st, f) /\ <<q, 1>> # <<p, 1>>
    BY <1>7 DEF Listed, Lists
  <2>2. Cardinality(Listed(st, f)) >= 2
    BY <1>2, <1>3, <2>1, CardAtLeast, Zenon
  <2> QED
    BY <1>5, <2>2
<1> QED
  BY <1>5, <1>6, <1>7 DEF Allocated
-----------------------------------------------------------------------------
(* fileclose() of a file that others have, and of one that nobody else has.*)
LEMMA FileCloseKeeps ==
  ASSUME FileConstants, FilesInv, NEW p \in Proc, fileclose(p)
  PROVE  FilesInv'
<1>1. st[p].pc = "close" /\ st[p].closing # << >> /\ UNCHANGED <<ofile, iref, pipe>>
  BY DEF fileclose, At
<1>2. /\ Shape(st[p]) /\ FreshFor(st[p], file) /\ DescsFor(st[p], ofile[p], file)
      /\ st[p] \in Local
  BY DEF FilesInv, Shape
<1>3. PICK a \in File :
        /\ Head(st[p].closing) = a
        /\ \/ st[p].closing = <<a>> /\ Tail(st[p].closing) = << >>
           \/ \E b \in File : st[p].closing = <<a, b>> /\ Tail(st[p].closing) = <<b>>
  BY <1>1, <1>2, ClosingCases
<1>4. Lists(st[p], 1, a)
  BY <1>1, <1>3, ListsIs
<1>5. file[a].ref >= 1 /\ file[a].ref \in Int
  BY <1>4, FileAlive
<1>6. /\ file \in [File -> FileRecord] /\ iref \in [Inode -> Nat]
      /\ \A f \in File : Record(file[f]) /\ file[f].ref \in Int
  BY DEF FilesInv, TypeOK, Record, FileRecord
<1>7. TableTyped
  BY <1>1 DEF FilesInv, TypeOK, TableTyped
<1>8. \A f : NamedGain(f) = 0
  BY <1>1, SameNames
<1> DEFINE C == UNION {[1 .. n -> File] : n \in 0 .. 2}
<1>9. /\ Tail(st[p].closing) \in C
      /\ Local = [pc : Location, ip : Inode \cup {None}, f : File \cup {None},
          ff : FileRecord \cup {None}, closing : C, after : Location,
          child : Proc \cup {None}, i : 0 .. NOFILE]
  BY <1>3, ClosingIs, ClosingNone DEF Local
<1> HIDE DEF C
<1>10. \A f \in File : Own(st[p], f) =
        Eq(a, f) + IF Tail(st[p].closing) = << >> THEN 0 ELSE Eq(Tail(st[p].closing)[1], f)
  <2> TAKE f \in File
  <2>1. OwnFacts(st[p], f) /\ Eq(a, f) \in Int
    BY OwnIs DEF Eq
  <2>2. CASE st[p].closing = <<a>> /\ Tail(st[p].closing) = << >>
    BY <1>1, <2>1, <2>2 DEF OwnFacts
  <2>3. ASSUME NEW b, st[p].closing = <<a, b>>, Tail(st[p].closing) = <<b>>
        PROVE  Own(st[p], f) = Eq(a, f) +
                 IF Tail(st[p].closing) = << >> THEN 0 ELSE Eq(Tail(st[p].closing)[1], f)
    <3>1. Own(st[p], f) = Eq(a, f) + Eq(b, f)
      BY <1>1, <2>1, <2>3 DEF OwnFacts
    <3>2. Tail(st[p].closing) # << >> /\ Tail(st[p].closing)[1] = b
      BY <2>3
    <3> QED
      BY <3>1, <3>2
  <2> QED
    BY <1>3, <2>2, <2>3, Zenon
<1>11. CASE file[a].ref # 1
  <2> DEFINE t == [st[p] EXCEPT !.closing = Tail(@)]
  <2>1. /\ file' = [file EXCEPT ![a].ref = @ - 1]
        /\ Become(p, t)
    BY <1>3, <1>5, <1>11 DEF fileclose
  <2>2. /\ t.pc = "close" /\ t.ip = st[p].ip /\ t.f = st[p].f /\ t.ff = st[p].ff
        /\ t.closing = Tail(st[p].closing) /\ t.after = st[p].after /\ t.i = st[p].i
        /\ t \in Local
    BY <1>1, <1>2, <1>9, Zenon
  <2>3. t.closing = << >> \/ \E b \in File : t.closing = <<b>>
    BY <1>3, <2>2
  <2> HIDE DEF t
  <2>4. /\ file' \in [File -> FileRecord] /\ file[a].ref > 1
        /\ \A f \in File : f # a => file'[f] = file[f]
        /\ file'[a].ref = file[a].ref - 1 /\ file'[a].type = file[a].type
        /\ file'[a].obj = file[a].obj /\ file'[a].writable = file[a].writable
    BY <1>5, <1>6, <1>11, <2>1 DEF FileRecord
  <2>5. \A f \in File : Record(file'[f])
    <3>1. Record(file'[a])
      BY <1>5, <1>6, <2>4 DEF Record
    <3> QED
      BY <1>6, <2>4, <3>1
  <2>6. ASSUME NEW q \in Proc PROVE FreshFor(st[q], file')
    <3>1. FreshFor(st[q], file) /\ Shape(st[q])
      BY DEF FilesInv
    <3>2. st[q].pc \in Filling => file'[st[q].f] = NewFile
      BY <2>4, <3>1 DEF FreshFor, NewFile, Closed, Filling, Shape
    <3>3. st[q].pc = "pipefd" => /\ st[q].f \in File /\ st[q].closing[1] \in File
      BY <3>1 DEF Shape
    <3> QED
      BY <2>4, <3>1, <3>2, <3>3 DEF FreshFor
  <2>7. FilesKept(p)
    BY <2>4, <2>5, <2>6 DEF FilesKept
  <2>8. Goes(p, t)
    <3>1. Shape(t)
      BY <1>1, <1>2, <2>2, <2>3 DEF Shape
    <3>2. \A d \in Fd : ofile[p][d] # None => file'[ofile[p][d]].type = file[ofile[p][d]].type
      BY <2>4 DEF FilesInv, TypeOK
    <3>3. DescsFor(t, ofile'[p], file')
      BY <1>1, <1>2, <2>2, <3>2 DEF DescsFor
    <3> QED
      BY <2>2, <3>1, <3>3 DEF Goes, FreshFor, Filling
  <2>9. \A obj, W : FilesGain(obj, W) = 0
    BY <1>5, <2>4, SameHolds
  <2>10. ObjectsExact'
    BY <1>1, <2>1, <2>2, <2>9, SameObjects, ObjectsStep
  <2>11. ASSUME NEW f \in File
         PROVE  file'[f].ref = file[f].ref + NamedGain(f) + (Own(t, f) - Own(st[p], f))
    <3>1. Own(t, f) = IF t.closing = << >> THEN 0 ELSE Eq(t.closing[1], f)
      <4>1. OwnFacts(t, f)
        BY OwnIs
      <4>2. CASE t.closing = << >>
        BY <2>2, <4>1, <4>2, Zenon DEF OwnFacts
      <4>3. ASSUME NEW b, t.closing = <<b>>
            PROVE  Own(t, f) = IF t.closing = << >> THEN 0 ELSE Eq(t.closing[1], f)
        <5>1. Own(t, f) = Eq(b, f)
          BY <2>2, <4>1, <4>3, Zenon DEF OwnFacts
        <5>2. t.closing # << >> /\ t.closing[1] = b
          BY <4>3
        <5> QED
          BY <5>1, <5>2
      <4> QED
        BY <2>3, <4>2, <4>3
    <3>2. Own(st[p], f) = Eq(a, f) + Own(t, f)
      BY <1>10, <2>2, <3>1, Zenon
    <3>3. Own(t, f) \in Int
      BY DEF Own, Ind
    <3>4. file'[f].ref = file[f].ref - Eq(a, f) /\ file[f].ref \in Int
      BY <1>6, <2>4 DEF Eq
    <3>5. Eq(a, f) \in Int
      BY DEF Eq
    <3> QED
      BY <1>8, <3>2, <3>3, <3>4, <3>5
  <2>12. RefExact'
    BY <2>1, <2>11, CountsStep
  <2> QED
    BY <1>1, <1>7, <2>1, <2>7, <2>8, <2>10, <2>12, StepKeeps
<1>12. CASE file[a].ref = 1
  <2> DEFINE t == [st[p] EXCEPT !.pc = "closed", !.ff = file[a]]
  <2>1. /\ file' = [file EXCEPT ![a] = Closed]
        /\ Become(p, t)
    <3>1. ~(file[a].ref < 1)
      BY <1>5
    <3>2. /\ file' = IF file[a].ref = 1 THEN [file EXCEPT ![a] = Closed]
                                        ELSE [file EXCEPT ![a].ref = @ - 1]
          /\ Become(p, IF file[a].ref = 1 THEN [st[p] EXCEPT !.pc = "closed", !.ff = file[a]]
                                                ELSE [st[p] EXCEPT !.closing = Tail(@)])
      BY <1>3, <3>1, Zenon DEF fileclose
    <3> QED
      BY <1>12, <3>2, Zenon
  <2>2. /\ t.pc = "closed" /\ t.ip = st[p].ip /\ t.f = st[p].f /\ t.ff = file[a]
        /\ t.closing = st[p].closing /\ t.after = st[p].after /\ t.i = st[p].i
        /\ t \in Local
    BY <1>1, <1>2, <1>6, <1>9, Zenon DEF Location
  <2> HIDE DEF t
  <2>3. /\ \A q \in Proc : \A d \in Fd : ofile[q][d] # a
        /\ \A q \in Proc : st[q].pc \in {"openfd", "pipe", "pipefd"} => st[q].f # a
        /\ \A q \in Proc : q # p => ~Lists(st[q], 1, a)
    BY <1>4, <1>12, LastAlone
  <2>4. /\ file' \in [File -> FileRecord] /\ Record(Closed)
        /\ \A f \in File : f # a => file'[f] = file[f]
        /\ file'[a] = Closed
    BY <1>6, <2>1 DEF FileRecord, Closed, Record
  <2>5. \A f \in File : Record(file'[f])
    BY <1>6, <2>4
  <2>6. ASSUME NEW q \in Proc \ {p} PROVE FreshFor(st[q], file')
    <3>1. FreshFor(st[q], file) /\ Shape(st[q]) /\ DescsFor(st[q], ofile[q], file)
      BY DEF FilesInv
    <3>2. st[q].pc \in Filling => file'[st[q].f] = NewFile
      <4>1. st[q].pc \in Filling => st[q].f \in File /\ st[q].f # a
        BY <2>3, <3>1 DEF Filling, Shape, DescsFor
      <4> QED
        BY <2>4, <3>1, <4>1 DEF FreshFor
    <3>3. st[q].pc = "pipefd" => /\ st[q].f \in File /\ st[q].closing[1] \in File
                                 /\ st[q].f # a /\ st[q].closing[1] # a
      <4>1. ASSUME st[q].pc = "pipefd"
            PROVE  /\ st[q].f \in File /\ st[q].closing[1] \in File
                   /\ st[q].f # a /\ st[q].closing[1] # a
        <5>1. PICK g \in File : st[q].closing = <<g>>
          BY <3>1, <4>1 DEF Shape
        <5>2. Lists(st[q], 1, a) <=> g = a /\ st[q].pc # "closed"
          BY <5>1, ListsIs
        <5> QED
          BY <2>3, <3>1, <4>1, <5>1, <5>2 DEF Shape
      <4> QED
        BY <4>1
    <3> QED
      BY <2>4, <3>1, <3>2, <3>3 DEF FreshFor
  <2>7. FilesKept(p)
    BY <2>3, <2>4, <2>5, <2>6 DEF FilesKept
  <2>8. Goes(p, t)
    <3>1. Shape(t)
      BY <1>1, <1>2, <1>6, <2>2 DEF Shape
    <3>2. \A d \in Fd : ofile[p][d] # None => file'[ofile[p][d]].type = file[ofile[p][d]].type
      BY <2>3, <2>4 DEF FilesInv, TypeOK
    <3>3. DescsFor(t, ofile'[p], file')
      BY <1>1, <1>2, <2>2, <3>2 DEF DescsFor
    <3> QED
      BY <1>6, <1>12, <2>2, <3>1, <3>3 DEF Goes, FreshFor, Filling
  <2>9. ASSUME NEW obj, NEW W PROVE FilesGain(obj, W) + CallsGain(p, t, obj, W) = 0
    <3>0. \A f \in File : f # a => file'[f] = file[f]
      BY <2>4
    <3>1. Cardinality(ByFiles(file', obj, W)) = Cardinality(ByFiles(file, obj, W))
            + FilePart(file'[a], obj, W) - FilePart(file[a], obj, W)
      <4>1. FilesHold(file, file', a)
        BY <3>0, FilesHoldChange
      <4> QED
        BY <4>1, Zenon DEF FilesHold
    <3>2. FilePart(file'[a], obj, W) = 0
      BY <2>4 DEF FilePart, FileHolds, Closed, Ind
    <3>3. CallPart(t, obj, W) = FilePart(file[a], obj, W) /\ CallPart(st[p], obj, W) = 0
      BY <1>1, <1>12, <2>2 DEF CallPart, FilePart, CallHolds, FileHolds, Ind
    <3>4. Cardinality(ByFiles(file, obj, W)) \in Nat /\ FilePart(file[a], obj, W) \in Int
      BY HoldersFinite DEF FilePart, Ind
    <3> QED
      BY <3>1, <3>2, <3>3, <3>4 DEF FilesGain, CallsGain
  <2>10. ObjectsGo(p, t)
    <3>1. \A i : OpenPart(t, i) - OpenPart(st[p], i) = 0
      BY <2>2 DEF OpenPart, Ind
    <3>2. \A i \in Inode : iref'[i] = iref[i]
                                   + (FilesGain(i, BOOLEAN) + CallsGain(p, t, i, BOOLEAN))
                                   + (OpenPart(t, i) - OpenPart(st[p], i))
      BY <1>1, <1>6, <2>9, <3>1
    <3>3. \A q \in PipePage : \A wr \in BOOLEAN :
       (IF End(wr) \in pipe'[q] THEN 1 ELSE 0) = (IF End(wr) \in pipe[q] THEN 1 ELSE 0)
          + (FilesGain(q, {wr}) + CallsGain(p, t, q, {wr}))
      BY <1>1, <2>9
    <3> QED
      BY <3>2, <3>3 DEF ObjectsGo
  <2>11. ASSUME NEW f \in File
         PROVE  file'[f].ref = file[f].ref + NamedGain(f) + (Own(t, f) - Own(st[p], f))
    <3>1. Own(st[p], f) = Eq(a, f) + Own(t, f)
      <4>1. OwnFacts(t, f) /\ OwnFacts(st[p], f) /\ Eq(a, f) \in Int
        BY OwnIs DEF Eq
      <4>2. CASE st[p].closing = <<a>>
        BY <1>1, <2>2, <4>1, <4>2 DEF OwnFacts
      <4>3. ASSUME NEW b, st[p].closing = <<a, b>>
            PROVE  Own(st[p], f) = Eq(a, f) + Own(t, f)
        BY <1>1, <2>2, <4>1, <4>3 DEF OwnFacts
      <4> QED
        BY <1>3, <4>2, <4>3
    <3>3. Own(t, f) \in Int
      BY DEF Own, Ind
    <3>4. file'[f].ref = file[f].ref - Eq(a, f) /\ file[f].ref \in Int
      BY <1>6, <1>12, <2>4 DEF Eq, Closed
    <3>5. Eq(a, f) \in Int
      BY DEF Eq
    <3> QED
      BY <1>8, <3>1, <3>3, <3>4, <3>5
  <2>12. RefExact'
    BY <2>1, <2>11, CountsStep
  <2>13. ObjectsExact'
    BY <2>1, <2>10, ObjectsStep
  <2> QED
    BY <1>1, <1>7, <2>1, <2>7, <2>8, <2>12, <2>13, StepKeeps
<1> QED
  BY <1>11, <1>12
=============================================================================
