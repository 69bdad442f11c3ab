------------------------------- MODULE MCInode -------------------------------
(* Instances of module Inode: which calls the processes make.              *)
EXTENDS Inode, TLC

CONSTANTS x, y, p1, p2

Abs(elems) == [abs |-> TRUE, elems |-> elems]

Rel(elems) == [abs |-> FALSE, elems |-> elems]

Call(c, path) == [call |-> c, path |-> path, new |-> path]

Link(old, new) == [call |-> "link", path |-> old, new |-> new]

(* p1 makes and removes a directory, a device in it and a file next to it. *)
(* p2 enters the directory and leaves it through its "..", makes it as     *)
(* well, and links and unlinks a second name for the device.  Only p1      *)
(* makes names in the directory, and it does not stay in it.               *)
Tree ==
  (p1 :> {Call("mkdir", Abs(<<x>>)), Call("unlink", Abs(<<x>>)),
          Call("mknod", Abs(<<x, y>>)), Call("unlink", Abs(<<x, y>>)),
          Call("create", Abs(<<y>>)), Call("unlink", Abs(<<".">>))})
  @@ (p2 :> {Call("mkdir", Abs(<<x>>)), Call("chdir", Abs(<<x>>)), Call("chdir", Rel(<<"..">>)),
             Link(Abs(<<x, y>>), Abs(<<y>>)), Call("unlink", Abs(<<y>>))})

(* The calls of the test linkunlink() on one name, by both processes.      *)
LinkUnlink == [p \in Proc |-> {Call(c, Abs(<<x>>)) : c \in {"create", "unlink"}}]

(* A file is to be linked to the name of the directory itself.             *)
LinkDot == [p \in Proc |-> {Call("create", Abs(<<x>>)), Link(Abs(<<x>>), Abs(<<".">>))}]

(* Directories that are removed while they are current directories.        *)
Removed ==
  [p \in Proc |->
     {Call(c, Abs(<<x>>)) : c \in {"mkdir", "unlink", "chdir"}}
     \cup {Call(c, Abs(<<x, x>>)) : c \in {"mkdir", "unlink", "chdir"}}
     \cup {Call("create", Rel(<<x>>)), Call("chdir", Abs(<<>>))}]
=============================================================================
