------------------------------- MODULE Shell -------------------------------
(***************************************************************************)
(* The shell (sh.c), init (init.c) and the programs they run, over the     *)
(* system calls of the kernel.                                             *)
(*                                                                         *)
(* A process is in one of the places pc of init's or the shell's code, or  *)
(* runs a program.  All calls of runcmd() are the last thing its caller    *)
(* does, so that a process needs no stack.  What a process does to its own *)
(* descriptors between two other system calls is one step.                 *)
(*                                                                         *)
(* Of the kernel the model keeps what modules ProcTable, FileTable and     *)
(* Pipe show: fork() takes the first free slot and copies the descriptors, *)
(* wait() returns the first dead child of the table, exit() closes the     *)
(* descriptors and gives the children to init, and a pipe ends for its     *)
(* reader when no descriptor for writing is left.                          *)
(***************************************************************************)
EXTENDS ShParse, FiniteSetsExt

CONSTANTS NPROC, NOFILE,
          Pipe,        \* the pipes there can be
          Line,        \* the lines that are typed
          PIPESIZE,    \* writes that fit into a pipe
          MaxWrites,   \* writes of a program
          None

Slot == 1 .. NPROC

initproc == 1

Fd == 0 .. NOFILE - 1

Console == <<"console", "readwrite">>

File == <<"file", "readwrite">>

(* What a descriptor is open for.  Console and files are never waited for. *)
Open == {Console, File} \cup (Pipe \X {"read", "write"})

VARIABLES proc,    \* the processes
          fds,     \* their descriptors
          pipe,    \* the number of writes in each pipe
          panic    \* the kernel has stopped

vars == <<proc, fds, pipe, panic>>

Place == {"unused", "zombie", "init", "initwait", "execsh", "sh", "getcmd", "fork", "wait",
          "parse", "runcmd", "listwait", "left", "right", "pipeleft", "piperight", "pipeclose",
          "wait1", "wait2", "read", "write", "exit"}

(* cmd is the argument of runcmd() and p the array of descriptors in it,   *)
(* pid the child of init, and todo what a program has to write.  back, in  *)
(* and out are not in the code: whether the process was put in the         *)
(* background, or lost its parent to a panic, and what the command line    *)
(* makes its standard input and output.                                    *)
NoProc == [pc |-> "unused", parent |-> None, line |-> None, cmd |-> None, p |-> <<>>,
           pid |-> None, todo |-> 0, back |-> FALSE, in |-> Console, out |-> Console]

TypeOK ==
  /\ DOMAIN proc = Slot
  /\ \A x \in Slot : /\ DOMAIN proc[x] = DOMAIN NoProc
                     /\ proc[x].pc \in Place /\ proc[x].parent \in Slot \cup {None}
                     /\ Range(proc[x].p) \subseteq Fd /\ proc[x].pid \in Slot \cup {None}
                     /\ {proc[x].in, proc[x].out} \subseteq Open
  /\ fds \in [Slot -> [Fd -> Open \cup {None}]]
  /\ pipe \in [Pipe -> 0 .. PIPESIZE]
  /\ panic \in BOOLEAN

Closed == [d \in Fd |-> None]

Standard == [d \in Fd |-> IF d < 3 THEN Console ELSE None]

(* init has opened the console three times.                                *)
Init ==
  /\ proc = [x \in Slot |-> IF x = initproc THEN [NoProc EXCEPT !.pc = "init"] ELSE NoProc]
  /\ fds = [x \in Slot |-> IF x = initproc THEN Standard ELSE Closed]
  /\ pipe = [q \in Pipe |-> 0]
  /\ panic = FALSE
-----------------------------------------------------------------------------
(* The system calls.                                                       *)

At(x, place) == proc[x].pc = place /\ ~panic

In(x, place) == [proc[x] EXCEPT !.pc = place]

Goto(x, place) == proc' = [proc EXCEPT ![x].pc = place]

Children(x) == {c \in Slot : proc[c].pc # "unused" /\ proc[c].parent = x}

Unused == {c \in Slot : proc[c].pc = "unused"}

(* dup() and open() take the first free descriptor.                        *)
FirstFree(f) == Min({d \in Fd : f[d] = None})

close(f, d) == [f EXCEPT ![d] = None]

dup(f, obj) == [f EXCEPT ![FirstFree(f)] = obj]

CanFork == Unused # {}

(* fork(): the child is a copy of x that goes on as child; x as parent.    *)
fork(x, child, parent) ==
  LET c == Min(Unused) IN
  /\ CanFork
  /\ proc' = [proc EXCEPT ![x] = parent, ![c] = [child EXCEPT !.parent = x]]
  /\ fds' = [fds EXCEPT ![c] = fds[x]]
  /\ UNCHANGED <<pipe, panic>>

Holds(x, obj) == \E d \in Fd : fds[x][d] = obj

Held(obj) == \E x \in Slot : Holds(x, obj)

(* A pipe nobody has open any more is empty when it is made again.         *)
Drained(f) == [q \in Pipe |-> IF \E y \in Slot, d \in Fd : f[y][d] \in {<<q, "read">>, <<q, "write">>}
                              THEN pipe[q] ELSE 0]

(* exit() of x, with other processes as in ps.                             *)
exit(x, ps) ==
  LET f == [fds EXCEPT ![x] = Closed] IN
  /\ proc' = [y \in Slot |->
                IF y = x THEN [NoProc EXCEPT !.pc = "zombie", !.parent = ps[x].parent]
                ELSE IF ps[y].parent = x THEN [ps[y] EXCEPT !.parent = initproc]
                ELSE ps[y]]
  /\ fds' = f
  /\ pipe' = Drained(f)
  /\ UNCHANGED panic

(* The child that wait() would return.                                     *)
Reaped(x) ==
  LET dead == {c \in Children(x) : proc[c].pc = "zombie"}
  IN IF dead = {} THEN None ELSE Min(dead)

(* wait(), which fails without children: x goes on as after.               *)
wait(x, after) ==
  LET child == Reaped(x) IN
  /\ child # None \/ Children(x) = {}
  /\ proc' = [y \in Slot |-> CASE y = x -> after [] y = child -> NoProc [] OTHER -> proc[y]]
  /\ UNCHANGED <<fds, pipe, panic>>
-----------------------------------------------------------------------------
(* init.c                                                                  *)

InitFork ==
  /\ At(initproc, "init")
  /\ fork(initproc, [NoProc EXCEPT !.pc = "execsh"],
          [proc[initproc] EXCEPT !.pc = "initwait", !.pid = Min(Unused)])

(* fork() may fail, for want of a slot or of memory: init exits then,      *)
(* which the kernel answers with a panic.                                  *)
InitExit ==
  /\ At(initproc, "init")
  /\ panic' = TRUE
  /\ UNCHANGED <<proc, fds, pipe>>

(* init waits until its shell is dead, and for any orphan meanwhile.       *)
InitWait ==
  /\ At(initproc, "initwait")
  /\ wait(initproc, IF Reaped(initproc) = proc[initproc].pid
                    THEN [proc[initproc] EXCEPT !.pc = "init", !.pid = None]
                    ELSE proc[initproc])

(* The child of init becomes the shell, or exec() fails.                   *)
ExecSh(x) ==
  /\ At(x, "execsh")
  /\ \/ Goto(x, "sh") /\ UNCHANGED <<fds, pipe, panic>>
     \/ exit(x, proc)
-----------------------------------------------------------------------------
(* main() of sh.c                                                          *)

(* Descriptors below 3 that are not open are opened.                       *)
ShStart(x) ==
  /\ At(x, "sh")
  /\ fds' = [fds EXCEPT ![x] = [d \in Fd |-> IF d < 3 /\ @[d] = None THEN Console ELSE @[d]]]
  /\ Goto(x, "getcmd")
  /\ UNCHANGED <<pipe, panic>>

(* A line, or the end of the input.  The line is kept as what the child    *)
(* will make of it.  (cd changes nothing that is modelled here.)           *)
getcmd(x) ==
  /\ At(x, "getcmd")
  /\ \/ \E s \in Line : proc' = [proc EXCEPT ![x].pc = "fork", ![x].line = parsecmd(s)]
        /\ UNCHANGED <<fds, pipe, panic>>
     \/ exit(x, proc)

(* panic() of sh.c: x exits, and what it has started is left alone.        *)
ShPanic(x) ==
  exit(x, [y \in Slot |-> [proc[y] EXCEPT !.back = @ \/ proc[y].parent = x]])

(* fork1() in main: the child parses and runs the line.                    *)
ShFork(x) ==
  /\ At(x, "fork")
  /\ \/ fork(x, [proc[x] EXCEPT !.pc = "parse"], [proc[x] EXCEPT !.pc = "wait", !.line = None])
     \/ ShPanic(x)

ShWait(x) == At(x, "wait") /\ wait(x, In(x, "getcmd"))

(* The child runs what it has parsed, or panics.                           *)
ParseLine(x) ==
  /\ At(x, "parse")
  /\ IF proc[x].line.ok
     THEN /\ proc' = [proc EXCEPT ![x].pc = "runcmd", ![x].line = None, ![x].cmd = proc[x].line.cmd]
          /\ UNCHANGED <<fds, pipe, panic>>
     ELSE ShPanic(x)
-----------------------------------------------------------------------------
(* runcmd()                                                                *)

Runs(x, type) == At(x, "runcmd") /\ proc[x].cmd.type = type

(* x with another command to run.                                          *)
Run(x, cmd) == [proc[x] EXCEPT !.pc = "runcmd", !.cmd = cmd, !.p = <<>>]

(* Without arguments the process exits, as it does when exec() fails.      *)
(* Otherwise it becomes a program that reads its input to the end, or does *)
(* not read it, and then writes.                                           *)
RunExec(x) ==
  /\ Runs(x, "EXEC")
  /\ \/ /\ proc[x].cmd.argv # <<>>
        /\ \E place \in {"read", "write"}, n \in 0 .. MaxWrites :
             proc' = [proc EXCEPT ![x] = [@ EXCEPT !.pc = place, !.cmd = None, !.todo = n]]
        /\ UNCHANGED <<fds, pipe, panic>>
     \/ exit(x, proc)

Redirect(x, fd) == IF fd = 0 THEN [proc[x] EXCEPT !.in = File] ELSE [proc[x] EXCEPT !.out = File]

(* open() may fail.                                                        *)
RunRedir(x) ==
  LET cmd == proc[x].cmd
      f == dup(close(fds[x], cmd.fd), File)
  IN /\ Runs(x, "REDIR")
     /\ \/ /\ proc' = [proc EXCEPT ![x] = [Redirect(x, cmd.fd) EXCEPT !.cmd = cmd.cmd]]
           /\ fds' = [fds EXCEPT ![x] = f]
           /\ pipe' = Drained(fds')
           /\ UNCHANGED panic
        \/ exit(x, proc)

RunList(x) ==
  /\ Runs(x, "LIST")
  /\ \/ fork(x, Run(x, proc[x].cmd.left), [proc[x] EXCEPT !.pc = "listwait"])
     \/ ShPanic(x)

ListWait(x) ==
  /\ At(x, "listwait") /\ wait(x, Run(x, proc[x].cmd.right))

RunBack(x) ==
  /\ Runs(x, "BACK")
  /\ \/ fork(x, [Run(x, proc[x].cmd.cmd) EXCEPT !.back = TRUE], [proc[x] EXCEPT !.pc = "exit"])
     \/ ShPanic(x)

(* pipe(p) takes two descriptors; it may fail.                             *)
RunPipe(x) ==
  LET free == {q \in Pipe : ~Held(<<q, "read">>) /\ ~Held(<<q, "write">>)}
      q == CHOOSE y \in free : TRUE
      f == dup(fds[x], <<q, "read">>)
  IN /\ Runs(x, "PIPE")
     /\ \/ /\ free # {}
           /\ fds' = [fds EXCEPT ![x] = dup(f, <<q, "write">>)]
           /\ proc' = [proc EXCEPT ![x].pc = "pipeleft", ![x].p = <<FirstFree(fds[x]), FirstFree(f)>>]
           /\ UNCHANGED <<pipe, panic>>
        \/ ShPanic(x)

ForkLeft(x) ==
  /\ At(x, "pipeleft")
  /\ \/ fork(x, [proc[x] EXCEPT !.pc = "left"], [proc[x] EXCEPT !.pc = "piperight"])
     \/ ShPanic(x)

ForkRight(x) ==
  /\ At(x, "piperight")
  /\ \/ fork(x, [proc[x] EXCEPT !.pc = "right"], [proc[x] EXCEPT !.pc = "pipeclose"])
     \/ ShPanic(x)

(* Faulty: the side of the pipe that was duplicated stays open.            *)
ClosePipeOne(x, f) == close(f, proc[x].p[1])

ClosePipe(x, f) == close(close(f, proc[x].p[1]), proc[x].p[2])

(* The left side writes to the pipe.                                       *)
Left(x) ==
  LET obj == fds[x][proc[x].p[2]] IN
  /\ At(x, "left")
  /\ fds' = [fds EXCEPT ![x] = ClosePipe(x, dup(close(@, 1), obj))]
  /\ proc' = [proc EXCEPT ![x] = [Run(x, @.cmd.left) EXCEPT !.out = obj]]
  /\ pipe' = Drained(fds')
  /\ UNCHANGED panic

(* The right side reads from it.                                           *)
Right(x) ==
  LET obj == fds[x][proc[x].p[1]] IN
  /\ At(x, "right")
  /\ fds' = [fds EXCEPT ![x] = ClosePipe(x, dup(close(@, 0), obj))]
  /\ proc' = [proc EXCEPT ![x] = [Run(x, @.cmd.right) EXCEPT !.in = obj]]
  /\ pipe' = Drained(fds')
  /\ UNCHANGED panic

(* Faulty: the shell of the pipeline keeps its ends of the pipe.           *)
PipeCloseNot(x) == At(x, "pipeclose") /\ Goto(x, "wait1") /\ UNCHANGED <<fds, pipe, panic>>

PipeClose(x) ==
  /\ At(x, "pipeclose")
  /\ fds' = [fds EXCEPT ![x] = ClosePipe(x, @)]
  /\ Goto(x, "wait1")
  /\ pipe' = Drained(fds')
  /\ UNCHANGED panic

(* Faulty: only one side of the pipeline is waited for.                    *)
PipeWaitOnce(x) == At(x, "wait1") /\ wait(x, In(x, "exit"))

PipeWait(x) == \/ At(x, "wait1") /\ wait(x, In(x, "wait2"))
               \/ At(x, "wait2") /\ wait(x, In(x, "exit"))

(* The exit() at the end of runcmd().                                      *)
RunExit(x) == At(x, "exit") /\ exit(x, proc)
-----------------------------------------------------------------------------
(* Programs.                                                               *)

(* read() of the standard input: a pipe is waited for while it is empty    *)
(* and can still be written.  At the end the program goes on to write.     *)
Read(x) ==
  LET obj == fds[x][0] IN
  /\ At(x, "read")
  /\ IF obj \in Pipe \X {"read"} /\ pipe[obj[1]] > 0
     THEN pipe' = [pipe EXCEPT ![obj[1]] = @ - 1] /\ UNCHANGED <<proc, fds, panic>>
     ELSE /\ obj \in Pipe \X {"read"} => ~Held(<<obj[1], "write">>)
          /\ Goto(x, "write")
          /\ UNCHANGED <<fds, pipe, panic>>

(* write() to the standard output: a full pipe is waited for while it can  *)
(* still be read.  A program ends when it has written, or write() fails.   *)
Write(x) ==
  LET obj == fds[x][1]
      piped == obj \in Pipe \X {"write"}
      full == pipe[obj[1]] = PIPESIZE
  IN /\ At(x, "write")
     /\ IF proc[x].todo = 0 \/ (piped /\ full /\ ~Held(<<obj[1], "read">>))
        THEN exit(x, proc)
        ELSE /\ ~(piped /\ full)
             /\ pipe' = IF piped THEN [pipe EXCEPT ![obj[1]] = @ + 1] ELSE pipe
             /\ proc' = [proc EXCEPT ![x].todo = @ - 1]
             /\ UNCHANGED <<fds, panic>>
-----------------------------------------------------------------------------
Step(x) ==
  \/ ExecSh(x) \/ ShStart(x) \/ ShFork(x) \/ ShWait(x) \/ ParseLine(x)
  \/ RunExec(x) \/ RunRedir(x) \/ RunList(x) \/ ListWait(x) \/ RunBack(x)
  \/ RunPipe(x) \/ ForkLeft(x) \/ ForkRight(x) \/ Left(x) \/ Right(x) \/ PipeClose(x)
  \/ PipeWait(x) \/ RunExit(x) \/ Read(x) \/ Write(x)

Next == InitFork \/ InitExit \/ InitWait \/ \E x \in Slot : Step(x) \/ getcmd(x)

Spec == Init /\ [][Next]_vars

(* The machine goes on as long as a process can; nobody has to type.       *)
FairSpec == Spec /\ WF_vars(\E x \in Slot : Step(x))
-----------------------------------------------------------------------------
(* Properties.                                                             *)

(* A program starts with the descriptors its command line says, and no     *)
(* others: whatever pipes, redirections and lists are around it, close()   *)
(* and dup() have put the right file at 0, 1 and 2 and left no end of a    *)
(* pipe open.                                                              *)
Wired ==
  \A x \in Slot : At(x, "runcmd") /\ proc[x].cmd.type = "EXEC" =>
    fds[x] = [d \in Fd |-> CASE d = 0 -> proc[x].in [] d = 1 -> proc[x].out
                             [] d = 2 -> Console [] OTHER -> None]

(* The shell prompts when the command is done: it has no child left, dead  *)
(* or alive, that the next wait() could mistake for the next command, and  *)
(* what still runs was put in the background (or its pipeline broke when   *)
(* fork() or pipe() failed).                                               *)
ForegroundDone ==
  /\ \A x \in Slot : At(x, "getcmd") => Children(x) = {}
  /\ \A y \in Children(initproc) :
       y # proc[initproc].pid => proc[y].back \/ proc[y].pc = "zombie"

(* Every command ends: no reader of a pipeline waits for an end that some  *)
(* process has forgotten to close, no writer for a reader that is gone.    *)
CommandEnds == (\E x \in Slot : At(x, "wait")) ~> (\A x \in Slot : ~At(x, "wait"))
=============================================================================
