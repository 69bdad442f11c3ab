----------------------------- MODULE MCStreams ------------------------------
(***************************************************************************)
(* What read() and write() work on besides inodes, each by itself: a pipe, *)
(* the table of open files with the descriptors, and the console input.    *)
(* The variable part says which of them a behaviour is about.              *)
(***************************************************************************)
EXTENDS Pipe, FiniteSets

CONSTANTS initproc, Inode, PipePage, None, NFILE, NOFILE,    \* of FileTable
          Char, INPUT_BUF, MaxUint, MaxRead                  \* of Console

(* Sizes that divide, so that an index wraps with its uint (console.c).     *)
ASSUME StreamConstants ==
  /\ INPUT_BUF \in Nat \ {0} /\ MaxUint \in Nat /\ MaxUint > INPUT_BUF
  /\ (MaxUint + 1) % INPUT_BUF = 0 /\ MaxRead \in Nat
  /\ {"newline", "eof"} \subseteq Char

VARIABLES part,
          file, ofile, iref, pipe, st,                       \* of FileTable
          buf, r, w, e, cpc, left, ctarget, ckilled          \* of Console

Files == INSTANCE FileTable
Cons == INSTANCE Console WITH pc <- cpc, n <- left, target <- ctarget, killed <- ckilled
Input == INSTANCE LineInput WITH line <- Cons!Ring(w, e), input <- Cons!Ring(r, w)

(* What file.c is proved for.                                              *)
ASSUME FileSizes == Files!FileConstants

fileVars == <<file, ofile, iref, pipe, st>>
consVars == <<buf, r, w, e, cpc, left, ctarget, ckilled>>

StreamsInit ==
  /\ part \in {"pipe", "files", "console"}
  /\ Init /\ Files!Init /\ Cons!Init
  /\ part # "pipe" => nread = 0 /\ data[0] = 0

PipePart == part = "pipe" /\ Next /\ UNCHANGED <<part, fileVars, consVars>>
FilesPart == part = "files" /\ Files!Next /\ UNCHANGED <<part, vars, consVars>>
ConsolePart == part = "console" /\ Cons!Next /\ UNCHANGED <<part, vars, fileVars>>

StreamsNext == PipePart \/ FilesPart \/ ConsolePart

StreamsSpec == StreamsInit /\ [][StreamsNext]_<<part, vars, fileVars, consVars>>
-----------------------------------------------------------------------------
(* A process sleeps in piperead(), pipewrite() or consoleread() only while *)
(* it has to, and readers and writers never wait for each other.           *)
WaitJustified == SleepJustified /\ NoStandoff /\ Cons!SleepJustified

(* The count of every open file is the number of descriptors and calls     *)
(* that refer to it, and its inode or pipe end is put or closed once.      *)
CountsExact == Files!RefExact /\ Files!ObjectsExact

(* A read() or write() works on a live file, nothing panics, and a pipe is *)
(* freed exactly when its last end is closed.                              *)
UseLive == Files!UseLive /\ FreedLast

(* The ring of the console with its three wrapping indices is the line     *)
(* input: nothing is lost, overwritten or reordered, and editing does not  *)
(* touch what a reader may take.                                           *)
AsLineInput == Input!Spec
=============================================================================
