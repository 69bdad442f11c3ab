------------------------------- MODULE MCUser -------------------------------
(***************************************************************************)
(* The programs that run outside the kernel, each by itself: the shell and *)
(* init over the system calls, the shell's parser on every line of tokens, *)
(* the allocator of the user library, grep's matcher on every pattern and  *)
(* text, and mkfs.  The variable part says which of them a behaviour is    *)
(* about.                                                                  *)
(***************************************************************************)
EXTENDS Shell, Grep

CONSTANTS MaxTokens,                   \* the longest line for the parser
          MaxPattern, MaxText,         \* the longest pattern and text
          MinCore, Limit, MaxUnits,    \* of Umalloc
          BSIZE, NDIRECT, NINDIRECT, nmeta, FSSIZE, NINODES, Word    \* of Mkfs

VARIABLES part, line, re, text,
          header, freep, brk, given, refused,
          disk, inode, freeinode, freeblock, bitmap, content, done

Allocator == INSTANCE Umalloc
FirstImage == INSTANCE Mkfs

matcherVars == <<re, text>>
heapVars == <<header, freep, brk, given, refused>>
imageVars == <<disk, inode, freeinode, freeblock, bitmap, content, done>>

(* A pipeline with a list and redirections in it, a pipeline in the        *)
(* background, and a syntax error.                                         *)
Typed ==
  {<<"(", "a", "<", "a", ";", "a", ")", "|", "a", ">", "a">>,
   <<"a", "|", "a", "&">>,
   <<"(", "a">>}

UserInit ==
  /\ part \in {"shell", "parser", "malloc", "grep", "mkfs"}
  /\ Init /\ line = <<>> /\ Allocator!Init /\ re = <<>> /\ text = <<>> /\ FirstImage!Init

(* The inputs of the two algorithms grow by one token or character.        *)
LineGrows == Len(line) < MaxTokens /\ \E t \in Token : line' = Append(line, t)

PatternGrows ==
  /\ Len(re) < MaxPattern /\ text = <<>>
  /\ \E c \in {"a", "b", ".", "*", "^", "$"} : re' = Append(re, c)
  /\ UNCHANGED text

TextGrows ==
  /\ Len(text) < MaxText
  /\ \E c \in {"a", "b", "$"} : text' = Append(text, c)
  /\ UNCHANGED re

ShellPart == part = "shell" /\ Next /\ UNCHANGED <<part, line, matcherVars, heapVars, imageVars>>
ParserPart == part = "parser" /\ LineGrows /\ UNCHANGED <<part, vars, matcherVars, heapVars, imageVars>>
MallocPart == part = "malloc" /\ Allocator!Next /\ UNCHANGED <<part, vars, line, matcherVars, imageVars>>
GrepPart == /\ part = "grep" /\ (PatternGrows \/ TextGrows)
            /\ UNCHANGED <<part, vars, line, heapVars, imageVars>>
MkfsPart == part = "mkfs" /\ FirstImage!Next /\ UNCHANGED <<part, vars, line, matcherVars, heapVars>>

UserNext == ShellPart \/ ParserPart \/ MallocPart \/ GrepPart \/ MkfsPart

userVars == <<part, vars, line, matcherVars, heapVars, imageVars>>

(* The machine goes on as long as a process can.                           *)
UserSpec ==
  /\ UserInit /\ [][UserNext]_userVars
  /\ WF_vars(part = "shell" /\ (\E x \in Slot : Step(x))
             /\ UNCHANGED <<part, line, matcherVars, heapVars, imageVars>>)
-----------------------------------------------------------------------------
(* parsecmd() returns the command that the grammar gives the line, and     *)
(* panics if it gives none.                                                *)
ParsesExactly == Agree(line)

(* malloc() and free() keep the heap in disjoint blocks without gaps, free *)
(* blocks joined, and malloc() fails only when there is no memory.         *)
HeapSound == Allocator!HeapSound

(* match() finds a pattern exactly where it occurs.                        *)
MatchExact == Matches(re, text)

(* The image mkfs makes holds its files, in blocks of their own.           *)
ImageSound == FirstImage!ImageSound
=============================================================================
