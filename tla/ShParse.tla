------------------------------ MODULE ShParse ------------------------------
(***************************************************************************)
(* The parser of the shell (sh.c), on lines of tokens.                     *)
(*                                                                         *)
(* A line is a sequence of the tokens that gettoken() returns: "a" is a    *)
(* word, "+" is >>.  The commands of struct cmd are records; a word is the *)
(* place of its token in the line.  The parsing functions take the line s  *)
(* and a place i in it (the pointer ps) and return the command and the     *)
(* place after it, or Panic where the code calls panic(), which exits.     *)
(***************************************************************************)
EXTENDS Integers, Sequences, SequencesExt, FiniteSets

CONSTANT MAXARGS

Token == {"a", "<", ">", "+", "|", "&", ";", "(", ")"}

Panic == [ok |-> FALSE]
Parsed(cmd, i) == [ok |-> TRUE, cmd |-> cmd, i |-> i]

execcmd(argv) == [type |-> "EXEC", argv |-> argv]
redircmd(cmd, file, fd) == [type |-> "REDIR", cmd |-> cmd, file |-> file, fd |-> fd]
pipecmd(left, right) == [type |-> "PIPE", left |-> left, right |-> right]
listcmd(left, right) == [type |-> "LIST", left |-> left, right |-> right]
backcmd(cmd) == [type |-> "BACK", cmd |-> cmd]

(* The token at place i; the end of the line is 0 in the code.             *)
gettoken(s, i) == IF i <= Len(s) THEN s[i] ELSE "end"

peek(s, i, toks) == gettoken(s, i) \in toks

RedirFd(tok) == IF tok = "<" THEN 0 ELSE 1

(* parseredirs(): every redirection wraps the command before it.           *)
RECURSIVE parseredirs(_, _, _)
parseredirs(cmd, s, i) ==
  IF ~peek(s, i, {"<", ">", "+"}) THEN Parsed(cmd, i)
  ELSE IF gettoken(s, i + 1) # "a" THEN Panic
  ELSE parseredirs(redircmd(cmd, i + 1, RedirFd(s[i])), s, i + 2)

(* struct execcmd is filled in behind the pointer that the redirections    *)
(* wrap: the command inside gets argv.                                     *)
RECURSIVE WithArgv(_, _)
WithArgv(cmd, argv) ==
  IF cmd.type = "EXEC" THEN execcmd(argv) ELSE [cmd EXCEPT !.cmd = WithArgv(@, argv)]

(* The loop of parseexec(), after the redirections before the first word.  *)
RECURSIVE parseargs(_, _, _, _)
parseargs(ret, argv, s, i) ==
  IF peek(s, i, {"|", ")", "&", ";", "end"}) THEN Parsed(WithArgv(ret, argv), i)
  ELSE IF gettoken(s, i) # "a" \/ Len(argv) + 1 >= MAXARGS THEN Panic
  ELSE LET more == parseredirs(ret, s, i + 1)
       IN IF more.ok THEN parseargs(more.cmd, Append(argv, i), s, more.i) ELSE Panic

(* Faulty: only one & is taken.                                            *)
parsebackOnce(cmd, s, i) ==
  IF peek(s, i, {"&"}) THEN Parsed(backcmd(cmd), i + 1) ELSE Parsed(cmd, i)

(* The loop of parseline(): every & puts what is before it in the          *)
(* background.                                                             *)
RECURSIVE parseback(_, _, _)
parseback(cmd, s, i) ==
  IF peek(s, i, {"&"}) THEN parseback(backcmd(cmd), s, i + 1) ELSE Parsed(cmd, i)

RECURSIVE parseline(_, _), parsepipe(_, _), parseexec(_, _), parseblock(_, _)

parseline(s, i) ==
  LET pipe == parsepipe(s, i)
      cmd == parseback(pipe.cmd, s, pipe.i)
      rest == parseline(s, cmd.i + 1)
  IN IF ~pipe.ok THEN Panic
     ELSE IF ~peek(s, cmd.i, {";"}) THEN cmd
     ELSE IF rest.ok THEN Parsed(listcmd(cmd.cmd, rest.cmd), rest.i) ELSE Panic

parsepipe(s, i) ==
  LET cmd == parseexec(s, i)
      rest == parsepipe(s, cmd.i + 1)
  IN IF ~cmd.ok \/ ~peek(s, cmd.i, {"|"}) THEN cmd
     ELSE IF rest.ok THEN Parsed(pipecmd(cmd.cmd, rest.cmd), rest.i) ELSE Panic

parseblock(s, i) ==
  LET cmd == parseline(s, i + 1)
  IN IF ~cmd.ok THEN Panic
     ELSE IF ~peek(s, cmd.i, {")"}) THEN Panic
     ELSE parseredirs(cmd.cmd, s, cmd.i + 1)

parseexec(s, i) ==
  LET redirs == parseredirs(execcmd(<<>>), s, i)
  IN IF peek(s, i, {"("}) THEN parseblock(s, i)
     ELSE IF redirs.ok THEN parseargs(redirs.cmd, <<>>, s, redirs.i) ELSE Panic

(* parsecmd(): nothing may be left over.                                   *)
parsecmd(s) ==
  LET cmd == parseline(s, 1)
  IN IF cmd.ok THEN IF cmd.i > Len(s) THEN cmd ELSE Panic ELSE Panic
-----------------------------------------------------------------------------
(* What the parser is to recognise: for every stretch i .. j-1 of the line *)
(* the commands that a grammar gives it, whatever is around it.            *)

RECURSIVE Backs(_, _)
Backs(cmd, n) == IF n = 0 THEN cmd ELSE backcmd(Backs(cmd, n - 1))

(* The command with the redirections at the places ops, in their order.    *)
RECURSIVE Redirected(_, _, _, _)
Redirected(cmd, s, ops, done) ==
  IF done = Len(ops) THEN cmd
  ELSE Redirected(redircmd(cmd, ops[done + 1] + 1, RedirFd(s[ops[done + 1]])), s, ops, done + 1)

Places(P) == SetToSortSeq(P, <)

RedirOps(s, i, j) == {k \in i .. j - 1 : s[k] \in {"<", ">", "+"}}

(* i .. j-1 is made of words and redirections to words.                    *)
WordsAndRedirs(s, i, j) ==
  /\ \A k \in i .. j - 1 : s[k] \in {"a", "<", ">", "+"}
  /\ \A k \in RedirOps(s, i, j) : k + 1 < j /\ s[k + 1] = "a"

Arguments(s, i, j) == {k \in i .. j - 1 : s[k] = "a" /\ k - 1 \notin RedirOps(s, i, j)}

RECURSIVE Lines(_, _, _), Pipes(_, _, _)

(* Words and redirections in any order, or a line in parentheses with      *)
(* redirections after it.                                                  *)
Execs(s, i, j) ==
  (IF WordsAndRedirs(s, i, j) /\ Cardinality(Arguments(s, i, j)) < MAXARGS
   THEN {Redirected(execcmd(Places(Arguments(s, i, j))), s, Places(RedirOps(s, i, j)), 0)}
   ELSE {})
  \cup
  UNION {{Redirected(cmd, s, Places(RedirOps(s, k + 1, j)), 0) : cmd \in Lines(s, i + 1, k)} :
      k \in {l \in i + 1 .. j - 1 : /\ s[i] = "(" /\ s[l] = ")"
                                    /\ WordsAndRedirs(s, l + 1, j)
                                    /\ Arguments(s, l + 1, j) = {}}}

Pipes(s, i, j) ==
  Execs(s, i, j) \cup
  UNION {{pipecmd(l, r) : l \in Execs(s, i, k), r \in Pipes(s, k + 1, j)} :
            k \in {l \in i .. j - 1 : s[l] = "|"}}

(* A pipeline, any number of & after it, and perhaps ; and another line.   *)
Lines(s, i, j) ==
  UNION {
    LET first == {Backs(cmd, k - m) : cmd \in Pipes(s, i, m)} IN
    IF k = j THEN first
    ELSE {listcmd(l, r) : l \in first, r \in Lines(s, k + 1, j)} :
    <<m, k>> \in {mk \in (i .. j) \X (i .. j) :
                    /\ mk[1] <= mk[2] /\ \A n \in mk[1] .. mk[2] - 1 : s[n] = "&"
                    /\ mk[2] = j \/ s[mk[2]] = ";"}}

Commands(s) == Lines(s, 1, Len(s) + 1)

(* The parser and the grammar agree on s: parsecmd() returns the one       *)
(* command that the grammar gives s, and panics if there is none.          *)
Agree(s) ==
  LET cmd == parsecmd(s) IN Commands(s) = IF cmd.ok THEN {cmd.cmd} ELSE {}
=============================================================================
