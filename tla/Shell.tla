-------------------------------- MODULE Shell --------------------------------
(***************************************************************************)
(* The shell's parser (sh.c), on lines that gettoken() has cut into tokens *)
(* ("a" for a word, "<" for any redirection), against the grammar it is    *)
(* for.  A command is a tree; a word in it is the place of its token.      *)
(***************************************************************************)
EXTENDS Integers, Sequences, SequencesExt

CONSTANT MAXARGS

\* A parse that goes on at token i; panic() ends it.
Parsed(t, i) == [cmd |-> t, at |-> i]
Panic == Parsed(<<"panic">>, 0)
Bind(r, F(_, _)) == IF r = Panic THEN Panic ELSE F(r.cmd, r.at)

peek(s, i, toks) == i <= Len(s) /\ s[i] \in toks

RECURSIVE parseredirs(_, _, _)
parseredirs(cmd, s, i) ==
  IF ~peek(s, i, {"<"}) THEN Parsed(cmd, i)
  ELSE IF ~peek(s, i + 1, {"a"}) THEN Panic
  ELSE parseredirs(<<"redir", cmd, i + 1>>, s, i + 2)

\* argv is kept in the EXEC node, which redirections have wrapped by now.
RECURSIVE AddArg(_, _)
AddArg(cmd, i) == IF cmd[1] = "exec" THEN <<"exec", Append(cmd[2], i)>>
                  ELSE <<"redir", AddArg(cmd[2], i), cmd[3]>>
RECURSIVE Argc(_)
Argc(cmd) == IF cmd[1] = "exec" THEN Len(cmd[2]) ELSE Argc(cmd[2])

RECURSIVE Args(_, _, _)
Args(cmd, s, i) ==
  IF i > Len(s) \/ peek(s, i, {"|", ")", "&", ";"}) THEN Parsed(cmd, i)
  ELSE IF s[i] # "a" \/ Argc(cmd) + 1 >= MAXARGS THEN Panic
  ELSE Bind(parseredirs(AddArg(cmd, i), s, i + 1), LAMBDA c, j : Args(c, s, j))

RECURSIVE parseline(_, _)
parseblock(s, i) ==
  Bind(parseline(s, i + 1),
       LAMBDA c, j : IF peek(s, j, {")"}) THEN parseredirs(c, s, j + 1) ELSE Panic)

parseexec(s, i) ==
  IF peek(s, i, {"("}) THEN parseblock(s, i)
  ELSE Bind(parseredirs(<<"exec", <<>>>>, s, i), LAMBDA c, j : Args(c, s, j))

RECURSIVE parsepipe(_, _)
parsepipe(s, i) ==
  Bind(parseexec(s, i),
       LAMBDA c, j : IF ~peek(s, j, {"|"}) THEN Parsed(c, j)
                     ELSE Bind(parsepipe(s, j + 1), LAMBDA d, k : Parsed(<<"pipe", c, d>>, k)))

RECURSIVE Backs(_, _, _)
Backs(cmd, s, i) == IF peek(s, i, {"&"}) THEN Backs(<<"back", cmd>>, s, i + 1) ELSE Parsed(cmd, i)

parseline(s, i) ==
  Bind(parsepipe(s, i),
       LAMBDA c, j : LET b == Backs(c, s, j)
                     IN  IF ~peek(s, b.at, {";"}) THEN b
                         ELSE Bind(parseline(s, b.at + 1), LAMBDA d, k : Parsed(<<"list", b.cmd, d>>, k)))

parsecmd(s) == LET r == parseline(s, 1) IN IF r.at = Len(s) + 1 THEN r.cmd ELSE <<"panic">>

RECURSIVE nulterminate(_)
nulterminate(cmd) ==      \* the words that end in a NUL
  CASE cmd[1] = "exec"  -> ToSet(cmd[2])
    [] cmd[1] = "redir" -> nulterminate(cmd[2]) \union {cmd[3]}
    [] cmd[1] = "back"  -> nulterminate(cmd[2])
    [] OTHER            -> nulterminate(cmd[2]) \union nulterminate(cmd[3])

-----------------------------------------------------------------------------
(***************************************************************************)
(* The grammar: all trees that the tokens i .. j-1 of s can stand for.     *)
(*    line  ::= pipe {&} [; line]        pipe ::= exec [| pipe]            *)
(*    exec  ::= ( line ) {redir}   |   {redir | word}    redir ::= < word  *)
(***************************************************************************)
RECURSIVE Simple(_, _, _)
Simple(s, i, j) ==
  IF i = j THEN {<<"exec", <<>>>>}
  ELSE (IF s[j - 1] = "a" THEN {AddArg(t, j - 1) : t \in Simple(s, i, j - 1)} ELSE {})
       \union (IF j - 1 > i /\ s[j - 1] = "a" /\ s[j - 2] = "<"
               THEN {<<"redir", t, j - 1>> : t \in Simple(s, i, j - 2)} ELSE {})

RECURSIVE Line(_, _, _)
RECURSIVE Block(_, _, _)
Block(s, i, j) ==
  (IF j - i > 1 /\ s[i] = "(" /\ s[j - 1] = ")" THEN Line(s, i + 1, j - 1) ELSE {})
  \union (IF j - i > 2 /\ s[j - 1] = "a" /\ s[j - 2] = "<"
          THEN {<<"redir", t, j - 1>> : t \in Block(s, i, j - 2)} ELSE {})

Exec(s, i, j) == Block(s, i, j) \union {t \in Simple(s, i, j) : Argc(t) < MAXARGS}

RECURSIVE PipeTrees(_, _, _)
PipeTrees(s, i, j) ==
  Exec(s, i, j)
  \union UNION {{<<"pipe", t, u>> : t \in Exec(s, i, k), u \in PipeTrees(s, k + 1, j)}
                : k \in {x \in i .. (j - 1) : s[x] = "|"}}

RECURSIVE BackTrees(_, _, _)
BackTrees(s, i, j) ==
  PipeTrees(s, i, j)
  \union (IF j > i /\ s[j - 1] = "&" THEN {<<"back", t>> : t \in BackTrees(s, i, j - 1)} ELSE {})

Line(s, i, j) ==
  BackTrees(s, i, j)
  \union UNION {{<<"list", t, u>> : t \in BackTrees(s, i, k), u \in Line(s, k + 1, j)}
                : k \in {x \in i .. (j - 1) : s[x] = ";"}}

(* The parser takes exactly the lines of the grammar, builds the one tree  *)
(* the grammar gives them, and ends every word of it with a NUL            *)
(* (sh.c:331-497: pipes bind tighter than &, that tighter than ;).         *)
ParseRight(s) ==
  LET cmd == parsecmd(s)
  IN  /\ Line(s, 1, Len(s) + 1) = IF cmd = <<"panic">> THEN {} ELSE {cmd}
      /\ cmd # <<"panic">> => nulterminate(cmd) = {i \in DOMAIN s : s[i] = "a"}
=============================================================================
