------------------------------ MODULE Pipeline ------------------------------
(***************************************************************************)
(* "left | right" as runcmd() of sh.c runs it, on the pipes of Pipe: the   *)
(* shell's child makes the pipe and forks the two sides, each moves its    *)
(* end to descriptor 1 or 0 and closes the rest, and the shell closes both *)
(* ends before it waits.  left writes until a write fails, right reads to  *)
(* the end of the stream or stops early, and either can be killed.         *)
(***************************************************************************)
EXTENDS Pipe

CONSTANTS sh, left, right

VARIABLE line    \* the next line of each process's program

pipelineVars == <<pipeVars, line>>

(* Descriptors 0 and 1 are the console, so pipe() returns 2 and 3.         *)
rd == 2
wr == 3

Writes == [i \in 1..2 |-> <<"write", 1>>]   \* bound: two writes

(* Variant: the shell keeps the write end while it waits                   *)
ShellLinesKept ==
  << <<"pipe">>, <<"fork", left>>, <<"fork", right>>,
     <<"close", rd>>, <<"wait", 1>>, <<"wait", 2>>, <<"exit">> >>

(* case PIPE of runcmd()                                                   *)
ShellLines ==
  << <<"pipe">>, <<"fork", left>>, <<"fork", right>>,
     <<"close", rd>>, <<"close", wr>>, <<"wait", 1>>, <<"wait", 2>>, <<"exit">> >>

(* The two children, with a program like cat's on either side              *)
LeftLines ==
  << <<"close", 1>>, <<"dup", wr>>, <<"close", rd>>, <<"close", wr>> >>
    \o Writes \o << <<"exit">> >>
RightLines ==
  << <<"close", 0>>, <<"dup", rd>>, <<"close", rd>>, <<"close", wr>>, <<"read", 0>>, <<"exit">> >>

Script ==
  [p \in Process |-> CASE p = sh -> ShellLines [] p = left -> LeftLines [] p = right -> RightLines]

Last(p) == Len(Script[p])
Exited(p) == line[p] > Last(p) /\ At(p, "dead")

PipelineInit == PipeStart(sh, 2) /\ line = [p \in Process |-> 1]

(* The child that wait() reaps is one of those that have exited.           *)
Wait(n) ==
  /\ Cardinality({p \in {left, right} : Exited(p)}) >= n
  /\ UNCHANGED pipeVars

Do(p, i) ==
  CASE i[1] = "pipe" -> SysPipe(p)
    [] i[1] = "fork" -> Fork(p, i[2])
    [] i[1] = "close" -> SysClose(p, i[2])
    [] i[1] = "dup" -> SysDup(p, i[2])
    [] i[1] = "write" -> \E s \in Requests : SysWrite(p, i[2], s)
    [] i[1] = "read" -> SysRead(p, i[2])
    [] i[1] = "wait" -> Wait(i[2])
    [] i[1] = "exit" -> Exit(p)

(* A reader reads again unless the stream has ended; it may also stop. A   *)
(* writer stops at an error.                                               *)
Follows(p) ==
  LET i == Script[p][line[p]] IN
    IF ret[p] \in {"eof", "err"} THEN {Last(p)}
    ELSE IF i[1] = "read" THEN {line[p], Last(p)} ELSE {line[p]}

Program(p) ==
  \/ /\ MayCall(p) /\ line[p] <= Last(p)
     /\ \E n \in Follows(p) :
          /\ Do(p, Script[p][n])
          /\ line' = [line EXCEPT ![p] = IF Script[p][n][1] = "read" THEN n ELSE n + 1]
  \/ /\ killed[p] /\ Exit(p)
     /\ line' = [line EXCEPT ![p] = Last(p) + 1]

Kernel(p) == PipeStep(p) /\ UNCHANGED line

Killed == \E p \in {left, right} : Kill(p) /\ UNCHANGED line

PipelineNext == Killed \/ \E p \in Process : Program(p) \/ Kernel(p)

(* Every process that can go on does.                                      *)
PipelineFairness == \A p \in Process : WF_pipelineVars(Program(p) \/ Kernel(p))

(* The shell gets its prompt back: each side of the pipeline sees the end  *)
(* of the other, by a write that fails or a read that returns 0, also when *)
(* it is asleep, when it is killed, and when a test of killed just missed  *)
(* the kill().                                                             *)
PipelineEnds == <>Exited(sh)
=============================================================================
