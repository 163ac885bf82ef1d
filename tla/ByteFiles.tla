------------------------------ MODULE ByteFiles ------------------------------
(***************************************************************************)
(* What the file system promises about the contents of files: a file is a  *)
(* sequence of bytes; a write places its bytes at the file's offset, a few *)
(* at a time, and no read sees a part of a chunk; a crash takes every file *)
(* back to one earlier moment, never to the middle of a chunk.             *)
(***************************************************************************)
EXTENDS Integers, Sequences

CONSTANTS Proc, File, Inum, MaxChunk, MaxSize

VARIABLES content, saved,  \* the bytes of each file, now and after a crash
          ip, fd, off,     \* open files; whose they are; their offsets
          writer,          \* who is writing a chunk of it (0: nobody)
          todo, put,       \* bytes still to write; how many of this chunk are
          got              \* what a read returned

vars == <<content, saved, ip, fd, off, writer, todo, put, got>>

Ip(p) == ip[fd[p]]
Lesser(a, b) == IF a < b THEN a ELSE b
Over(c, k, x) ==   \* the bytes c with x placed at offset k <= Len(c)
  SubSeq(c, 1, k) \o x \o SubSeq(c, k + Len(x) + 1, Len(c))

(* In every action what is cheap to compare comes first.                   *)
Write(p, s) ==
  /\ todo[p] = <<>> /\ s # <<>> /\ todo' = [todo EXCEPT ![p] = s]
  /\ UNCHANGED <<ip, fd, off, writer, put, got, content, saved>>

Chunk(p) ==
  /\ todo[p] # <<>> /\ writer[Ip(p)] = 0
  /\ off[fd[p]] + Lesser(Len(todo[p]), MaxChunk) <= MaxSize
  /\ writer' = [writer EXCEPT ![Ip(p)] = p]
  /\ UNCHANGED <<ip, fd, off, todo, put, got, content, saved>>

Put(p, m) ==
  /\ writer[Ip(p)] = p /\ put[p] + m <= Lesser(Len(todo[p]), MaxChunk)
  /\ put' = [put EXCEPT ![p] = @ + m]
  /\ UNCHANGED <<ip, fd, off, writer, todo, got, saved>>
  /\ content' = [content EXCEPT ![Ip(p)] =
       Over(@, off[fd[p]] + put[p], SubSeq(todo[p], put[p] + 1, put[p] + m))]

Done(p) ==
  /\ writer[Ip(p)] = p /\ put[p] = Lesser(Len(todo[p]), MaxChunk)
  /\ off' = [off EXCEPT ![fd[p]] = @ + put[p]]
  /\ todo' = [todo EXCEPT ![p] = SubSeq(@, put[p] + 1, Len(@))]
  /\ put' = [put EXCEPT ![p] = 0]
  /\ writer' = [writer EXCEPT ![Ip(p)] = 0]
  /\ UNCHANGED <<ip, fd, got, content, saved>>

TooLong(p) ==
  /\ todo[p] # <<>> /\ todo' = [todo EXCEPT ![p] = <<>>]
  /\ off[fd[p]] + Lesser(Len(todo[p]), MaxChunk) > MaxSize
  /\ UNCHANGED <<ip, fd, off, writer, put, got, content, saved>>

Read(p) ==
  LET c == content[Ip(p)]
  IN  /\ got'[p] # <<>> /\ got[p] = <<>> /\ todo[p] = <<>> /\ writer[Ip(p)] = 0
      /\ got' = [got EXCEPT ![p] = got'[p]]
      /\ off' = [off EXCEPT ![fd[p]] = @ + Len(got'[p])]
      /\ got'[p] = SubSeq(c, off[fd[p]] + 1, off'[fd[p]])
      /\ UNCHANGED <<ip, fd, writer, todo, put, content, saved>>

Forget(p) ==
  /\ got[p] # <<>> /\ got' = [got EXCEPT ![p] = <<>>]
  /\ UNCHANGED <<ip, fd, off, writer, todo, put, content, saved>>

(* The only process that has the file open removes it and makes it anew.   *)
Truncate(p) ==
  /\ \A q \in Proc \ {p} : Ip(q) # Ip(p)
  /\ off' = [off EXCEPT ![fd[p]] = 0]
  /\ UNCHANGED <<ip, fd, writer, todo, put, got>>
  /\ content' = [content EXCEPT ![Ip(p)] = <<>>] /\ UNCHANGED saved

Save ==
  /\ \A i \in Inum : writer[i] = 0
  /\ UNCHANGED <<ip, fd, off, writer, todo, put, got>>
  /\ saved' = content /\ UNCHANGED content

Crash ==
  /\ off' = [f \in File |-> 0] /\ writer' = [i \in Inum |-> 0]
  /\ todo' = [p \in Proc |-> <<>>] /\ put' = [p \in Proc |-> 0]
  /\ got' = [p \in Proc |-> <<>>]
  /\ UNCHANGED <<ip, fd, saved>> /\ content' = saved

Init ==
  /\ saved = content
  /\ off = [f \in File |-> 0] /\ writer = [i \in Inum |-> 0]
  /\ todo = [p \in Proc |-> <<>>] /\ put = [p \in Proc |-> 0]
  /\ got = [p \in Proc |-> <<>>]

Next ==
  \/ \E p \in Proc :
       \/ Write(p, todo'[p]) \/ Chunk(p) \/ Done(p) \/ TooLong(p)
       \/ \E m \in 1..MaxChunk : Put(p, m)
       \/ Read(p) \/ Forget(p) \/ Truncate(p)
  \/ Save \/ Crash

Spec == Init /\ [][Next]_vars
=============================================================================
