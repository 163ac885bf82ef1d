-------------------------------- MODULE Mkfs --------------------------------
(***************************************************************************)
(* The file system image that mkfs.c writes, and the layout of files in it *)
(* (fs.h).  A block holds BSIZE words; a word is a byte of a file, a       *)
(* directory entry (its inum) or, in an indirect block, a block number.    *)
(* All bits of the free map are in one block, as mkfs.c asserts (line 244) *)
(* and as FSSIZE < BPB has it in this build.                               *)
(***************************************************************************)
EXTENDS Integers, Sequences, SequencesExt

CONSTANTS
  BSIZE, NDIRECT,
  nmeta,     \* blocks 0..nmeta - 1: boot, super, log, inodes, free map
  FSSIZE,    \* blocks on the disk
  NINODES

NINDIRECT == BSIZE
MAXFILE == NDIRECT + NINDIRECT
Inum == 1..NINODES
ROOTINO == 1
Block == nmeta..FSSIZE - 1
Zeroes == [w \in 0..BSIZE - 1 |-> 0]
NoInode == [size |-> 0, addrs |-> [k \in 0..NDIRECT |-> 0]]

(* The block that holds the bn-th block of a file, 0 if there is none      *)
Addr(blocks, d, bn) ==
  IF bn < NDIRECT THEN d.addrs[bn]
  ELSE IF d.addrs[NDIRECT] = 0 THEN 0
  ELSE blocks[d.addrs[NDIRECT]][bn - NDIRECT]

-----------------------------------------------------------------------------
Ialloc(m) == [m EXCEPT !.dinode[m.freeinode] = NoInode, !.freeinode = @ + 1]

GetAddr(m, i, k) ==
  IF m.dinode[i].addrs[k] # 0 THEN m
  ELSE [m EXCEPT !.dinode[i].addrs[k] = m.freeblock, !.freeblock = @ + 1]

GetEntry(m, i, k) ==
  LET a == m.dinode[i].addrs[NDIRECT]
  IN  IF m.blocks[a][k] # 0 THEN m
      ELSE [m EXCEPT !.blocks[a][k] = m.freeblock, !.freeblock = @ + 1]

Append1(m, i, word) ==
  LET off == m.dinode[i].size
      fbn == off \div BSIZE
      m1  == GetAddr(m, i, IF fbn < NDIRECT THEN fbn ELSE NDIRECT)
      m2  == IF fbn < NDIRECT THEN m1 ELSE GetEntry(m1, i, fbn - NDIRECT)
      x   == Addr(m2.blocks, m2.dinode[i], fbn)
  IN  [m2 EXCEPT !.blocks[x][off % BSIZE] = word, !.dinode[i].size = off + 1]

Iappend(m, i, words) == FoldLeft(LAMBDA n, w : Append1(n, i, w), m, words)

AddFile(m, words) ==
  LET i == m.freeinode
  IN  Iappend(Iappend(Ialloc(m), ROOTINO, <<i>>), i, words)

(* The size of the root directory is rounded up, to a hole if it was a     *)
(* multiple of BSIZE already.                                              *)
FixRoot(m) == [m EXCEPT !.dinode[ROOTINO].size = (@ \div BSIZE + 1) * BSIZE]

Mkfs(files) ==
  LET empty == [blocks    |-> [b \in Block |-> Zeroes],
                dinode    |-> [i \in Inum |-> NoInode],
                freeblock |-> nmeta, freeinode |-> ROOTINO]
      root  == Iappend(Ialloc(empty), ROOTINO, <<ROOTINO, ROOTINO>>)
      m     == FixRoot(FoldLeft(AddFile, root, files))
  IN  [blocks |-> m.blocks, dinode |-> m.dinode, bitmap |-> 0..m.freeblock - 1]
=============================================================================
