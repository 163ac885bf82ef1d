------------------------------ MODULE MCFiles ------------------------------
(***************************************************************************)
(* Two machines, told apart by the variable part: the contents of files    *)
(* ("data", FileData) and names, inodes and the inode cache ("names",      *)
(* Inodes).                                                                *)
(***************************************************************************)
EXTENDS FileData, TLC

CONSTANTS p1, p2

VARIABLES part,
  dinode, ncommitted, icache, lock, cwd, ofile, c, noutstanding, npanicked, strayed, mix, ncalls

nameVars == <<dinode, ncommitted, icache, lock, cwd, ofile, c, noutstanding, npanicked, strayed, mix, ncalls>>
mcvars == <<part, fileVars, nameVars>>

Symmetry == Permutations({p1, p2})

-----------------------------------------------------------------------------
(* Blocks of two words and two direct blocks: a file of the greatest size  *)
(* has four.  MAXOPBLOCKS = 6 makes the chunks of filewrite() one block.   *)
(* mkfs gives the first file three blocks and an indirect one, and leaves  *)
(* four free, fewer than two such files need.  Process 1 has that file     *)
(* open; process 2 shares its struct file, has one of its own for the same *)
(* file, another file, or the root directory.                              *)
MCRequests == {<<3, 4, 3, 4, 3, 4>>}
MCReadSizes == {1}
MCContents == <<<<1, 2, 1, 2, 1>>, <<>>, <<>>>>
MCOpens == {<<<<2, i>>, <<1, 2>>>> : i \in 1..3} \union {<<<<2, 2>>, <<1, 1>>>>}

-----------------------------------------------------------------------------
(* The root directory has the directory a, with a file b in it, a          *)
(* directory b, or empty; or with a file b in both and no inode left.      *)
MCNames == {"a", "b"}
Entries(i, up, e) == ("." :> i) @@ (".." :> up) @@ e @@ [n \in MCNames |-> 0]
Dir(links, entries) == [type |-> "DIR", nlink |-> links, dir |-> entries]
MCFree == [type |-> "NONE", nlink |-> 0, dir |-> [n \in MCNames \union {".", ".."} |-> 0]]
MCFile == [MCFree EXCEPT !.type = "FILE", !.nlink = 1]
Root == Dir(2, Entries(1, 1, "a" :> 2))
MCTrees ==
  { <<Root, Dir(1, Entries(2, 1, "b" :> 3)), MCFile, MCFree>>,
    <<Root, Dir(2, Entries(2, 1, "b" :> 3)), Dir(1, Entries(3, 2, <<>>)), MCFree>>,
    <<Root, Dir(1, Entries(2, 1, <<>>)), MCFree, MCFree>>,
    <<Dir(2, Entries(1, 1, "a" :> 2 @@ "b" :> 4)), Dir(1, Entries(2, 1, "b" :> 3)), MCFile, MCFile>> }

(* Any two calls; three of those that fight over one file; and four that   *)
(* move in directories while they are removed                              *)
CallsOn(kinds, paths) == [call \in kinds |-> paths]
MCMixes ==
  { [max |-> 2, NINODE |-> 4,
     calls |-> CallsOn({"open", "openwrite", "creat", "mkdir", "mknod", "unlink", "link", "close", "chdir"},
                  {<<TRUE, <<"a">>>>, <<FALSE, <<"a", "b">>>>, <<TRUE, <<"a", "..">>>>})],
    [max |-> 3, NINODE |-> 3,
     calls |-> CallsOn({"open", "creat", "unlink", "close"}, {<<FALSE, <<"a">>>>, <<TRUE, <<"a", "b">>>>})],
    [max |-> 4, NINODE |-> 4,
     calls |-> CallsOn({"unlink"}, {<<TRUE, <<"a">>>>, <<TRUE, <<"a", "b">>>>})
                 @@ CallsOn({"chdir"}, {<<TRUE, <<"a", "b">>>>}) @@ CallsOn({"open"}, {<<FALSE, <<"..">>>>})] }

N == INSTANCE Inodes WITH
  Proc <- {p1, p2}, Names <- MCNames, Trees <- MCTrees, Mixes <- MCMixes,
  committed <- ncommitted, outstanding <- noutstanding, panicked <- npanicked, calls <- ncalls

-----------------------------------------------------------------------------
Init ==
  /\ FileInit /\ N!InodeInit
  /\ \/ part = "data" /\ dinode[3] = MCFree /\ mix.max = 2
     \/ /\ part = "names" /\ ip = <<2, 2>> /\ fd = <<1, 1>>
        /\ mix.max = 4 <=> dinode[3].type = "DIR"
        /\ dinode[4] # MCFree => mix.max = 2

Next ==
  \/ part = "data" /\ FileNext /\ UNCHANGED <<part, nameVars>>
  \/ part = "names" /\ N!InodeNext /\ UNCHANGED <<part, fileVars>>

Spec == Init /\ [][Next]_mcvars

(* Two processes in the names, no crash                                    *)
NamesSpec ==
  /\ Init /\ part = "names"
  /\ [][(\E p \in {p1, p2} : N!InodeStep(p)) /\ UNCHANGED <<part, fileVars>>]_mcvars

-----------------------------------------------------------------------------
(* Files hold the bytes written to them, whatever blocks these are in and  *)
(* whoever else writes, and a crash takes them to the last commit: the     *)
(* data machine implements ByteFiles (readi, writei, fs.c:451-510;         *)
(* fileread, filewrite, file.c:97-156).                                    *)
FilesKeepBytes ==
  /\ Files!Init
  /\ [][part = "data" => [Files!Next]_(Files!vars)]_mcvars

(* The inode cache counts its pointers and agrees with the disk (iget,     *)
(* idup, iput, ilock, iupdate, fs.c:220-351).                              *)
CacheCoherent == part = "names" => N!CacheCoherent

(* On the disk that recovery restores, names lead to allocated inodes and  *)
(* no inode has more names than links (create, sys_link, sys_unlink,       *)
(* sysfile.c:119-283).                                                     *)
NamesLive == part = "names" => N!NamesLive

(* No panic but for want of inodes, and no circle of waits without iput()  *)
(* (fs.c:146-150, 286-351, 624-656).                                       *)
InodesMove == part = "names" => N!InodesMove

(* iput() frees an inode "if the reference and link counts have fallen to  *)
(* zero" (fs.c:117-119).                                                   *)
FreedWhenUnused == part = "names" => N!FreedWhenUnused
=============================================================================
