---------------------------- MODULE MCFileSystem ----------------------------
(* A small image for FileSystem: two-byte blocks and names (for 4096 and   *)
(* 32), so that reads cross block and name boundaries.                     *)
(*   inode 0: 2 bytes in block 0 (its length a multiple of the block);     *)
(*   inode 1: 3 bytes in blocks 1, 2 (its last block part-filled);         *)
(*   inode 2: 2 bytes in block 3;                                          *)
(*   dentries ".", "ls", "c", "rt", "r": the directory, the files of       *)
(*   inodes 1, 2 and 0, and the RTC.  Only "ls" (inode 1) is executable.  *)
(*   "ls" fills its name field without a NUL, "r" is a prefix of "rt",    *)
(*   and one zeroed dentry follows, then the entry past the array.        *)
EXTENDS FileSystem, TLC

MCInodeLen    == (0 :> 2 @@ 1 :> 3 @@ 2 :> 2)
MCInodeBlocks == (0 :> <<0>> @@ 1 :> <<1, 2>> @@ 2 :> <<3>>)

\* Reads of every size up to one past a block, from the start of a file.
MCFileReadSizes == 1 .. 3
\* ls reads the directory one whole name (FILENAME_LEN bytes) at a time.
MCDirReadNames  == {2}

MCDentryName  == (0 :> <<".">> @@ 1 :> <<"l", "s">> @@ 2 :> <<"c">>
                  @@ 3 :> <<"r", "t">> @@ 4 :> <<"r">>)
MCDentryType  == (0 :> 1 @@ 1 :> 2 @@ 2 :> 2 @@ 3 :> 2 @@ 4 :> 0)
MCDentryInode == (0 :> 0 @@ 1 :> 1 @@ 2 :> 2 @@ 3 :> 0 @@ 4 :> 0)
\* Every dentry's name, the empty name, a prefix of a full-length name,
\* that name with one character more, an unknown name, "stdout", and "s",
\* which open_handler's prefix test takes for "stdin".
MCOpenNames ==
    {<<>>, <<".">>, <<"l", "s">>, <<"l">>, <<"l", "s", "x">>, <<"c">>,
     <<"r", "t">>, <<"r">>, <<"x">>, <<"s">>,
     <<"s", "t", "d", "o", "u", "t">>}

\* Commands: a program, a program with an argument, an unknown program with
\* an argument, a non-executable, a leading space, two spaces and two
\* arguments, the directory.
MCCommands ==
    {<<"l", "s">>, <<"l", "s", " ", "c">>, <<"x", " ", "c">>, <<"c">>,
     <<" ", "l", "s">>, <<"l", "s", " ", " ", "c", " ", "r">>, <<".">>}
=============================================================================
