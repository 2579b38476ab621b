----------------------------- MODULE FileSystem -----------------------------
(***************************************************************************)
(* The read-only file system (filesystem.c) and the descriptors of the     *)
(* PCBs (syscall.c open, read and close handlers, execute and getargs).    *)
(*                                                                         *)
(* An image is given by constants: the inodes' lengths and data-block      *)
(* lists and the number of dentries.  A byte is abstracted to where it     *)
(* comes from: byte p of inode i, byte k of dentry d's name, the zero      *)
(* padding after a file's data in its last block, or a zeroed dentry.     *)
(* The read loops are translated as recursive operators, iteration by      *)
(* iteration, so that their loop guards are the code's.                    *)
(***************************************************************************)
EXTENDS Integers, Sequences, FiniteSets, TLC

CONSTANTS
    BLOCK_SIZE,     \* bytes per data block (4096)
    FILENAME_LEN,   \* bytes per dentry name (32)
    InodeLen,       \* inode -> its length field
    InodeBlocks,    \* inode -> sequence of its data_block_num entries in use
    DirCount,       \* boot block dir_count
    DENTRY_SIZE,    \* the bound of read_dentry_by_name's loop (64)
    DentryName,     \* dentry d -> its filename, a sequence of characters
    DentryType,     \* dentry d -> its filetype (0 rtc, 1 directory, 2 file)
    DentryInode,    \* dentry d -> its inode_num
    OpenNames,      \* the filenames programs pass to open()
    ElfInodes,      \* inodes whose first four bytes are 7F 45 4C 46
    maxInputLength, \* bound of execute's argument copy (127)
    MaxProcs,       \* processes one terminal can hold (programMax less
                    \* the other terminals' shells)
    Commands,       \* the command strings programs pass to execute()
    MaxFd,          \* highest descriptor modelled (fdMax is 7): fds 0..MaxFd
    FileReadSizes,  \* nbytes values programs pass to read() on a file
    DirReadSizes    \* nbytes values programs pass to read() on "." 

Inodes     == DOMAIN InodeLen
InodeCount == Cardinality(Inodes)           \* boot block inode_count

ASSUME /\ Inodes = 0 .. InodeCount - 1
       /\ \A i \in Inodes : Len(InodeBlocks[i]) * BLOCK_SIZE >= InodeLen[i]
       /\ DOMAIN DentryName = 0 .. DirCount - 1
       /\ \A d \in 0 .. DirCount - 1 : Len(DentryName[d]) <= FILENAME_LEN

Byte(src, a, b) == [src |-> src, a |-> a, b |-> b]
Pad == Byte("pad", 0, 0)                    \* zero bytes of a data block
Nul == Byte("nul", 0, 0)                    \* bytes of an unused dentry

\* data_block_num[idx] of inode i: entries past the ones in use are zero.
BlockNum(i, idx) ==
    IF idx < Len(InodeBlocks[i]) THEN InodeBlocks[i][idx + 1] ELSE 0

\* data_addr[b].val[d]: the byte of the inode whose data block b is.
DataByte(b, d) ==
    LET owners == UNION {{<<i, k>> : k \in {k \in 0 .. Len(InodeBlocks[i]) - 1 :
                                                InodeBlocks[i][k + 1] = b}} :
                         i \in Inodes}
    IN  IF owners = {} THEN Pad
        ELSE LET o == CHOOSE o \in owners : TRUE
                 p == o[2] * BLOCK_SIZE + d
             IN  IF p < InodeLen[o[1]] THEN Byte("file", o[1], p) ELSE Pad

\* Fault seeded for mutation analysis: block index and offset swapped.
ByteAtSwapped(i, pos) ==
    DataByte(BlockNum(i, pos % BLOCK_SIZE), pos \div BLOCK_SIZE)

\* Body of read_data's loop: the byte at cur_pos of inode i.
ByteAt(i, pos) == DataByte(BlockNum(i, pos \div BLOCK_SIZE), pos % BLOCK_SIZE)

(* read_data(inode, offset, buf, length): iteration i copies one byte when *)
(* length >= offset + read_counter (cur_pos = offset + read_counter).      *)
RECURSIVE ReadLoop(_, _, _, _)
ReadLoop(inode, pos, i, length) ==
    IF i >= length THEN <<>>
    ELSE IF InodeLen[inode] >= pos
         THEN <<ByteAt(inode, pos)>> \o ReadLoop(inode, pos + 1, i + 1, length)
         ELSE ReadLoop(inode, pos, i + 1, length)

read_data(inode, offset, length) ==
    IF inode > InodeCount THEN -1 ELSE ReadLoop(inode, offset, 0, length)

\* boot_block->direntries[d].filename[k]; dentries past dir_count are zero.
NameByte(d, k) == IF d < DirCount THEN Byte("name", d, k) ELSE Nul

(* directory_read(inode, offset, buf, length): the loop tests idx before   *)
(* recomputing it from cur_pos, and returns the iteration count.           *)
RECURSIVE DirLoop(_, _, _, _)
DirLoop(pos, i, idx, length) ==
    IF ~(i < length /\ idx < DirCount) THEN <<>>
    ELSE LET nidx == pos \div FILENAME_LEN
         IN  <<NameByte(nidx, pos % FILENAME_LEN)>>
                 \o DirLoop(pos + 1, i + 1, nidx, length)

directory_read(offset, length) ==
    DirLoop(offset, 0, offset \div FILENAME_LEN, length)

(* Reference definitions, from the specification: the contents of a file *)
(* and the concatenated names of the directory.                          *)
FileContents(i) == [k \in 1 .. InodeLen[i] |-> Byte("file", i, k - 1)]
DirContents ==
    [k \in 1 .. DirCount * FILENAME_LEN |->
        Byte("name", (k - 1) \div FILENAME_LEN, (k - 1) % FILENAME_LEN)]

-----------------------------------------------------------------------------
(* Name lookup.  A C string is a sequence of characters; the character    *)
(* after its last one is NUL ("").  A dentry's name of FILENAME_LEN        *)
(* characters has no NUL.                                                  *)
CharAt(str, k) == IF k < Len(str) THEN str[k + 1] ELSE ""

\* strncmp(a, b, n) == 0: a and b agree up to n characters or a NUL.
StrnEq(a, b, n) ==
    \A k \in 0 .. n - 1 :
        (\A j \in 0 .. k - 1 : CharAt(a, j) /= "") => CharAt(a, k) = CharAt(b, k)

(* boot_block->direntries[i].filename: the boot block holds DENTRY_SIZE-1  *)
(* dentries, zeroed past dir_count; index DENTRY_SIZE-1 is past the array, *)
(* in inode 0's block, whose first word is inode 0's length and never a    *)
(* printable name.                                                         *)
DentryChars(i) ==
    CASE i < DirCount        -> DentryName[i]
      [] i < DENTRY_SIZE - 1 -> <<>>
      [] OTHER               -> <<"inode0.length">>

\* The filetype of direntries[i] (zero for a zeroed dentry).
FiletypeOf(i) == IF i < DirCount THEN DentryType[i] ELSE 0

\* read_dentry_by_name's loop: the first i < DENTRY_SIZE whose name matches.
RECURSIVE NameLoop(_, _)
NameLoop(fname, i) ==
    IF i >= DENTRY_SIZE THEN -1
    ELSE IF StrnEq(DentryChars(i), fname, FILENAME_LEN) THEN i
    ELSE NameLoop(fname, i + 1)

\* read_dentry_by_name without its length check.
read_dentry_by_name_unchecked(fname) == NameLoop(fname, 0)

\* read_dentry_by_name: names longer than FILENAME_LEN fail.
read_dentry_by_name(fname) ==
    IF Len(fname) > FILENAME_LEN THEN -1 ELSE NameLoop(fname, 0)

STDIN  == <<"s", "t", "d", "i", "n">>
STDOUT == <<"s", "t", "d", "o", "u", "t">>

(* What open_handler resolves a name to before it fills the descriptor:    *)
(* -1, "stdin", "stdout", or the index of the dentry found.  An empty name *)
(* fails; a name matched by strncmp against "stdin"/"stdout" over its own  *)
(* length rebinds fd 0/1; an unknown name or file type fails.              *)
OpenResult(name) ==
    LET d == read_dentry_by_name(name) IN
    CASE name = <<>>                       -> -1
      [] StrnEq(name, STDIN, Len(name))    -> "stdin"
      [] StrnEq(name, STDOUT, Len(name))   -> "stdout"
      [] d = -1                            -> -1
      [] FiletypeOf(d) \notin {0, 1, 2}    -> -1
      [] OTHER                             -> d

(* Reference, spec 4.3: lookup_by_name finds the dentry whose name is     *)
(* the given one; names longer than 32 bytes and the empty name fail.      *)
SpecLookup(name) ==
    IF \E d \in 0 .. DirCount - 1 : DentryName[d] = name
    THEN CHOOSE d \in 0 .. DirCount - 1 : DentryName[d] = name
    ELSE -1

-----------------------------------------------------------------------------
(* execute's command parse (syscall.c): the executable name runs up to the *)
(* first ' ' or '\n' or the end; the spaces after it are skipped; the rest *)
(* is copied while the command index is below maxInputLength.             *)
RECURSIVE ExecEnd(_, _)
ExecEnd(cmd, i) ==
    IF CharAt(cmd, i) \in {"", " ", "\n"} THEN i ELSE ExecEnd(cmd, i + 1)

RECURSIVE SkipSpaces(_, _)
SkipSpaces(cmd, i) ==
    IF CharAt(cmd, i) = " " THEN SkipSpaces(cmd, i + 1) ELSE i

ExecName(cmd) == SubSeq(cmd, 1, ExecEnd(cmd, 0))

ArgsOf(cmd) ==
    LET i == SkipSpaces(cmd, ExecEnd(cmd, 0))
        e == IF Len(cmd) < maxInputLength THEN Len(cmd) ELSE maxInputLength
    IN  SubSeq(cmd, i + 1, e)

\* The inode_num of direntries[d] (zero for a zeroed dentry).
InodeOf(d) == IF d < DirCount THEN DentryInode[d] ELSE 0

\* What getargs returns and what it leaves in the user's buffer.
Fail     == [ret |-> -1, buf |-> <<>>]
Got(str) == [ret |-> 0, buf |-> str]

\* getargs without the argbuf[0] test.
getargs_flag_only(pcb) == IF pcb.argsflag = 0 THEN Fail ELSE Got(pcb.argbuf)

(* getargs_handler on the current PCB: -1 unless argsflag is set and       *)
(* argbuf is not empty; otherwise the whole of argbuf (nbytes is unused).  *)
getargs_handler(pcb) ==
    IF pcb.argsflag = 0 \/ CharAt(pcb.argbuf, 0) = "" THEN Fail
    ELSE Got(pcb.argbuf)

(* Reference, spec 5: the argument string is what follows the executable   *)
(* name and the whitespace after it; getargs fails when it is absent.      *)
SpecArgs(cmd) ==
    LET rest == SubSeq(cmd, SkipSpaces(cmd, ExecEnd(cmd, 0)) + 1, Len(cmd))
    IN  IF rest = <<>> THEN Fail ELSE Got(rest)

-----------------------------------------------------------------------------
(* Descriptors (syscall.h file_descriptor_t): each PCB's pcb_arr, fds      *)
(* 0..MaxFd of it.  ops names the operations table the descriptor points   *)
(* at ("none" for one never opened).  name and got are ghosts: the name    *)
(* it was opened with and the bytes read through it since.                 *)
fdMin == 0
fdMax == 7
Fds   == 0 .. MaxFd

FreeDesc == [flags |-> 0, ops |-> "none", inode |-> 0, pos |-> 0,
             name |-> <<>>, got |-> <<>>]
\* open_handler's stdin/stdout branch: the terminal table at position 0.
TerminalDesc == [flags |-> 1, ops |-> "terminal", inode |-> 0, pos |-> 0,
                 name |-> <<>>, got |-> <<>>]

\* The operations table open_handler installs for each file type.
OpsOf == (0 :> "rtc" @@ 1 :> "directory" @@ 2 :> "file")

(* The free descriptor open_handler fills: position 0, in use, inode 0,   *)
(* then the table of the file type (and, for a file, its inode); for an    *)
(* unknown type the descriptor stays in use with its old table.            *)
Opened(old, type, inode, name) ==
    [flags |-> 1, pos |-> 0, name |-> name, got |-> <<>>,
     inode |-> IF type = 2 THEN inode ELSE 0,
     ops |-> IF type \in DOMAIN OpsOf THEN OpsOf[type] ELSE old.ops]

\* open_handler's loop: the first fd of 2..PCB_SIZE-1 whose flags are 0.
FreeFd(t) ==
    LET free == {fd \in 2 .. MaxFd : t[fd].flags = 0}
    IN  IF free = {} THEN -1 ELSE CHOOSE fd \in free : \A g \in free : fd <= g

(* read_ptr(inode, file_position, buf, n) of a descriptor's table:         *)
(* file_read is read_data; rtc_read waits for a tick and returns 0.        *)
read_ptr(d, n) ==
    CASE d.ops = "file"      -> read_data(d.inode, d.pos, n)
      [] d.ops = "directory" -> directory_read(d.pos, n)
      [] OTHER               -> <<>>

\* Fault seeded for mutation analysis: file_position is not advanced.
ConsumeNoAdvance(d, n) == [d EXCEPT !.got = @ \o read_ptr(d, n)]

\* Fault seeded for mutation analysis: file_position += nbytes.
ConsumeRequested(d, n) ==
    [d EXCEPT !.pos = @ + n, !.got = @ \o read_ptr(d, n)]

\* read_handler's call of read_ptr, then file_position += ret.
Consume(d, n) ==
    LET got == read_ptr(d, n) IN [d EXCEPT !.pos = @ + Len(got), !.got = @ \o got]

VARIABLES
    procs,          \* the terminal's PCBs, base shell first, current last
    args_flag       \* syscall.c's global args_flag

vars == <<procs, args_flag>>

\* pcb_current's descriptor fd.
Cur(fd) == procs[Len(procs)].fds[fd]

(* open_handler(name): an empty name fails; a prefix of "stdin"/"stdout"  *)
(* rebinds fd 0/1; a name found by read_dentry_by_name takes the first     *)
(* free fd of 2..7 (none free: -1), and an RTC sets the PCB's rtc_flag.    *)
OpenHandler(name) ==
    LET c  == Len(procs)
        d  == read_dentry_by_name(name)
        fd == FreeFd(procs[c].fds)
    IN  /\ CASE name = <<>> -> UNCHANGED procs
             [] StrnEq(name, STDIN, Len(name)) ->
                    procs' = [procs EXCEPT ![c].fds[0] = TerminalDesc]
             [] StrnEq(name, STDOUT, Len(name)) ->
                    procs' = [procs EXCEPT ![c].fds[1] = TerminalDesc]
             [] d = -1 \/ fd = -1 -> UNCHANGED procs
             [] OTHER ->
                    procs' = [procs EXCEPT
                        ![c].fds[fd] = Opened(@, FiletypeOf(d), InodeOf(d), name),
                        ![c].rtcFlag = IF FiletypeOf(d) = 0 THEN 1 ELSE @]
        /\ UNCHANGED args_flag

(* read_handler(fd, buf, n): -1 for fd outside 0..7, for fd 1 and for a    *)
(* free fd; fd 0 goes to terminal_read, which changes no file-system       *)
(* state; any other fd to its table's read_ptr, then file_position += ret. *)
ReadHandler(fd, n) ==
    /\ fd >= fdMin /\ fd <= fdMax /\ fd /= fdMin + 1
    /\ Cur(fd).flags = 1
    /\ fd /= 0
    /\ procs' = [procs EXCEPT ![Len(procs)].fds[fd] = Consume(@, n)]
    /\ UNCHANGED args_flag

(* close_handler(fd): -1 for fd outside 2..7 or a free fd; otherwise the   *)
(* flag is cleared (close_ptr is never called); the ghosts are reset.     *)
CloseHandler(fd) ==
    /\ fd >= fdMin + 2 /\ fd <= fdMax
    /\ Cur(fd).flags = 1
    /\ procs' = [procs EXCEPT ![Len(procs)].fds[fd] =
                    [@ EXCEPT !.flags = 0, !.name = <<>>, !.got = <<>>]]
    /\ UNCHANGED args_flag

\* A new PCB's table: open_handler("stdin") and ("stdout"); 2..7 free.
ChildFds == [fd \in Fds |-> IF fd \in {0, 1} THEN TerminalDesc ELSE FreeDesc]

(* execute(cmd) from the current process: past the process-count check,  *)
(* the parse sets args_flag when there are arguments (and never clears    *)
(* it), even if the lookup or the magic check then fails; on success the  *)
(* child's PCB gets the arguments and the global flag, stdin and stdout,   *)
(* and becomes the current one.                                            *)
Execute(cmd) ==
    LET args == ArgsOf(cmd)
        flag == IF args /= <<>> THEN 1 ELSE args_flag
        d    == read_dentry_by_name(ExecName(cmd))
    IN  /\ Len(procs) < MaxProcs
        /\ args_flag' = flag
        /\ IF d /= -1 /\ InodeOf(d) \in ElfInodes
           THEN procs' = Append(procs, [cmd |-> cmd, argbuf |-> args,
                                        argsflag |-> flag, fds |-> ChildFds,
                                        rtcFlag |-> 0])
           ELSE UNCHANGED procs

(* halt of a program other than the base shell: argbuf and argsflag are   *)
(* cleared, fds 2..7 closed, and its parent's PCB becomes the current one; *)
(* the halted PCB is not looked at again (module Kernel models its reuse). *)
Halt ==
    /\ Len(procs) > 1
    /\ procs' = SubSeq(procs, 1, Len(procs) - 1)
    /\ UNCHANGED args_flag

Init ==
    /\ procs = <<[cmd |-> <<>>, argbuf |-> <<>>, argsflag |-> 0,
                  fds |-> ChildFds, rtcFlag |-> 0]>>
    /\ args_flag = 0

\* The nbytes a program passes to read() on a descriptor of table ops.
ReadSizes(ops) == IF ops = "directory" THEN DirReadSizes ELSE FileReadSizes

Next ==
    \/ \E name \in OpenNames : OpenHandler(name)
    \/ \E fd \in Fds : \E n \in ReadSizes(Cur(fd).ops) : ReadHandler(fd, n)
    \/ \E fd \in Fds : CloseHandler(fd)
    \/ \E cmd \in Commands : Execute(cmd)
    \/ Halt

Spec == Init /\ [][Next]_vars

-----------------------------------------------------------------------------
(* Properties *)

\* Every descriptor of every PCB.
Descs == {procs[k].fds[fd] : k \in 1 .. Len(procs), fd \in Fds}

(* Every descriptor open() gave out (fds 2..7) is bound to the dentry of  *)
(* exactly the name it was opened with, as spec 4.3's lookup_by_name finds *)
(* it: that file type's operations and, for a file, its inode.  This rests *)
(* on read_dentry_by_name's length check, its strncmp over FILENAME_LEN on *)
(* names that fill the field without a NUL, its scan of zeroed dentries    *)
(* and of the entry past the array, and on open_handler's type dispatch.  *)
OpenResolvesName ==
    \A k \in 1 .. Len(procs), fd \in 2 .. MaxFd :
        LET d == procs[k].fds[fd]
            e == SpecLookup(d.name)
        IN  d.flags = 1 =>
                /\ e /= -1
                /\ d.ops = OpsOf[DentryType[e]]
                /\ d.ops = "file" => d.inode = DentryInode[e]

(* getargs in every program returns the argument string of the command    *)
(* that started it, or -1 when that command had none, although the global  *)
(* args_flag that execute copies into the child is never cleared: a        *)
(* program started without arguments after any command with arguments      *)
(* carries argsflag = 1 and an empty argbuf.                               *)
GetargsReturnsArgs ==
    \A k \in 2 .. Len(procs) :
        getargs_handler(procs[k]) = SpecArgs(procs[k].cmd)

\* file_position of a regular file reaches at most length + 1.
TypeOK ==
    /\ args_flag \in {0, 1}
    /\ Len(procs) \in 1 .. MaxProcs
    /\ \A k \in 1 .. Len(procs) :
          /\ DOMAIN procs[k].fds = Fds
          /\ procs[k].rtcFlag \in {0, 1}
    /\ \A d \in Descs :
          /\ d.flags \in {0, 1}
          /\ d.ops \in {"none", "terminal", "rtc", "directory", "file"}
          /\ d.ops = "file" => d.pos <= InodeLen[d.inode] + 1

(* Spec 4.3, 5: reads through a descriptor opened on a regular file return *)
(* the bytes of the file its name names, in order from the start, through *)
(* open_handler's lookup and inode copy, read_handler's position           *)
(* accounting and read_data's block lookup, whatever other descriptors    *)
(* and programs did in between.                                            *)
FileBytesFaithful ==
    \A d \in Descs :
        d.flags = 1 /\ d.ops = "file" =>
            LET i == DentryInode[SpecLookup(d.name)] IN
            \A k \in 1 .. Len(d.got) :
                k <= InodeLen[i] => d.got[k] = FileContents(i)[k]

(* Spec 4.2, 8: for every open regular file, file_position <= length,    *)
(* and a read at the end of the file returns 0 (read_handler adding        *)
(* read_data's count to file_position).                                    *)
FilePositionBound ==
    \A d \in Descs : d.flags = 1 /\ d.ops = "file" => d.pos <= InodeLen[d.inode]

(* Spec 4.3: successive reads of a directory descriptor (directory_read    *)
(* through read_handler) return the dentry names in order and nothing     *)
(* after the last one.                                                     *)
DirListing ==
    \A d \in Descs :
        d.flags = 1 /\ d.ops = "directory" =>
            /\ Len(d.got) <= Len(DirContents)
            /\ \A k \in 1 .. Len(d.got) : d.got[k] = DirContents[k]

=============================================================================
