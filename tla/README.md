# TLA+ models of the ECE391 MP3 kernel

These modules model the kernel in `src/mp3/student-distrib`. Every action is translated from the C source. `PROJECT.json` maps each definition to the lines it models, and it lists the runs, the mutants, the findings and the hazards.

## The system

The kernel runs on a single x86 CPU. Three terminals each run a shell, started lazily.

- **Scheduler** (`scheduler.c`). The PIT interrupt (IRQ0) calls `scheduler()`.
  - The first tick executes shell 1 on slot 0.
  - Every later tick saves the running esp/ebp into the PCB of `sched_pid[curr_process]` and moves to `next = (curr+1) % 3`.
  - If that slot has no pid yet, the tick seeds it and executes a new shell there. Otherwise it loads that pid's saved esp/ebp.
  - Each tick also calls `scheduler_remap_video(next)`.
- **Process control** (`syscall.c`).
  - `execute` takes a pid:
    - while `program_count < 3`, it takes `program_count+1` and records the child in `sched_pid[program_count-1]`;
    - after that, it takes the first free `pid_arr` bit and records the child in `sched_pid[curr_terminal]`.
  - `execute` saves its own esp/ebp in the child's PCB and jumps to user mode.
  - `halt` does nothing for pids 1–3. For any other pid it:
    - frees the slot and decrements `program_count`;
    - gives the slot back to the parent;
    - calls `close_handler(2..7)`, and every close of a descriptor in use ends with `sti()`;
    - returns through the esp/ebp saved in the *parent's* PCB.
  - `open` and `close` manage the eight-entry descriptor table.
- **Video paging** (`scheduler.c`, `syscall.c`, `terminal.c`).
  - Each terminal has a virtual video page. It is backed by the VGA buffer when the terminal is in the foreground, and by a private frame otherwise.
  - Alt+F1..F3 (`keyboard.c`) calls `terminal_switch`. That saves the old screen, restores the new one and repoints the pages.
  - `vidmap` maps a user window at 1 GiB onto a video frame.
- **File system** (`filesystem.c`). A read-only image.
  - `read_data` and `directory_read` copy bytes in loops.
  - `read_handler` advances `file_position` by the count they return.
- **Keyboard and terminal input** (`keyboard.c`, `terminal.c`).
  - The keyboard interrupt stores typed bytes in one global `keyBuffer` at `keyBufferIndex`. Alt+F copies `keyBuffer` to and from `term_arr[t].keyBuf`, but not the index.
  - Enter sets the foreground terminal's enter flag. `terminal_read` spins until that flag is set, `keyBuffer[0]` is not NUL and the caller's terminal is visible. It then copies, clears the buffer and resets the index.
  - `terminal_write` clears the caller's enter flag.
- **RTC** (`rtc.c`). One global `rtc_status` is set by the interrupt handler. `rtc_read` spins on it and clears it, and `rtc_open` clears it and sets 2 Hz. `rtc_write` validates a power of two and programs register A.
- **Interrupts and system calls** (`idt_exceptions.c`). Vector 0x80 is a trap gate (`reserved3 = 1`), so a system call runs with IF set unless it calls `cli()`, and `iret` restores IF. That is why a spinning `terminal_read` or `rtc_read` is interleaved with keyboard, PIT and RTC interrupts. The interrupt handlers themselves enter with IF clear (every other vector is an interrupt gate), and each ends with `send_eoi` for its line.
- **PICs** (`i8259.c`). `i8259_init` masks both 8259s and unmasks the cascade line 2. `keyboard_init`, `rtc_initialize` and `pit_init` each `enable_irq` their line with a read-modify-write of the mask. `send_eoi` sends a specific EOI, and for a slave line a second one to master line 2. The PIT handler sends its EOI *before* `scheduler()`, and its `sti()` runs before its `iret`, so on a resumed process other handlers nest on a PIT frame that has not returned.

The scheduler and the keyboard handler both change process and terminal state asynchronously to the system calls. So do the interrupt windows that `sti()` opens inside `close_handler`. That is where the concurrency lies.

## Modules

| Module | Models | State ↔ code |
|---|---|---|
| `Kernel` | scheduler, execute, halt, open/close, Alt+F | `pidArr`=`pid_arr`, `schedPid`=`sched_pid`, `currProcess`/`currTerminal`, `programCount` (uint8, `% 256`), `pcbCurrent`=`pcb_current->pid`, `parent`=`parent_pid`, `esp[p]`=the flow saved in PCB p, `fds[p]`=descriptors in use, `userPage`=slot mapped at 128 MiB, `cpu`=the flow on the CPU |
| `MCKernel` | TLC instance of Kernel | 5 pids, one file descriptor (fd 2), bounds, timing assumption |
| `VideoPaging` | scheduler_remap_video, terminal_switch, remap_video, save/restore, vidmap, terminal_write, key echo | `pte[t]`=frame of terminal t's video page, `vidFrame`=20-bit frame of `page_virtual_mem[0]`, `content[f]`=terminals whose output frame f holds |
| `FileSystem` | read_data, directory_read, open_handler (with read_dentry_by_name), read_handler, close_handler, execute's parse/lookup/magic check, argument passing and stdin/stdout, halt's PCB pop, getargs | `procs` = one terminal's PCBs (base shell first, `pcb_current` last), each with `argbuf`/`argsflag`, `rtcFlag` = `rtc_flag`, the ghost `cmd`, and `fds` = `pcb_arr[0..MaxFd]`: `flags`, `ops` (the operations table), `inode`, `pos` = `file_position`, and the ghosts `name` (the name opened) and `got` (the bytes read through it since); `args_flag` = the global of syscall.c |
| `MCFileSystem` | a three-inode, five-dentry image | 2-byte blocks and 2-byte names, so that block and name boundaries are crossed |
| `Rtc` | rtc_open/read/write/close, set_frequency, the RTC interrupt | `rtcStatus`=`rtc_status`, `regA`=register A, `opened`/`reading` per process; ghosts `tickSince`, `freqSet` |
| `Interrupts` | i8259_init, enable_irq, send_eoi, idt_init's gates and handler_table, do_irq, exception_0..19, the three handlers' EOIs, system-call `cli()`/`sti()` sections; composes `Rtc` | `masterImr`/`slaveImr` = the PICs' masks, `irr` = latched requests, `masterIsr`/`slaveIsr` = in-service bits, `ifFlag` = EFLAGS.IF, `running` = the handler `do_irq` called, `tails` = PIT calls between their `sti()` and `iret`, `rtcFlagged` = the RTC flag register C holds until read; `waitOn` = timing assumption |
| `Terminal` | keyboard_inter_handler and key_press, the keyBuf save/restore of terminal_switch, terminal_read, terminal_write | `keyBuffer` (with the bytes just before and after the array), `keyBufferIndex`, `keyBuf[t]`, `enterFlag[t]`, `currTerminal`, `currProcess`, `altPressed`/`ctrlPressed`, `proc[t]`; ghost `line[t]` = spec 4.5's input buffer |

**RTC rate.** `set_frequency`'s validation loop is the `RECURSIVE` operator `RateLoop`. The register-A update uses `Bitwise` `&`/`|` on the masks of `rtc.h`. `RateMatchesRequest` checks the result against the hardware formula `RateHz(r) = 32768 >> (r-1)`.

**Interrupts.** The 8259A itself is hardware. It is modelled from its data sheet in fully nested mode: a latched request is presented when its mask bit is clear and no in-service bit of the same or higher priority is set on its PIC, and a slave request goes through master line 2. `Acknowledge` is INTA, the gate and `do_irq` in one step. It is enabled only while IF is set, so only the interrupt gate keeps handlers from nesting. The three handler actions carry the state change the handler makes on the PIC and IF. The RTC handler also takes `Rtc`'s `RtcInterrupt` step (through `INSTANCE Rtc`). The keyboard and PIT handlers' effects on kernel state are the actions of `Terminal` and `Kernel`. The RTC system calls run from the interrupted context with IF set. `i8259.h`, the asm linkage and `kernel.c` (the boot order) are not in the repository. So the PIC constants are taken from the MP3 specification, and `Init` is the state once all three drivers are initialised. `Exception(v)` is a processor exception of a vector in `ExceptionVectors`, taken whatever IF is. Its interrupt gate clears IF, and `do_irq` calls `handler_table[v]`. `ExceptionSpin` is the handler's `while(1)`. With IF clear and no `sti`, nothing else runs afterwards. The system really does stop there, so the two liveness properties hold "unless an exception handler has the CPU" (`Faulted`).

**Terminal.** Each scan code is one action. It includes the `key_press(input)` call that ends the handler, so that the `keyBufferSize-1` tail runs after Enter, Backspace and modifier presses too. Sizes are scaled, keeping the code's relations: `MIL` = 5 stands for `maxInputLength` = 127, `keyBufferSize` = `MIL+1`, `spacingSet` = 2, and `WRAP` = 2 for the wrap column 73, with one wrap before the limit. `enter_user` lives in `lib.c`, which is not in the repository. Spec 4.5 says Enter sets the enter flag, and no code under `src/` does, so `enter_user` is modelled from the spec.

**Saved stack frames.** `Kernel` does not model saved stack frames as addresses. It models them as *continuations*, which say what the CPU resumes when it loads the frame:

| Continuation | Meaning |
|---|---|
| `Idle` | the boot idle loop |
| `Boot` | the scheduler's fresh stack, to which a returning shell would go |
| `NoCtx` | a PCB never written |
| `Fault` | an exception handler spinning with IF clear |
| `User(p)` | user code of pid p |
| `InExec(p)` | p's pending execute call |
| `InHalt(...)` | a halt interrupted in its close loop |

- `Resume` models `leave; ret` from each of these.
- `DoExecute` is shared by the user `execute` and by the scheduler's two shell launches. Its three outcomes are the code's:
  - the `program_count` check fails;
  - `pid_arr` is full, so `slot` is uninitialised and the program is loaded at an arbitrary page (`Fault`);
  - success.

**File bytes.** `FileSystem` models a byte as the place it came from: byte p of inode i, byte k of dentry d's name, block padding, or a zeroed dentry. The read loops are `RECURSIVE` operators, iteration by iteration, so their guards are the code's. Each read is checked against a reference definition taken from the specification: `FileContents`, and `DirContents`. For name lookup, a file name is a sequence of one-character strings, and NUL is `""`. `StrnEq` is `strncmp(a, b, n) == 0`. `NameLoop` is `read_dentry_by_name`'s loop to `DENTRY_SIZE`, including the index one past the `direntries` array, whose bytes are inode 0's length word. `OpenResult` is `open_handler`'s return value.

**Descriptors.** `OpenHandler` is the whole of `open_handler`:
- the empty-name return;
- the stdin/stdout prefix tests, which rebind fd 0 or 1;
- the lookup;
- `FreeFd`, the search of fds 2..7;
- `Opened`, which fills the entry: position 0, in use, inode 0, then the operations of the file type (and a file's inode). An unknown type leaves the entry in use.

`ReadHandler` has read_handler's refusals. They are fd out of range, fd 1, and a free fd. fd 0 goes to `terminal_read` (Terminal's). Any other fd goes to its table's `read_ptr` and then `file_position += ret` (`Consume`). `CloseHandler` clears the flag. `close_ptr` is never called, so `rtc_flag` stays set. `Execute` gives the child stdin and stdout (`ChildFds`). Every descriptor is checked against spec 4.3's `lookup_by_name` (`SpecLookup`) for the name it was opened with.

**Program arguments.** `execute`'s parse is three recursive scans, as in the code: `ExecEnd` runs to the first space, newline or NUL, `SkipSpaces` skips the spaces, and `ArgsOf` copies up to `maxInputLength`. The parse sets the global `args_flag` before the program lookup, so a failed execute with arguments leaves it set. The flag is never cleared. `Execute` copies it into the child together with `argbuf`. `getargs` changes no kernel state, so it is the operator `getargs_handler`. `GetargsReturnsArgs` checks it for every PCB on the stack against spec 5's argument string (`SpecArgs`). The ELF magic test is abstracted to the set `ElfInodes`, and the program load and paging are `Kernel`'s.

## Runs

| Run | Result | What it shows |
|---|---|---|
| kernel_liveness | pass (≈479k states) | `AllTerminalsScheduled`: every slot eventually gets a pid and keeps it. This holds through executes, halts with their interrupt window, and Alt+F. |
| halt_return | violation | halt resumes the frame the scheduler last saved in the parent's PCB, not the parent's execute (syscall.c:59). |
| running_consistent | violation | Alt+F between a background shell's read and its execute makes execute put the child in the foreground terminal's `sched_pid` slot (syscall.c:337). |
| video_mapping | pass | Under any order of ticks, switches, writes and echoes, only the foreground terminal's page maps VGA, and each screen holds exactly its own terminal's output. |
| vidmap_window | violation | vidmap and terminal_switch point the vidmap window at VGA even for a background program. |
| vidmap_entry_field | violation | `scheduler_remap_video` writes the 4 KiB entry through the 4 MiB `_entry` bitfield (scheduler.c:285), which gives frame 190648. |
| filesystem_reads | pass (≈25k states) | Descriptors are opened, read, closed and reused. `FileBytesFaithful`: reads of 1–3 bytes through a descriptor return, in order, the bytes of the file its name names. `DirListing`: name-sized directory reads list the names in order. Because each read is compared with the file from its first byte, a reused fd that did not start again at position 0 would fail `FileBytesFaithful`. `GetargsReturnsArgs`: each program's `getargs` returns its command's arguments, or -1 when there are none, even though `args_flag` goes stale. `OpenResolvesName`: every descriptor `open` gave out is bound to the dentry of exactly its name, with that type's operations. The names tried include a name that fills its field without a NUL, that name with one more character, a prefix of a name, the empty name and an unknown name. |
| file_position | violation | `read_data` copies one byte past EOF (filesystem.c:106), so `file_position` becomes length+1. |
| interrupts | pass (≈66k states) | `InServiceMatchesDispatch`: a line is in service exactly while the handler dispatched for it has not sent its EOI, and master line 2 exactly while a slave line is. `IrqEventuallyServiced`: every raised PIT, keyboard and RTC request is delivered, through critical sections and nested PIT tails, unless an exception handler has stopped the CPU. `TicksKeepComing`: unless that happens, the PIT and RTC handlers run again and again. This needs register C read in every RTC interrupt, and it is the fairness `Kernel` assumes of `PitTick`. `RtcRateMatchesRequest`: through opens, valid and invalid writes, reads and interrupts, register A keeps its divider bits and selects exactly the last accepted frequency. |
| rtc_lost_wakeup | violation | rtc_open by another process clears the tick a waiting reader was about to see (rtc.c:142). |
| terminal_bounds | violation | Enter on a full line runs the index to keyBufferSize-1, and key_press then stores a newline at `keyBuffer[127]`, past the array (keyboard.c:119). |
| terminal_read_live | violation | keyBufferIndex is not saved on Alt+F. A line entered on the other terminal is stored at the stale index, `keyBuffer[0]` stays NUL, and that terminal's reader never returns (scheduler.c:211, terminal.c:28). |

Each property of a passing run is broken by a mutant of the code: a definition named `...` in the module with a plausible bug, such as a missing guard, a missing `% 3`, a swapped order or a wrong increment. `PROJECT.json` lists the mutants.

## Bounds

- **Kernel**
  - Five pids allow two programs beside the three shells. The code has six, but a sixth adds only symmetric states.
  - One file descriptor lets halt's close loop open an interrupt window.
  - `MaxCalls = 3` allows execute, halt, and a second halt of a misplaced pid.
  - `MaxHaltNest = 2` allows a halt interrupted in its close loop to be resumed by another halt.
  - Every counterexample above needs at most 3 calls.
  - The bounds are a `CONSTRAINT`. Liveness is checked on the bounded graph: in a state at the bound only ticks, switches, halt steps and open/close remain, and those are exactly the steps the liveness properties are about.
- **VideoPaging** has no bounds. Its state space is finite: 654 states.
- **Interrupts**: the three device lines the kernel enables. `MaxTails = 2` allows a device handler to nest on a PIT frame whose `iret` is pending, and a second PIT call on top of it. More nesting repeats the same PIC states. `ExceptionVectors = {0, 14}`: the twenty handlers differ only in the message they print, so two (divide error and page fault) stand for all.
- **Rtc**: two processes, which is the least that shows one process disturbing another's wait. Written values {1, 2, 3, 16, 1024, 2048} include a valid low and a valid high frequency, 2 Hz, a non-power of two, 1 and one above the maximum.
- **Terminal**: two terminals, enough for a switch. One character value is enough to tell bytes apart from holes and newlines. The constraint `IndexBound` stops exploring one byte past the array, where `KeyBufferInBounds` has already failed.
- **FileSystem** uses an image with 2-byte blocks and names:
  - a 2-byte file in one block, where EOF falls exactly on a block boundary;
  - a 3-byte file in two blocks;
  - a 2-byte file in one block;
  - five dentries: ".", "ls", "c", "rt" and "r". "ls" fills the 2-byte name field. "r" is a prefix of "rt". One zeroed dentry and the entry past the array follow (`DENTRY_SIZE = 7`).

  Read sizes 1..3 cross every boundary. The names opened are every dentry's name plus `""`, `"l"`, `"lsx"`, `"x"`, `"s"` and `"stdout"`. Seven commands cover execute's paths: a program with and without an argument, an unknown program with an argument (it sets `args_flag`), a non-executable, the directory, a leading space, and two spaces before two arguments. `MaxProcs = 2` (the shell and one program) is enough for a program without arguments to run after a failed or successful execute with arguments, which is where the stale flag bites. `MaxFd = 2` gives each PCB one descriptor besides stdin and stdout, and that descriptor is opened, closed and reopened on another name. With three PCBs or two user descriptors, the product of the frozen parent's table and the child's table exceeds a few million states. No code path makes two descriptors interact: each has its own `file_position`, and open takes the first free one. `maxInputLength = 7` is the longest command.

## Fairness and timing

- **PitTick: strong fairness.** The PIT raises IRQ0 forever, and the PIC holds it until IF is set. So a tick that is enabled infinitely often is taken.
- **Halt steps: strong fairness.** Kernel code in `halt` keeps running whenever it holds the CPU.
- **No fairness for user code or keys.** Programs and users may stop.
- **Terminal: SF on SchedTick and on ReadReturn.** `terminal_read` re-tests its exit condition for as long as its process holds the CPU. The PIT returns the CPU to it infinitely often, so a condition that holds whenever it runs is eventually seen.
- **Interrupts: SF on `Acknowledge`, WF on handler steps, `PitIret` and `Sti`.** The CPU samples INTR at every instruction boundary while IF is set. IF is cleared again and again, so strong fairness is needed. Kernel code runs on. A PIT call's `iret` gets strong fairness: it runs whenever its flow has the CPU back, but nested RTC and keyboard handlers keep taking the CPU from it. The PIT and the RTC are periodic, so their raise gets weak fairness. The RTC raises only once register C has been read (`rtcFlagged`). The keyboard and programs get no fairness. The timing assumption `waitOn` says a line rises again only after the requests that were pending at its last rise have been taken. The PIT runs at 100 Hz, the RTC at no more than 1024 Hz and typing is slower still, all slow next to a handler. Without it, a higher-priority line could starve a lower one, which the code cannot prevent and does not need to. The same liveness justifies `Kernel`'s fairness on `PitTick`.
- **Rtc has no fairness.** Which reader holds the CPU when a tick comes is not modelled, so the properties checked there are safety only.
- **Timing assumption `ShellsLaunched`.** `MCKernel` makes no execute or halt until the three shells exist, because the first three ticks (about 30 ms) come long before anything can be typed. It is written into `MCNext`: a state constraint would not stop TLC from checking invariants on the pruned states.
- **Deadlock checking is off.** A kernel fault really stops the system: the handler spins with IF clear.

## Not modelled (yet)

- **What `terminal_read` returns.** `ReadCopy` models the copy loop: each non-NUL, non-newline byte goes to `buf[i]` at its own position. While modelling it, we found that a read after type-ahead returns bytes of the next line with holes. We also found that Backspace after Enter (it tests `keyBuffer[keyBufferIndex]`, one past the last byte) leaves the newline and the flag, so a read returns at once. No run checks these yet.
- **The RTC's promise that a read waits for the *next* tick.** A tick left over from before the read makes `rtc_read` return at once (rtc.c:159). No run checks this yet.
- **Arguments of a command longer than 127 characters** (syscall.c:195). The truncation test reads `args[127]`, which is never written. The shell's commands are shorter, so `MCCommands` is too. Nothing models `getargs` overrunning a user buffer shorter than the arguments, since `nbytes` is unused. Whether a command with a leading space runs inode 0 depends on the image. ELF loading and the TSS set-up are register and memory set-up.
- **open of a prefix of "stdin" or "stdout"** (syscall.c:464). `OpenHandler` takes this branch for `"s"` and rebinds fd 0. Spec 4.3 says that open of a name with no dentry returns -1. No run checks that return value. `read_dentry_by_index` is called only by `tests.c`.
- **`write_handler`** and the file, directory and RTC `open`/`close`/`write` operations change no file-system state. `rtc_write` is `Rtc`'s `RtcWrite` and `terminal_write` is `Terminal`'s `Write`. `read_handler`'s `NULL`-buffer test and `close_handler`'s `pcb_current == NULL` test cannot fail on the model's states.
- **Open on an unknown file type** (syscall.c:510). `Opened` models it, but only a corrupt image has such a type, so no run reaches it.
- **The scan-code table `keys_map`** (keyboard.c:28–53, the caps+shift row at line 51) is data. `Terminal` abstracts typed characters to one value. Reading the table shows one slip: in the caps+shift row, scan code 0x2B gives `'\\'`, where the shift row gives `'|'`. No run checks it.
- **A type invariant for `Interrupts`.** `outb` writes the masks as 8-bit values and the in-service bits are set by the PIC, so no change to the code could put them out of range. Such an invariant would check only the model's own bookkeeping, so none is checked; `RtcTypeOK` types the driver state that the code does write.
- **`disable_irq`** has no caller. `default_handler` returns, and no vector is wired to it. The exception handlers' `clear()` and `printf` are screen output and are left out.
- **`paging_initialize`'s kernel mappings, and `tests.c`.** These are register set-up, or tests run at boot.

## Plan for later work

1. An abstract process-tree specification (spawn/exit/return status to parent), with `Kernel` shown to implement it under a refinement mapping. It should fail exactly where `halt_return` fails.
2. Compose `Kernel` with `Terminal` and `VideoPaging`, so that reads, writes and vidmap are driven by the real process state.
3. A run with two user descriptors per PCB, if a cheaper abstraction of the frozen parent's table is found.
