------------------------------- MODULE Kernel -------------------------------
(***************************************************************************)
(* The process table, the PIT-driven scheduler and the execute/halt system *)
(* calls of the kernel in src/mp3/student-distrib (scheduler.c,            *)
(* syscall.c) and the foreground-terminal index of the Alt+F switch.      *)
(*                                                                         *)
(* One CPU.  `cpu' is the flow of control now running; a flow that is not  *)
(* running survives only as a saved kernel stack pointer, i.e. as the      *)
(* `esp'/`ebp' pair in some PCB.  A saved pair is abstracted to the        *)
(* continuation it denotes:                                                *)
(*   User(q)    q's user code (preempted in user mode or spinning in a     *)
(*              blocking read with interrupts on);                        *)
(*   InExec(q)  q's pending execute() call, which returns to q's user code;*)
(*   Boot       the fresh stack the scheduler builds to launch a shell;    *)
(*              the frame below it is garbage, so resuming it faults;      *)
(*   InHalt(..) a halt() interrupted after close_handler re-enabled IF.    *)
(* User programs are arbitrary: whenever user code runs it may make any    *)
(* system call, and the kernel acts on pcb_current, not on whoever runs.   *)
(***************************************************************************)
EXTENDS Integers, FiniteSets

LOCAL FS == INSTANCE FiniteSetsExt

CONSTANTS
    ProgramMax,     \* programMax: number of PCB / 4 MiB program slots
    MaxFd           \* highest descriptor modelled (fdMax is 7); fds 2..MaxFd

ASSUME ProgramMax \in 4..6 /\ MaxFd \in 2..7

NUM_TERM   == 3                     \* NUM_TERM; also the literal 3 of execute
Terms      == 0 .. NUM_TERM - 1
Pids       == 1 .. ProgramMax
FileFds    == 2 .. MaxFd

(* Continuations a saved esp/ebp pair can denote *)
Idle            == [pc |-> "idle"]
Boot            == [pc |-> "boot"]
NoCtx           == [pc |-> "none"]  \* PCB memory never initialised
Fault           == [pc |-> "fault"]
User(q)         == [pc |-> "user", pid |-> q]
InExec(q)       == [pc |-> "exec", pid |-> q]
InHalt(c, k, r, ie) == [pc |-> "halt", pid |-> c, fd |-> k, ret |-> r, ie |-> ie]

VARIABLES
    pidArr,         \* pid_arr: pidArr[p] = 1 iff PCB slot p-1 is taken
    schedPid,       \* sched_pid: pid owning each terminal's quantum
    currProcess,    \* curr_process: terminal slot on the CPU
    currTerminal,   \* curr_terminal: foreground terminal
    programCount,   \* program_count (uint8_t)
    pcbCurrent,     \* pcb_current, as a pid (0 = NULL)
    parent,         \* parent_pid / parent_pcb of each PCB
    esp,            \* esp/ebp saved in each PCB, as a continuation
    fds,            \* descriptors 2..MaxFd in use in each PCB
    userPage,       \* page_dir[32]: 4 MiB program slot mapped at 128 MiB
    cpu,            \* the running flow
    calls           \* ghost: execute/halt system calls made so far

vars == <<pidArr, schedPid, currProcess, currTerminal, programCount,
          pcbCurrent, parent, esp, fds, userPage, cpu, calls>>

-----------------------------------------------------------------------------
(* Helpers *)

EspOf(p) == IF p \in Pids THEN esp[p] ELSE NoCtx

\* What the CPU runs after loading a saved esp/ebp pair and returning.
Resume(r) ==
    CASE r.pc = "exec"           -> User(r.pid)
      [] r.pc \in {"boot", "none"} -> Fault
      [] OTHER                   -> r

\* How many interrupted halts a continuation is nested in.
RECURSIVE HaltDepth(_)
HaltDepth(r) == IF r.pc = "halt" THEN 1 + HaltDepth(r.ret) ELSE 0

\* Interrupts are enabled: user code, the idle loop, or a halt() whose
\* close_handler executed sti().
Interruptible ==
    \/ cpu.pc \in {"idle", "user"}
    \/ cpu.pc = "halt" /\ cpu.ie

(***************************************************************************)
(* execute_handler after its argument checks, for a command naming a valid *)
(* executable: sp and e are sched_pid and the esp table as the caller left *)
(* them, saved is the continuation execute stores as the child's esp/ebp,  *)
(* and onFail is the flow that runs if execute returns -1.                 *)
(***************************************************************************)
DoExecute(sp, e, saved, onFail) ==
    LET free == {p \in Pids : pidArr[p] = 0}
        slot == FS!Min(free) - 1
        base == programCount < NUM_TERM
        pid  == IF base THEN programCount + 1 ELSE slot + 1
    IN  IF programCount >= ProgramMax
        THEN /\ schedPid' = sp /\ esp' = e /\ cpu' = onFail
             /\ UNCHANGED <<pidArr, programCount, pcbCurrent, parent, userPage>>
        ELSE IF free = {}
        \* `slot' is read uninitialised: the program lands anywhere.
        THEN /\ schedPid' = sp /\ esp' = e /\ cpu' = Fault
             /\ UNCHANGED <<pidArr, programCount, pcbCurrent, parent, userPage>>
        ELSE /\ userPage' = slot
             /\ parent' = [parent EXCEPT ![pid] = IF base THEN pid ELSE pcbCurrent]
             /\ esp' = [e EXCEPT ![pid] = saved]
             /\ pidArr' = [pidArr EXCEPT ![pid] = 1]
             /\ schedPid' = [sp EXCEPT ![IF base THEN programCount ELSE currTerminal] = pid]
             /\ programCount' = programCount + 1
             /\ pcbCurrent' = pid
             /\ cpu' = User(pid)


-----------------------------------------------------------------------------
(* The PIT interrupt: pit_interrupt_handler calls scheduler(). *)

\* First branch: sched_pid[0] = 0, launch the shell of terminal 0.
SchedBoot ==
    /\ Interruptible
    /\ schedPid[0] = 0
    /\ DoExecute([schedPid EXCEPT ![0] = 1], esp, Boot, Fault)
    /\ UNCHANGED <<currProcess, currTerminal, fds, calls>>

\* Save the running flow into the PCB of sched_pid[curr_process].
SavedEsp == [esp EXCEPT ![schedPid[currProcess]] = cpu]
\* Fault seeded for mutation analysis: rotation over two slots.
NextSlot == (currProcess + 1) % NUM_TERM

\* The next slot has no pid yet: seed it and execute a shell there.
SchedLazyShell ==
    LET nxt == NextSlot IN
    /\ Interruptible
    /\ schedPid[0] /= 0
    /\ schedPid[nxt] = 0
    /\ currProcess' = nxt
    /\ DoExecute([schedPid EXCEPT ![nxt] = schedPid[currProcess] + 1],
                 SavedEsp, Boot, Fault)
    /\ UNCHANGED <<currTerminal, fds, calls>>

\* Fault seeded for mutation analysis: the sched_pid[next] == 0 test is
\* missing, so an unseeded slot is switched to.
SchedSwitchUnseeded ==
    LET nxt == NextSlot
        np  == schedPid[nxt]
    IN
    /\ Interruptible
    /\ schedPid[0] /= 0
    /\ esp' = SavedEsp
    /\ currProcess' = nxt
    /\ pcbCurrent' = np
    /\ userPage' = np - 1
    /\ cpu' = Resume(IF np \in Pids THEN SavedEsp[np] ELSE NoCtx)
    /\ UNCHANGED <<pidArr, schedPid, currTerminal, programCount, parent, fds, calls>>

\* Normal tick: switch to the pid of the next slot.
SchedSwitch ==
    LET nxt == NextSlot
        np  == schedPid[nxt]
    IN
    /\ Interruptible
    /\ schedPid[0] /= 0
    /\ np /= 0
    /\ esp' = SavedEsp
    /\ currProcess' = nxt
    /\ pcbCurrent' = np
    /\ userPage' = np - 1
    /\ cpu' = Resume(IF np \in Pids THEN SavedEsp[np] ELSE NoCtx)
    /\ UNCHANGED <<pidArr, schedPid, currTerminal, programCount, parent, fds, calls>>

PitTick == SchedBoot \/ SchedLazyShell \/ SchedSwitch

-----------------------------------------------------------------------------
(* System calls made by the running user code *)

\* execute(cmd) for a command naming an executable file.
Execute ==
    /\ cpu.pc = "user"
    /\ DoExecute(schedPid, esp, InExec(cpu.pid), cpu)
    /\ calls' = calls + 1
    /\ UNCHANGED <<currProcess, currTerminal, fds>>

\* halt(status) up to the close_handler calls.  A pid <= 3 returns 0
\* without any state change, so only pid > 3 is an action.
HaltBegin ==
    LET c == pcbCurrent
        p == parent[c]
    IN
    /\ cpu.pc = "user"
    /\ c > NUM_TERM
    /\ pidArr' = [pidArr EXCEPT ![c] = 0]
    /\ schedPid' = [schedPid EXCEPT ![currProcess] = p]
    /\ programCount' = (programCount - 1) % 256
    /\ userPage' = p - 1
    /\ cpu' = InHalt(c, 2, EspOf(p), FALSE)
    /\ calls' = calls + 1
    /\ UNCHANGED <<currProcess, currTerminal, pcbCurrent, parent, esp, fds>>

\* close_handler(fd) called from halt, on pcb_current; closing a
\* descriptor in use ends with sti().
HaltClose ==
    LET p == pcbCurrent
        k == cpu.fd
        inUse == p \in Pids /\ k \in fds[p]
    IN
    /\ cpu.pc = "halt"
    /\ k <= MaxFd
    /\ fds' = IF inUse THEN [fds EXCEPT ![p] = @ \ {k}] ELSE fds
    /\ cpu' = [cpu EXCEPT !.fd = k + 1, !.ie = @ \/ inUse]
    /\ UNCHANGED <<pidArr, schedPid, currProcess, currTerminal, programCount,
                   pcbCurrent, parent, esp, userPage, calls>>

\* pcb_current = pcb_current->parent_pcb, then load the parent's saved
\* ebp/esp read at the start of halt, leave, ret.
HaltEnd ==
    /\ cpu.pc = "halt"
    /\ cpu.fd > MaxFd
    /\ pcbCurrent' = parent[pcbCurrent]
    /\ cpu' = Resume(cpu.ret)
    /\ UNCHANGED <<pidArr, schedPid, currProcess, currTerminal, programCount,
                   parent, esp, fds, userPage, calls>>

\* Fault seeded for mutation analysis: the descriptor loop runs one past
\* the table ("i <= PCB_SIZE").
OpenPastTable ==
    LET p == pcbCurrent
        free == (FileFds \cup {MaxFd + 1}) \ fds[p]
    IN
    /\ cpu.pc = "user"
    /\ free /= {}
    /\ fds' = [fds EXCEPT ![p] = @ \cup {FS!Min(free)}]
    /\ UNCHANGED <<pidArr, schedPid, currProcess, currTerminal, programCount,
                   pcbCurrent, parent, esp, userPage, cpu, calls>>

\* open(name) of an existing file: first free descriptor from 2 up.
Open ==
    LET p == pcbCurrent
        free == FileFds \ fds[p]
    IN
    /\ cpu.pc = "user"
    /\ free /= {}
    /\ fds' = [fds EXCEPT ![p] = @ \cup {FS!Min(free)}]
    /\ UNCHANGED <<pidArr, schedPid, currProcess, currTerminal, programCount,
                   pcbCurrent, parent, esp, userPage, cpu, calls>>

\* close(fd) of a descriptor in use.
Close(k) ==
    /\ cpu.pc = "user"
    /\ k \in fds[pcbCurrent]
    /\ fds' = [fds EXCEPT ![pcbCurrent] = @ \ {k}]
    /\ UNCHANGED <<pidArr, schedPid, currProcess, currTerminal, programCount,
                   pcbCurrent, parent, esp, userPage, cpu, calls>>

-----------------------------------------------------------------------------
(* Keyboard interrupt: Alt+F1..F3 calls terminal_switch(idx). *)
TerminalSwitch(idx) ==
    /\ Interruptible
    /\ idx /= currTerminal
    /\ currTerminal' = idx
    /\ UNCHANGED <<pidArr, schedPid, currProcess, programCount, pcbCurrent,
                   parent, esp, fds, userPage, cpu, calls>>

-----------------------------------------------------------------------------
Init ==
    /\ pidArr = [p \in Pids |-> 0]
    /\ schedPid = [t \in Terms |-> 0]
    /\ currProcess = 0
    /\ currTerminal = 0
    /\ programCount = 0
    /\ pcbCurrent = 0
    /\ parent = [p \in Pids |-> 0]
    /\ esp = [p \in Pids |-> NoCtx]
    /\ fds = [p \in Pids |-> {}]
    /\ userPage = -1
    /\ cpu = Idle
    /\ calls = 0

Next ==
    \/ PitTick
    \/ Execute
    \/ HaltBegin \/ HaltClose \/ HaltEnd
    \/ Open
    \/ \E k \in FileFds : Close(k)
    \/ \E idx \in Terms : TerminalSwitch(idx)

(* The PIT keeps raising IRQ 0 and the PIC holds it until IF is set, so a  *)
(* tick that is enabled infinitely often is taken; kernel code in halt     *)
(* runs on whenever it holds the CPU.  User code and keys are not fair.   *)
Fairness ==
    /\ SF_vars(PitTick)
    /\ SF_vars(HaltClose \/ HaltEnd)

Spec == Init /\ [][Next]_vars /\ Fairness

-----------------------------------------------------------------------------
(* Properties *)

TypeOK ==
    /\ pidArr \in [Pids -> {0, 1}]
    /\ schedPid \in [Terms -> 0 .. ProgramMax + 1]
    /\ currProcess \in Terms /\ currTerminal \in Terms
    /\ programCount \in 0 .. 255
    /\ pcbCurrent \in 0 .. ProgramMax + 1
    /\ parent \in [Pids -> 0 .. ProgramMax]
    /\ fds \in [Pids -> SUBSET FileFds]
    /\ userPage \in -1 .. ProgramMax
    /\ cpu.pc \in {"idle", "user", "halt", "fault"}
    /\ calls \in Nat

(* Lazy boot: every terminal slot is eventually given a pid to schedule    *)
(* and keeps one (scheduler's sched_pid[next] == 0 branch).                *)
AllTerminalsScheduled ==
    <>[](\A t \in Terms : schedPid[t] /= 0)

(* halt() returns the status to the parent's pending execute() call: the   *)
(* flow it resumes is the execute the parent made (spec 4.4, 8).           *)
HaltReturnsToParentExecute ==
    [][HaltBegin => cpu'.ret = InExec(parent[pcbCurrent])]_vars

(* The user code on the CPU belongs to the process the kernel thinks is    *)
(* running: pcb_current, the pid of the running slot and the program page  *)
(* mapped at 128 MiB all name it.                                          *)
RunningConsistent ==
    cpu.pc = "user" =>
        /\ pcbCurrent = cpu.pid
        /\ schedPid[currProcess] = cpu.pid
        /\ userPage = cpu.pid - 1

=============================================================================
