------------------------------ MODULE MCKernel ------------------------------
(* Instantiates Kernel for TLC: five program slots, so that two programs   *)
(* can run beside the three shells, and one file descriptor (fd 2) so that *)
(* halt has a descriptor to close.                                         *)
EXTENDS Kernel

MCProgramMax == 5
MCMaxFd      == 2

\* Bound: at most MaxCalls execute/halt system calls per behaviour, enough
\* for a program to be executed, to halt, and to be halted a second time.
MaxCalls == 3

\* Bound: a halt interrupted after closing a descriptor is saved as a
\* continuation and may itself be the return point of a later halt; keep
\* at most MaxHaltNest of them nested.
MaxHaltNest == 2

KernelBound ==
    /\ calls <= MaxCalls
    /\ HaltDepth(cpu) <= MaxHaltNest
    /\ \A p \in Pids : HaltDepth(esp[p]) <= MaxHaltNest

\* Timing: the PIT launches the three shells on its first three ticks, long
\* before a command can be typed at a shell prompt, so no execute or halt
\* is made while a terminal slot has no pid.
ShellsLaunched == \A t \in Terms : schedPid[t] /= 0

\* Kernel's Next under that timing assumption.  PitTick and the halt steps
\* are as in Kernel, so is their fairness.
MCNext ==
    \/ PitTick
    \/ ShellsLaunched /\ Execute
    \/ ShellsLaunched /\ HaltBegin
    \/ HaltClose \/ HaltEnd
    \/ Open
    \/ \E k \in FileFds : Close(k)
    \/ \E idx \in Terms : TerminalSwitch(idx)

MCSpec == Init /\ [][MCNext]_vars /\ Fairness
=============================================================================
