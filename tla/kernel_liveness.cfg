\* Lazy boot and round-robin progress of the scheduler.
CONSTANTS
    ProgramMax <- MCProgramMax
    MaxFd <- MCMaxFd
SPECIFICATION MCSpec
INVARIANT TypeOK
PROPERTY AllTerminalsScheduled
CONSTRAINT KernelBound
\* A kernel fault spins in its exception handler with IF clear: a real stop.
CHECK_DEADLOCK FALSE
