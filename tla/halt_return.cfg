CONSTANTS
    ProgramMax <- MCProgramMax
    MaxFd <- MCMaxFd
SPECIFICATION MCSpec
PROPERTY HaltReturnsToParentExecute
CONSTRAINT KernelBound
\* A kernel fault spins in its exception handler with IF clear: a real stop.
CHECK_DEADLOCK FALSE
