\* A tick that arrives while a reader waits, against the other RTC users.
CONSTANTS
    Procs = {p1, p2}
    WriteFreqs = {16}
SPECIFICATION Spec
INVARIANT NoLostWakeup
