\* The PICs, IDT gates and handler EOIs with the RTC driver, two RTC users.
CONSTANTS
    Procs = {p1, p2}
    WriteFreqs = {1, 2, 3, 16, 1024, 2048}
    MaxTails = 2
    ExceptionVectors = {0, 14}
SPECIFICATION Spec
INVARIANT InServiceMatchesDispatch
INVARIANT RtcTypeOK
INVARIANT RtcRateMatchesRequest
PROPERTY IrqEventuallyServiced
PROPERTY TicksKeepComing
