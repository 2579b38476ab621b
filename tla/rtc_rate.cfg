\* Register A against the frequencies programs set, two RTC users.
CONSTANTS
    Procs = {p1, p2}
    WriteFreqs = {1, 2, 3, 16, 1024, 2048}
SPECIFICATION Spec
INVARIANT TypeOK
INVARIANT RateMatchesRequest
