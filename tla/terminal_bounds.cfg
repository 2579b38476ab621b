\* Terminal: two terminals, keyBuffer scaled to 5 bytes with the wrap at 2.
SPECIFICATION Spec
CONSTANTS
    NumTerm = 2
    MIL = 5
    WRAP = 2
CONSTRAINT IndexBound
INVARIANT KeyBufferInBounds
