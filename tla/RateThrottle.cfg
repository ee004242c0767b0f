\* A limit below the window and one above it; Redis calls fail, the process
\* may end.
CONSTANTS
    Req = {r1, r2, r3, r4, r5}
    Key = {k1}
    Limits = {2, 4}
    Interval = 2
    Grace = 1
    MaxDelay = 1
    MaxTime = 5
    MaxFaults = 2
SYMMETRY Symmetry
SPECIFICATION Spec
INVARIANTS
    RejectedOnlyWhenBusy
    NeverRejects
    KeysExpire
    SafetyInv
PROPERTIES
    WindowKept
