\* Violated: more requests than the limit are allowed in one window.
CONSTANTS
    Req = {r1, r2, r3, r4}
    Key = {k1}
    Limits = {2}
    Interval = 2
    Grace = 1
    MaxDelay = 1
    MaxTime = 5
    MaxFaults = 0
SPECIFICATION Spec
INVARIANTS
    LimitEnforced
