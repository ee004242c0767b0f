\* Three requests of one browser, two of which may overtake each other; the
\* clock passes the age of a cookie; the keys change.  The requests run out.
CONSTANTS
    Req = {r1, r2, r3}
    User = {alice}
    Key = {k1, k2}
    None = None
    Removal = Removal
    CookieMaxAge = 1
    MaxTime = 2
    MaxRestarts = 1
SYMMETRY Symmetry
SPECIFICATION Spec
INVARIANTS
    DeadSessionDropped
PROPERTIES
    FreshTokenWorks
    ActsForTheLoggedIn
    SessionsForCause
CHECK_DEADLOCK FALSE
