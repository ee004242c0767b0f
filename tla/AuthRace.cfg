\* Sessions, no failing call: the races of login, refresh and logout.
CONSTANTS
    Req = {r1, r2, r3, r4}
    Ops = {"Login", "Refresh", "Logout"}
    alice = alice
    bob = bob
    pw1 = pw1
    pw2 = pw2
    u0 = u0
    Email = {alice}
    Password = {pw1}
    None = None
    Seed <- SeedUsers
    RefreshExpiry = 3
    ResetExpiry = 1
    MaxTime = 4
    MaxFaults = 0
SYMMETRY Symmetry
SPECIFICATION Spec
INVARIANTS
    TokenNamesSession
    RefreshTokenLive
    PresentedSessionGone
    FirstUseAccepted
    LoginSucceeds
PROPERTIES
    SpentForGood
