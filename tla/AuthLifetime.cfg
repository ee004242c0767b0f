\* Violated: the session of a refreshed token ends before the token.
CONSTANTS
    Req = {r1, r2, r3}
    Ops = {"Login", "Refresh", "Logout"}
    alice = alice
    bob = bob
    pw1 = pw1
    pw2 = pw2
    u0 = u0
    Email = {alice, bob}
    Password = {pw1, pw2}
    None = None
    Seed <- SeedUsers
    RefreshExpiry = 2
    ResetExpiry = 1
    MaxTime = 2
    MaxFaults = 0
SPECIFICATION Spec
INVARIANTS
    SessionOutlivesToken
