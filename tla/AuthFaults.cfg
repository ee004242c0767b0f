\* All routes, two emails, a call that fails and crashes.
CONSTANTS
    Req = {r1, r2, r3}
    Ops = {"Register", "Login", "Refresh", "Logout", "RequestReset", "ResetPassword"}
    alice = alice
    bob = bob
    pw1 = pw1
    pw2 = pw2
    u0 = u0
    Email = {alice, bob}
    Password = {pw1, pw2}
    None = None
    Seed <- SeedUsers
    RefreshExpiry = 1
    ResetExpiry = 1
    MaxTime = 1
    MaxFaults = 1
SPECIFICATION Spec
INVARIANTS
    OneAccountPerEmail
    SessionFromLogin
    LoginTokenLive
PROPERTIES
    LogoutRevokes
    ImplementsStore
