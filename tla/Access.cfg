\* Accounts change between the grant of a token and its use.
CONSTANTS
    Req = {r1, r2, r3, r4}
    Ops = {"Login", "Refresh", "Profile", "AdminUsers", "CreateResume",
           "UpdateUser", "DeleteUser", "LogoutAll"}
    alice = alice
    Account = {alice, bob}
    Seed <- SeedUsers
    None = None
    AccessExpiry = 1
    RefreshExpiry = 2
    ResetExpiry = 1
    MaxTime = 1
SYMMETRY Symmetry
SPECIFICATION Spec
INVARIANTS
    RowsOfAccounts
PROPERTIES
    LetInByRecentRole
    NoGrantWhenExtinct
