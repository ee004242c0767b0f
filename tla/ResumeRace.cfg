\* Routes of one resume race, a call may fail; they implement the store.
CONSTANTS
    Req = {r1, r2, r3}
    Person = {alice, bob}
    Admins = {bob}
    Ops = {"CreateResume", "DeleteResume", "GetResume", "ListResumes",
           "SavePersonalInfo", "Add", "Delete"}
    Parts = {"experience", "projects"}
    c0 = c0
    alice = alice
    None = None
    Seed <- SeedResumes
    MaxConns = 2
    MaxTechs = 2
    MaxFaults = 1
SYMMETRY Symmetry
SPECIFICATION Spec
INVARIANTS
    ProjectWhole
    PromisedEntryKept
    DeletedStaysDeleted
    DeletedOnce
    ShownWhole
PROPERTIES
    ImplementsStore
