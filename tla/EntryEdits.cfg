\* Three calls that read and change one entry, of each kind in turn; one call
\* to the database may fail.
CONSTANTS
    Req = {r1, r2, r3}
    Edited = {"education", "experience", "certifications", "skills",
              "projects"}
    Drafts <- MCDrafts
    Names <- MCNames
    Core <- MCCore
    Day <- MCDay
    Order <- MCOrder
    Url = {"host", "host/p"}
    PathUrl = {"host/p"}
    Email = {"a@b"}
    Phone = {}
    None = None
    MaxConns = 2
    MaxFaults = 1
SPECIFICATION FairSpec
INVARIANTS
    AcceptedTwice
    ReadBack
    OneUpdate
    DeletedForGood
    ReadsForward
    ConnectionsAccounted
PROPERTIES
    EveryRequestEnds
