SPECIFICATION FairSpec
CONSTANTS
    c1 = c1
    c2 = c2
    None = None
    Spent = Spent
    Clients = {c1, c2}
    FirstVersion = 1
    MaxVersion = 3
    MaxCalls = 1
    MaxPlans = 2
    FaultSets <- OneFault
INVARIANTS
    SubscriptionFollowsRoom
    RoomHoldsReaders
    QueueTimed
PROPERTIES
    JoinAnswered
