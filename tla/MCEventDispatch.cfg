CONSTANTS
    d1 = d1
    d2 = d2
    client = client
    Home = Home
    e1 = e1
    e2 = e2
    e3 = e3
    n1 = n1
    n2 = n2
    NoEvent = NoEvent
    Events <- MCEvents
    Npcs <- MCNpcs
    EventNpcs <- MCEventNpcs
    Owners <- MCOwners
    Dispatches <- MCDispatches
    EventOf <- MCEventOf
    QueuesOf <- MCQueuesOf
    OtherEvents <- MCOtherEvents
    Others = client
    MaxOthers = 1
SPECIFICATION Spec
CHECK_DEADLOCK FALSE
INVARIANTS
    DispatchTypeOK
    RollbackLeavesNothing
    InactiveMeansRestored
PROPERTIES
    ResetsOnlyItsEvent
    DrainedMeansDone
