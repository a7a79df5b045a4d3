SPECIFICATION FairSpec
CONSTANTS
    c1 = c1
    c2 = c2
    c3 = c3
    player = player
    npc = npc
    cup = cup
    plate = plate
    fridge = fridge
    CommandIds = {c1, c2, c3}
    Executors <- MCActors
    Actors <- MCActors
    Requests <- MCTwoItemRequests
    Items <- MCTwoItems
    Containers <- MCContainers
    Players <- MCPlayers
    MortalItems = {}
    EngineFaults = FALSE
    Capacity = 2
    MaxGeneration = 1
    NoEntry = NoEntry
    NoExecutor = NoExecutor
    NoItem = NoItem
    NoContainer = NoContainer
    NoAction = NoAction
    NoTicket = NoTicket
INVARIANTS
    WorldAgrees
PROPERTIES
    ActionsAreAtomic
    EveryClaimTerminates
