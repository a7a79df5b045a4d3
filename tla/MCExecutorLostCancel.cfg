SPECIFICATION Spec
CONSTANTS
    c1 = c1
    c2 = c2
    c3 = c3
    player = player
    npc = npc
    cup = cup
    plate = plate
    fridge = fridge
    CommandIds = {c1, c2, c3}
    Executors <- MCActors
    Actors <- MCActors
    Requests <- MCStore
    Items <- MCItems
    Containers <- MCContainers
    Players <- MCPlayers
    MortalItems = {cup}
    EngineFaults = FALSE
    Capacity = 2
    MaxGeneration = 2
    NoEntry = NoEntry
    NoExecutor = NoExecutor
    NoItem = NoItem
    NoContainer = NoContainer
    NoAction = NoAction
    NoTicket = NoTicket
PROPERTIES
    CanceledActionsGetReceipts
