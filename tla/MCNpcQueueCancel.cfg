SPECIFICATION QueueSpec
CONSTANTS
    a1 = a1
    a2 = a2
    a3 = a3
    c1 = c1
    npcA = npcA
    player = player
    CommandIds = {a1, c1}
    Executors <- MCExecutors
    Requests <- MCRequests
    Npcs <- MCNpcs
    QueueActions <- MCFetch
    Queues <- MCFetchQueue
    ClientIds = {a1, c1}
    MaxQueueDepth = 2
    Frames = {1}
    MaxElapsed = 3
    Capacity = 1
    MaxGeneration = 1
    NoEntry = NoEntry
    NoExecutor = NoExecutor
    NoQueueAction = NoQueueAction
    NoClip = NoClip
PROPERTIES
    CancelTerminalizesOnce
