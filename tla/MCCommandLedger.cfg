SPECIFICATION LedgerSpec
CONSTANTS
    c1 = c1
    c2 = c2
    c3 = c3
    x1 = x1
    x2 = x2
    CommandIds <- MCIds
    Executors <- MCExecutors
    Requests <- MCRequests
    Capacity = 2
    MaxGeneration = 2
    NoEntry = NoEntry
    NoExecutor = NoExecutor
INVARIANTS
    OrderListsTheLedger
    LiveSuccessesAreSerial
PROPERTIES
    TerminalReceiptsAreFinal
    OpenEntriesSurvive
    EvictsOldestTerminal
SYMMETRY MCSymmetry
