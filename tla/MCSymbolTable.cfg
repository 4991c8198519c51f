CONSTANTS
    t1 = t1
    t2 = t2
    t3 = t3
    NoThread = NoThread
    Threads = {t1, t2}
    Pairs <- MCPairs
    AttributeLists <- MCAttributeLists
    Requests <- MCRequests
    SymbolAttribute <- MCAttributes
    MaxFailures = 1
SPECIFICATION FairSpec
INVARIANTS
    IInv
    OneHandlePerName
PROPERTIES
    ImplementsRegistry
    EveryCallReturns
