CONSTANTS
    Banks <- BanksDef
    Words <- WordsDef
    Fresh <- FreshDef
    Boards <- BoardsDef
    Names <- Narrow
    Reach <- ReachAll
    Crossing = {}
    Captured = TRUE
    Buses = {"pins"}
    Cores <- MCCores
    MaxRegLen = 16
    FjReach = 7
    FjCrossing = FALSE
SPECIFICATION BusesSpec
PROPERTY MemorySpec
