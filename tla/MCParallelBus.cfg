CONSTANTS
    Banks <- BanksDef
    Words <- WordsDef
    Fresh <- FreshDef
    Boards <- BoardsDef
    Names <- Settling
    Reach <- ReachDef
    Crossing = {"slsup3"}
    Captured = TRUE
    Buses = {"pins", "fjmem"}
    Cores <- MCCores
    MaxRegLen = 16
    FjReach = 7
    FjCrossing = FALSE
SPECIFICATION BusesSpec
INVARIANTS NoContention LayoutFound
PROPERTIES MemorySpec FjMemorySpec
