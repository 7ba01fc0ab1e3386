SPECIFICATION Spec
CONSTANTS
    Cells = 3
    Clocks <- MCClocks
    PodSettings <- MCPodSettings
    Shifts <- MCShifts
    ShiftFrom <- MCShiftFrom
    StartTaps <- MCStart
    MemoryFails = TRUE
INVARIANTS
    TapTracked
    RegistersExchanged
    ExitReached
    NothingLeftBehind
    ResetResynchronises
