SPECIFICATION Spec
CONSTANTS
    Cells = 2
    IrLen = 2
    Statements <- MCScans
    StartTaps <- MCIdle
    Stop = FALSE
INVARIANTS VerdictTrue
CHECK_DEADLOCK FALSE
