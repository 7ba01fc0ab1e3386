SPECIFICATION Spec
CONSTANTS
    Cells = 1
    IrLen = 2
    Statements <- MCAll
    StartTaps <- MCStart
    Stop = TRUE
INVARIANTS TypeOK VerdictTrue EndsWhereAsked RunsInRunState
PROPERTIES StatementEnds
