SPECIFICATION Spec
CONSTANTS
    Cells = 2
    Deferrable <- MCSetSignal
    Immediate <- MCImmediate
    Kinds <- MCKinds
    StartTaps <- MCShift
    Drivers <- MCTransfer
    DoneMax = 1
    Grow = 1
    MaxPending = 2
PROPERTIES
    CallsReturn
