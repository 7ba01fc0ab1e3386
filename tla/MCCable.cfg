SPECIFICATION Spec
CONSTANTS
    Cells = 2
    Deferrable <- MCDeferrable
    Immediate <- MCImmediate
    Kinds <- MCKinds
    StartTaps <- MCShift
    Drivers <- MCDrivers
    DoneMax = 2
    Grow = 1
    MaxPending = 2
PROPERTIES
    NothingLost
    EagerSpec
