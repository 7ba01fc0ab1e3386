CONSTANTS
    Drivers = {"amd"}
    Bits <- BitsDef
    Regions <- RegionsDef
    Chunk = 2
    BufferSize = 2
    Polls = 1
    Multi = {TRUE}
    Buffered = {FALSE}
    Algorithms = {TRUE, FALSE}
    AtZero = {TRUE}
    Contents <- ContentsDef
    Commands = 1
    Starts = {0, 1}
    Counts = {1, 2}
    Files <- FilesDef
    Faults = {FALSE}
SPECIFICATION Spec
INVARIANT FlawlessSucceeds
CHECK_DEADLOCK FALSE
