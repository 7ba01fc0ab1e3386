CONSTANTS
    Drivers = {"intel", "intel32", "amd", "amd32", "amd040"}
    Bits <- BitsDef
    Regions <- RegionsDef
    Chunk = 2
    BufferSize = 2
    Polls = 1
    Multi = {TRUE, FALSE}
    Buffered = {TRUE}
    Algorithms = {TRUE, FALSE}
    AtZero = {TRUE, FALSE}
    Contents <- ContentsDef
    Commands = 2
    Starts = {0, 1}
    Counts = {1, 2}
    Files <- FilesDef
    Faults = {TRUE, FALSE}
SPECIFICATION Spec
INVARIANTS ResultTrue OnlyItsBlocks FlawlessSucceeds
PROPERTY CommandEnds

CHECK_DEADLOCK FALSE
