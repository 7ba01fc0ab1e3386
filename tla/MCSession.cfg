SPECIFICATION Spec
CONSTANTS
    b1 = b1 b2 = b2 b3 = b3 k1 = k1 k2 = k2 k3 = k3 p1 = p1 p2 = p2
    Chains = {"c1", "c2"}
    Cables = {k1, k2, k3}
    PartLists = {p1, p2}
    Buses = {b1, b2, b3}
    Ports = {"c1", "c2"}
    PortsOf <- MCOwnPorts
    MaxParts = 2
    ConnectOutcomes <- MCNoMemoryFailure
    BusOutcomes <- MCNoInitFailure
    PartOutcomes <- MCPartOutcomes
    ShrinkFails = FALSE
    Programs <- MCPrograms
INVARIANTS NothingFreedIsUsed ListedBusesUsable ActiveBusListed CablesAndPartsOwned
SYMMETRY MCSymmetry
CHECK_DEADLOCK FALSE
