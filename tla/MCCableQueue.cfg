SPECIFICATION Spec
CONSTANTS
    Item = {a, b}
    NoItem = NoItem
    Garbage = Garbage
    Initial = 2
    Grow = 2
    MaxItems = 10
    a = a
    b = b
INVARIANTS
    IndicesAgree
    NothingUnwritten
PROPERTIES
    FifoSpec
