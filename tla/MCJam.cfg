SPECIFICATION Spec
CONSTANTS
    Cells = 2
    Programs <- MCPrograms
    Asked = "go"
    Depth = 7
    Starts <- MCStarts
INVARIANTS JamStateTrue CallsOnStack DataReady SaysWhatItMeans

PROPERTIES ScansExchange
