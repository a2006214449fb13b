SPECIFICATION Spec
CONSTANTS
    word = word
    Id = {1, 2, 3, 4, 5}
    Needle = {word}
    Null = Null
    maxRootsPerPage = 2
    maxRowsPerPage = 3
    findCeiling = 3
    Orders <- MCOrders
    Instants <- MCInstants
    InitialTasks <- MCTasks
    OffsetsUsed <- MCOffsets
INVARIANTS
    WholeListing
    PageFits
    DueReadsBack
