\* The same ring; a reset, and records enough after it.
CONSTANTS
    Record = 2
    ChunkRecords = 2
    Sector = 5
    Ring = 15
    PreErase = 1
    QueueMax = 3
    DumpChunk = 3
    Windows = {3}
    Half = 2
    NoMeta = NoMeta
    MaxSeq = 8
    MaxSeqAfter = 8
    MaxDisturbances = 1
    MaxSaves = 1
    MaxDumps = 1
SPECIFICATION Spec
INVARIANT
    ErasedUnderWriter
CHECK_DEADLOCK FALSE
