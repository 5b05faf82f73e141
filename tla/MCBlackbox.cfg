\* A ring of three sectors of five cells: seven records and half of one more.
CONSTANTS
    Record = 2
    ChunkRecords = 2
    Sector = 5
    Ring = 15
    PreErase = 1
    QueueMax = 3
    DumpChunk = 3
    Windows = {3}
    Half = 2
    NoMeta = NoMeta
    MaxSeq = 8
    MaxSeqAfter = 5
    MaxDisturbances = 1
    MaxSaves = 1
    MaxDumps = 1
SPECIFICATION Spec
INVARIANTS
    TypeOK
    ChunksOnErased
    RingHoldsTail
    CapturedWhole
    DumpIsTail
PROPERTY
    CaptureEnds
CHECK_DEADLOCK FALSE
