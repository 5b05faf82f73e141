\* Frames of a byte and a delimiter, a ring of four, two usable slots.
CONSTANTS
    FrameBytes = 2
    Ring = 4
    DecoderMax = 2
    Depth = 3
    MaxFrames = 3
    MaxSends = 3
    MaxErrors = 1
SPECIFICATION Spec
INVARIANTS
    TypeOK
    FramesOnce
    SentOnce
PROPERTIES
    SentInTheEnd
    HandledInTheEnd
CHECK_DEADLOCK FALSE
