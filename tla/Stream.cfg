CONSTANTS
    Streams <- MCStreams
    Seed <- MCSeed
    NonceSpace = 9
    MaxSequence = 3
    ChunkSize = 2
    Trailer = 1
    MaxText = 6
    MaxWrite = 3
    None = None

SPECIFICATION Spec

INVARIANTS
    TypeOK
    NonceOnce
    DeliveredIsPrefix
    AcceptedIsWhole
    SavedIsReadable

PROPERTY
    ImplementsAbstractStream

CHECK_DEADLOCK FALSE
