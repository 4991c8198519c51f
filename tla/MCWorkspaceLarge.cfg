CONSTANTS
    ChunkSize = 8
    Requests <- MCLarge
    Bases = {16, 20}
    Granule = 2
    MaxChunks = 3
    MaxLive = 4
    MaxFailures = 1
SPECIFICATION Spec
INVARIANTS
    InBounds
