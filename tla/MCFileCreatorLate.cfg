\* Two chunks, of two pieces and of one; the blocks that were ever asked for.
CONSTANTS
    Peers = {1, 2}
    FileSize = 3
    ChunkSize = 2
    BlockSize = 2
    Blocks = "late"
    Word32 = 4
    Word64 = 8
    AssumeAvailability = FALSE
    Nil = Nil
    SourceMaps = {{0, 1}}
    Refs = {r1, r2, r3}
    ForceInDownload = FALSE
    MaxPerPeer = 2
SPECIFICATION Spec
SYMMETRY Symmetry
PROPERTIES
    BlocksShrinkParts
CHECK_DEADLOCK FALSE
