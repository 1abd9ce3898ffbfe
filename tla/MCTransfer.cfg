CONSTANTS
    Chunks = {c0, c1}
    Sources = {1}
    Corrupt = {1}
    Mute = {}
    Disturbed = {}
    MaxFaults = 1
    Nil = Nil
SPECIFICATION Spec
SYMMETRY ChunkSymmetry
INVARIANTS
    TypeOK
    CompletedIsRight
    NoChunkForgotten
CHECK_DEADLOCK FALSE
