CONSTANTS
    Chunks = {c0, c1}
    Sources = {1}
    Corrupt = {1}
    Mute = {}
    Disturbed = {"late"}
    MaxFaults = 0
    Nil = Nil
SPECIFICATION Spec
SYMMETRY ChunkSymmetry
INVARIANT
    CompletedIsRight
CHECK_DEADLOCK FALSE
