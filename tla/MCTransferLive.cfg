CONSTANTS
    Chunks = {c0}
    Sources = {1, 2}
    Corrupt = {}
    Mute = {2}
    Disturbed = {}
    MaxFaults = 3
    Nil = Nil
SPECIFICATION FairSpec
PROPERTIES
    EveryDownloadEnds
CHECK_DEADLOCK FALSE
