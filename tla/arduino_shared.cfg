\* Two devices open the same port, and one of them closes it.
CONSTANTS
    Devices = {"d1", "d2"}
    RingSize = 2
    CHUNK_SIZE = 2
    FrameSize = 3
    MillisMod = 8
    MaxLag = 1
    Timeouts <- MCTimeouts
    Configs <- MCConfigs
SPECIFICATION Spec
INVARIANT OpenPortRuns
