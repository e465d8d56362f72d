\* Two devices on a port with a ring of two bytes; the counter starts anywhere and
\* wraps after 8 ms, before, during and after a wait.
CONSTANTS
    Devices = {"d1", "d2"}
    RingSize = 2
    CHUNK_SIZE = 2
    FrameSize = 3
    MillisMod = 8
    MaxLag = 1
    Timeouts <- MCTimeouts
    Configs <- MCConfigs
SPECIFICATION FairSpec
INVARIANT TypeOK
PROPERTIES TimedOutInTime CallsEnd
