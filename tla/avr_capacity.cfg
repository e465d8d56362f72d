\* Three bytes waiting in a ring of three.
CONSTANTS
    CBUF_SIZE = 3
    IndexMod = 4
    CHUNK_SIZE = 2
    FrameSize = 2
    Baudrates = {115200, 9600}
    Configs <- MCConfigs
    Timeouts <- MCTimeouts
    MaxBytes = 7
SPECIFICATION Spec
INVARIANT HoldsItsSize
