\* A new configuration, or close and open, while a byte is being sent.
CONSTANTS
    CBUF_SIZE = 3
    IndexMod = 4
    CHUNK_SIZE = 2
    FrameSize = 2
    Baudrates = {115200, 9600}
    Configs <- MCConfigs
    Timeouts <- MCTimeouts
    MaxBytes = 1
SPECIFICATION Spec
PROPERTY SentAsWritten
