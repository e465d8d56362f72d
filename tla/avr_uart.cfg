\* A ring of three bytes filled more than twice, chunks of two.
CONSTANTS
    CBUF_SIZE = 3
    IndexMod = 4
    CHUNK_SIZE = 2
    FrameSize = 2
    Baudrates = {115200, 9600}
    Configs <- MCConfigs
    Timeouts <- MCTimeouts
    MaxBytes = 7
SPECIFICATION FairSpec
INVARIANTS TypeOK Fifo EmptyMeansDrained
PROPERTY CallsEnd
\* With no byte coming any more a wait without a timeout does not return.
CHECK_DEADLOCK FALSE
