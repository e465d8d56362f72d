\* No fault, and frames larger than the buffer.
CONSTANTS
    Bits <- MCBits
    START_BYTE <- MCStart
    END_BYTE <- MCEnd
    ESC_BYTE <- MCEsc
    DEFAULT_BUFFER_SIZE = 1
    DEFAULT_MAXIMUM_DECODER_BUFFER_SIZE = 2
    SizeMod = 4
    HeapSizes = {}
    StaticSizes = {1}
    Maxima = {}
    Payloads <- MCPayloads
    MaxLen = 3
    MaxFrames = 1
    MaxTruncations = 0
    MaxNoise = 0
SPECIFICATION LinkSpec
CHECK_DEADLOCK FALSE
INVARIANT DeliveredWereSent
