\* A line without faults, a static buffer that holds every frame.
CONSTANTS
    Bits <- MCBits
    START_BYTE <- MCStart
    END_BYTE <- MCEnd
    ESC_BYTE <- MCEsc
    DEFAULT_BUFFER_SIZE = 1
    DEFAULT_MAXIMUM_DECODER_BUFFER_SIZE = 2
    SizeMod = 4
    HeapSizes = {}
    StaticSizes = {3}
    Maxima = {}
    Payloads <- MCPayloads
    MaxLen = 2
    MaxFrames = 3
    MaxTruncations = 0
    MaxNoise = 0
SPECIFICATION FairLinkSpec
CHECK_DEADLOCK FALSE
PROPERTY IsChannel
