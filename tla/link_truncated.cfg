\* One frame cut short, then a frame that fits.
CONSTANTS
    Bits <- MCBits
    START_BYTE <- MCStart
    END_BYTE <- MCEnd
    ESC_BYTE <- MCEsc
    DEFAULT_BUFFER_SIZE = 1
    DEFAULT_MAXIMUM_DECODER_BUFFER_SIZE = 2
    SizeMod = 4
    HeapSizes = {}
    StaticSizes = {3}
    Maxima = {}
    Payloads <- MCPayloads
    MaxLen = 2
    MaxFrames = 2
    MaxTruncations = 1
    MaxNoise = 0
SPECIFICATION LinkSpec
CHECK_DEADLOCK FALSE
INVARIANT ResyncOnStartByte
