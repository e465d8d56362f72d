\* Static buffers of 1 and 2 bytes, payloads of up to 2 bytes (with the checksum,
\* 3: too big for both buffers).
CONSTANTS
    Bits <- MCBits
    START_BYTE <- MCStart
    END_BYTE <- MCEnd
    ESC_BYTE <- MCEsc
    DEFAULT_BUFFER_SIZE = 1
    DEFAULT_MAXIMUM_DECODER_BUFFER_SIZE = 2
    SizeMod = 4
    HeapSizes = {1}
    StaticSizes = {1, 2}
    Maxima = {}
    Payloads <- MCPayloads
    MaxLen = 2
    MaxFrames = 2
    MaxTruncations = 2
    MaxNoise = 1
SPECIFICATION LinkSpec
CHECK_DEADLOCK FALSE
INVARIANTS SelfSynchronising CleanFrameDelivered NoSilentLoss NothingForged
