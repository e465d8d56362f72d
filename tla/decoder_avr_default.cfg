\* The sizes an AVR is built with, 1024 and 512, in units of 512.
CONSTANTS
    Bits <- MCBits
    START_BYTE <- MCStart
    END_BYTE <- MCEnd
    ESC_BYTE <- MCEsc
    DEFAULT_BUFFER_SIZE = 2
    DEFAULT_MAXIMUM_DECODER_BUFFER_SIZE = 1
    SizeMod = 128
    HeapSizes = {0}
    StaticSizes = {}
    Maxima = {}
SPECIFICATION Spec
INVARIANT RefusedForMemoryOnly
