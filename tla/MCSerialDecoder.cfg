\* Growth by 3 from 3 or 1 up to 6, under limits 3 (the default), 5 and 6; a sum
\* wraps at 7.  A request of 5 is over the default limit.
CONSTANTS
    Bits <- MCBits
    START_BYTE <- MCStart
    END_BYTE <- MCEnd
    ESC_BYTE <- MCEsc
    DEFAULT_BUFFER_SIZE = 3
    DEFAULT_MAXIMUM_DECODER_BUFFER_SIZE = 3
    SizeMod = 7
    HeapSizes = {0, 1, 5}
    StaticSizes = {1, 2}
    Maxima = {4, 5, 6}
SPECIFICATION Spec
INVARIANTS BufferBound ErrorEndsFrame
PROPERTY Deframes
