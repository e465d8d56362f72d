\* From no buffer to buffers around and beyond the size of every frame.
CONSTANTS
    Bits <- MCBits
    START_BYTE <- MCStart
    END_BYTE <- MCEnd
    ESC_BYTE <- MCEsc
    Payloads <- MCPayloads
    OutSizes = {0, 1, 4, 5, 6, 7, 8, 9, 10}
SPECIFICATION Spec
INVARIANTS WithinRoom RefusalIsTight FrameIsTransparent
