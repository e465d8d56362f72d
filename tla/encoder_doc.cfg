\* The documentation's value of END_BYTE.
CONSTANTS
    Bits <- MCBits
    START_BYTE <- MCStart
    END_BYTE <- MCEnd
    ESC_BYTE <- MCEsc
    Payloads <- MCPayloads
    OutSizes = {0, 1, 4, 5, 6, 7, 8, 9, 10}
SPECIFICATION Spec
INVARIANT DocumentedEndByte
