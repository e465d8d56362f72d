\* A frame that does not decode, and a shorter one behind it.
CONSTANTS
    val1 = val1
    val2 = val2
    Bad = Bad
    None = None
    Strings = {val2}
    ClosedReads = "no"
    Contexts = {heap, stat}
    StaticContexts = {stat}
    Threads = {t1}
    CHUNK_SIZE = 1
    Payloads <- MCPayloads
    Capacity = 2
    Width = 3
    Reentrant = {}
    MaxBytes <- TwoBytes
    MaxDepth = 2
SPECIFICATION Spec
INVARIANT MessageIsFrame
