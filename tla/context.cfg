\* One thread, whose callbacks may process the other context and the one on the
\* heap from its own callback; chunks of one byte.
CONSTANTS
    val1 = val1
    val2 = val2
    Bad = Bad
    None = None
    Strings = {val2}
    ClosedReads = "yes"
    Contexts = {heap, stat}
    StaticContexts = {stat}
    Threads = {t1}
    CHUNK_SIZE = 1
    Payloads <- MCPayloads
    Capacity = 2
    Width = 3
    Reentrant = {heap}
    MaxBytes <- MCMaxBytes
    MaxDepth = 2
SPECIFICATION FairSpec
INVARIANTS TypeOK DeliveredInOrder StaleOnlyAfterError MessageIntact MessagesAccounted
PROPERTIES OnlyChunkAfterClose ProcessEnds
