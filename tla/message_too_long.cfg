\* A string and a raw value too long for their size fields.
CONSTANTS
    DEFAULT_CAPACITY = 1
    SIZE_MOD = 65536
    VALUE_SIZE = 8192
    UINT16_MAX = 2
    UINT32_MAX = 10
    StaticCapacities = {2}
    Capacities = {3}
    Ids <- MCIds
    Settings <- MCSettings
    SingleSettings <- MCSingleSettings
    Requests <- MCRequests
    SingleRequests <- MCSingleRequests
    Buffers <- NoBuffers
    BufferSizes = {64}
SPECIFICATION Spec
INVARIANT EveryValueEncoded
