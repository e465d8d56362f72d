\* Messages built from buffers nobody encoded, good and bad, one after the other,
\* set by the application, encoded and built from that again: arrays of 1 to 4
\* slots, buffers to encode into that are too small and large enough.
CONSTANTS
    DEFAULT_CAPACITY = 1
    SIZE_MOD = 65536
    VALUE_SIZE = 8192
    UINT16_MAX = 2
    UINT32_MAX = 10
    StaticCapacities = {2}
    Capacities = {1, 3, 9}
    Ids <- MCIds
    Settings <- MCSettings
    SingleSettings <- MCSingleSettings
    Requests <- MCRequests
    SingleRequests <- MCSingleRequests
    Buffers <- MCBuffers
    BufferSizes = {10, 64}
SPECIFICATION FairSpec
INVARIANTS TypeOK RoundTrip SizesAgree BuildInBuffer NothingStale
PROPERTIES OwnEncodingAccepted GrowthKeepsValues BuildEnds
