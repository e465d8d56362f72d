\* A context is freed, or made again in the same storage, while it is open.
CONSTANTS
    Contexts = {c1, c2}
    Handles = {0, 1, 2}
    CHUNK_SIZE = 2
    FrameSize = 2
    Configs <- MCConfigs
    MaxBytes = 2
    MayFreeOpen = "yes"
    Errnos = {"EIO", "EBUSY", "EACCES"}
    RawClears = {"xon", "xoff"}
    CloseErrno = {}
    LastErrors = {"ERROR_ACCESS_DENIED", "ERROR_BUSY", "ERROR_GEN_FAILURE"}
    CloseError = {"ERROR_INVALID_HANDLE"}
SPECIFICATION Spec
INVARIANT OwnHandles
