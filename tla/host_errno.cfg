\* close may leave EINTR behind.
CONSTANTS
    Contexts = {c1, c2}
    Handles = {0, 1, 2}
    CHUNK_SIZE = 2
    FrameSize = 2
    Configs <- MCConfigs
    MaxBytes = 2
    MayFreeOpen = "no"
    Errnos = {"EIO", "EBUSY", "EACCES"}
    RawClears = {"xon", "xoff"}
    CloseErrno = {"EINTR"}
    LastErrors = {"ERROR_ACCESS_DENIED", "ERROR_BUSY", "ERROR_GEN_FAILURE"}
    CloseError = {"ERROR_INVALID_HANDLE"}
SPECIFICATION Spec
PROPERTY CauseReported
