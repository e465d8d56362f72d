\* Two contexts and a process of three handles, on both systems.  close and
\* CloseHandle may leave another error number behind; cfmakeraw is that of the
\* GNU C library, which leaves IXOFF alone.
CONSTANTS
    Contexts = {c1, c2}
    Handles = {0, 1, 2}
    CHUNK_SIZE = 2
    FrameSize = 2
    Configs <- MCConfigs
    MaxBytes = 2
    MayFreeOpen = "no"
    Errnos = {"EIO", "EBUSY", "EACCES"}
    RawClears = {"xon"}
    CloseErrno = {"EINTR"}
    LastErrors = {"ERROR_ACCESS_DENIED", "ERROR_BUSY", "ERROR_GEN_FAILURE"}
    CloseError = {"ERROR_INVALID_HANDLE"}
SPECIFICATION Spec
INVARIANTS TypeOK OwnHandles
PROPERTIES FailureReported OpenedRaw HangupReported
SYMMETRY MCSymmetry
