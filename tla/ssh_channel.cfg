SPECIFICATION FairSpec
CONSTANTS
    Ctypes = {"session", "direct-tcpip"}
    Window = 2
    MaxPacket = 1
    RBuf = 2
    Bytes <- AppBytes
    ErrBytes = 1
INVARIANTS
    WindowsAgree
    NoDisconnect
    NothingTruncated
    StatusBeforeFree
PROPERTIES
    SilentAfterClose
    BothFreed
CHECK_DEADLOCK FALSE
