SPECIFICATION Spec
CONSTANTS
    th1 = th1
    th2 = th2
    s1 = s1
    s2 = s2
    page = page
    key = key
    Threads = {th1, th2}
    Slaves = {s1, s2}
    Keys = {page, key}
    Hashes = {key}
    Home <- MCHome
    MaxPackets = 3
    MaxLost = 1
    TRANSPORT_WINDOW_SIZE = 2
    RingSize = 2
    BURST_SIZE_TX = 2
    SEND_BURST_RETRY = 2
    Pool = 3
    NicTakes = {"all", "none"}
    BigEnough = TRUE
INVARIANTS OwnReply ReadsWhatWasWritten SentOrFreedOnce NoMbufLeaks
           OnItsWay
CHECK_DEADLOCK FALSE
