SPECIFICATION FairSpec
CONSTANTS
    Hosts = {h1, h2}
    Trans <- MCTrans
    TimeoutLen <- MCTimeoutLen
    Delay = 1
    Lives = 1
    Patience = 6
    LateFlag = FALSE
INVARIANTS FreedInTime
PROPERTIES NeverFromLive SilentCleared
