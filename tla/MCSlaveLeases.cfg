SPECIFICATION FairSpec
CONSTANTS
    RPages <- MCRPages
    Words = {1}
    Contents = {0}
    Zero = 0
    Junk = 0
    Hashes = {h}
    Clients = {c1, c2}
    NoClient = NoClient
    MaxLen = 2
    HashLen = 1
    Ops = {"alloc", "hash", "dealloc_hash", "silence"}
    Overlap = FALSE
INVARIANTS LiveKeepTheirs ClearedUp
PROPERTIES IsLending SilenceClears
