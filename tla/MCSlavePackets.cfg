SPECIFICATION Spec
CONSTANTS
    RPages <- MCRPages
    Words = {1}
    Contents = {0}
    Zero = 0
    Junk = 0
    Hashes = {h}
    Clients = {c1}
    NoClient = NoClient
    MaxLen = 2
    HashLen = 1
    Ops = {"alloc", "dealloc", "hash", "dealloc_hash", "stop", "crash"}
    Overlap = FALSE
INVARIANTS HashHasSize BooksMatchHeap NoDoubleFree
PROPERTIES BackupIsWhole
