CONSTANTS
    v1 = v1
    v2 = v2
    zero = zero
    junk = junk
    undef = undef
    key = key
    size_limit_ = 1
    Pages <- MCPages3
    RPages <- MCPages2
    Words <- MCWords
    LastWord = 1
    MaxLen = 2
    Values <- MCValues
    Contents <- MCContents
    Zero = zero
    Junk = junk
    Undef = undef
    Hashes = {key}
    Api <- PlainApi
SPECIFICATION Spec
SYMMETRY ValueSymmetry
VIEW ButReply
INVARIANTS BlocksMatchRegions CacheExact FindsOwner
PROPERTIES OnlyOwnPagesWritten EndIsDurable IsFlatMemory
CHECK_DEADLOCK FALSE
