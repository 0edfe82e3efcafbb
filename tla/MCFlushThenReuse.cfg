CONSTANTS
    v1 = v1
    v2 = v2
    zero = zero
    junk = junk
    undef = undef
    key = key
    size_limit_ = 1
    Pages <- MCPages3
    RPages <- MCPages2
    Words <- MCWords
    LastWord = 1
    MaxLen = 2
    Values <- MCValue
    Contents <- MCContents1
    Zero = zero
    Junk = junk
    Undef = undef
    Hashes = {key}
    Api = {"rum_alloc", "rum_free", "rum_flush_cache"}
SPECIFICATION Spec
PROPERTIES IsFlatMemory
CHECK_DEADLOCK FALSE
