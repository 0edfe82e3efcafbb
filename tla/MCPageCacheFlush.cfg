CONSTANTS
    v1 = v1
    v2 = v2
    zero = zero
    junk = junk
    undef = undef
    key = key
    size_limit_ = 1
    Pages <- MCPages3
    RPages <- MCPages2
    Words <- MCWords
    LastWord = 1
    MaxLen = 2
    Values <- MCValues
    Contents <- MCContents
    Zero = zero
    Junk = junk
    Undef = undef
    Hashes = {key}
    Api <- FlushApi
SPECIFICATION Spec
SYMMETRY ValueSymmetry
INVARIANTS Coherent
CHECK_DEADLOCK FALSE
