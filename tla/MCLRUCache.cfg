CONSTANTS
    size_limit_ = 3
    Addrs <- MCAddrs
SPECIFICATION Spec
PROPERTIES StaleIsWhatLeft IsRecency
