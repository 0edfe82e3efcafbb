SPECIFICATION Spec
CONSTANTS
    b1 = b1  b2 = b2  n1 = n1  n2 = n2  c1 = c1  c2 = c2  m1 = m1  m2 = m2  m3 = m3
    Processes = {p}
    Buckets = {b1, b2}
    Names = {n1, n2}
    Paths = {n1, n2}
    LastElement <- LastOf
    Contents = {c1, c2}
    Pages <- OnePage
    BUCKETS_FILE = 6
    Missing = Missing
    Machines = {m1, m2, m3}
    MachineFiles <- OneFile
    Place <- Places
    Keys = {1, 3, 4, 6, 8}
    Path <- Paths4
    Blocks <- AsManyAsKeys
    LocalFiles <- OneUnsure
    NoBlock = NoBlock  Zero = Zero  Gone = Gone
    MaxPut = 2
    Killed = {"ls", "get", "mb", "put", "cp", "mv"}
    Faults = {}
INVARIANTS ListingHolds ListedOnce
PROPERTIES IsObjectStore
