SPECIFICATION Spec
CONSTANTS
    none = none
    a1 = a1
    Nodes = {1, 2, 3}
    App = {a1}
    NoValue = none
    MaxCount = 4
    MaxInstance = 2
    Bounds <- Six
INVARIANTS OutcomesAreChosen OneValuePerId SaidIsSaved
PROPERTIES IsConsensus PromisesKept
CHECK_DEADLOCK FALSE
