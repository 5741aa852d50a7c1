SPECIFICATION FairSpec
CONSTANTS
    Lines <- DatLines
    INFINITE_COST = 999
    MaxStarts = 2
    MaxStops = 1
INVARIANTS
    TypeOK
    ConnectedAtJoin
    SameConnection
PROPERTIES
    AllComeUp
CHECK_DEADLOCK FALSE
