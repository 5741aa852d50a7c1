SPECIFICATION Spec
CONSTANTS
    OPEN_MAX = 20
    StartUp = 5
    EntryNum = 2
PROPERTIES
    NextIsServed
CHECK_DEADLOCK FALSE
