CONSTANTS
    Writers = {w1, w2}
    Bodies <- MarkBodies
    BufSize = 8
    MaxFrames = 3
    MaxCloses = 1
SPECIFICATION Spec
INVARIANTS
    TypeOK
    Resynchronised
    LoneFramesArrive
    LoneFrameFits
CHECK_DEADLOCK FALSE
