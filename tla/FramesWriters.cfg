CONSTANTS
    Writers = {w1, w2}
    Bodies <- PlainBodies
    BufSize = 8
    MaxFrames = 2
    MaxCloses = 0
SPECIFICATION Spec
INVARIANTS
    FramesIntact
CHECK_DEADLOCK FALSE
