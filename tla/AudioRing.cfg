SPECIFICATION RingSpec
CONSTANTS
    f1 = f1
    f2 = f2
    Frames <- MCFrames
    Silence = Silence
    N = 3
    MaxBatch = 4
PROPERTIES
    ImplementsFifo
