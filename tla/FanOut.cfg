SPECIFICATION Spec
CONSTANTS
    s1 = s1
    s2 = s2
    Streams = {s1, s2}
    Tasks = 5
    PoolWorkers = 2
    Window = 2
INVARIANTS
    BoundedAhead
    NoStraggler
PROPERTIES
    ImplementsSerialLoop
    EveryStreamEnds
