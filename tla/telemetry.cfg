SPECIFICATION Spec
CONSTANTS
    Records = {cmd}
    Commands = {cmd}
    MaxMessages = 2
    FlushLimit = 1
    MaxBurst = 2
INVARIANTS NothingLost BufferBounded
PROPERTIES OldestLeaveFirst BurstShown BufferDrains
