SPECIFICATION FairSpec
CONSTANTS
    KeysOf <- MCKeysOf
    Values = {0, 1}
    MaxFrames = 3
CHECK_DEADLOCK FALSE
INVARIANTS StateComplete MirrorAgrees
PROPERTIES StatusTurnsOffline
