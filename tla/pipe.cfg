SPECIFICATION PipeSpec
CONSTANTS
    MaxFrames = 3
    MaxId = 2
    FirstMsg = {1}
CHECK_DEADLOCK FALSE
INVARIANTS EachFrameHandledOnce CloudInOrder ForwardedUnlessInjected
PROPERTY IdsFresh
