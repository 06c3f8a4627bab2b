SPECIFICATION Spec
CONSTANTS
  QueueSize = 1 BatchSize = 2 MaxFrames = 3 MaxStarts = 2
  Conns = {c1, c2} Boxes = {b1, b2} Applies = {a1} None = None Broken = Broken
CHECK_DEADLOCK FALSE
INVARIANTS EachFrameOnce StopDrains  KnownIdIsStored
PROPERTIES BatchesEnd BoxIsFinal ShutdownCompletes
