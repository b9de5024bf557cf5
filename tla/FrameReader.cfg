SPECIFICATION FairSpec
CONSTANTS
  Drivers = {"xbee", "vxbee", "wifi"}
  Shapes <- MCShapes
  Delimiter = 2
  ByteCap = 1
  FrameCap = 1
  MaxFrames = 2
  MaxFramesOther = 1
  MaxRepeats = 1
  MaxStops = 1
INVARIANTS TypeOK ReadInOrder
PROPERTIES FramesArrive StopReturns
CHECK_DEADLOCK FALSE
