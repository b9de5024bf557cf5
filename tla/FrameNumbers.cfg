SPECIFICATION Spec
CONSTANTS
  Drivers = {"xbee", "vxbee", "wifi"}
  FrameMod = 5
  Tries = 2
  MaxFrames = 3
  Unanswered <- MCUnanswered
  MaxAnswers = 1
INVARIANTS TypeOK ConfirmedByOwnStatus NodesAnswerThisSearch ZeroNeedsRace AddressInOrder
CHECK_DEADLOCK FALSE
