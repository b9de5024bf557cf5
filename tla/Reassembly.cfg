SPECIFICATION Spec
CONSTANTS
  Senders = {s1, s2}
  s1 = s1
  s2 = s2
  Drivers = {"xbee", "vxbee", "wifi"}
  Totals = {1, 2}
  MaxMessages <- UpToThree
  Tos = {"self"}
  MaxRestarts <- OneRestart
  NoMod = 2
  MaxTries = 2
  PacketCap = 1
  Lossy = TRUE
  MaxAhead = 1
  Nothing = Nothing
INVARIANTS TypeOK ReturnsMessages UsedOnce NothingElseLoses
PROPERTY ImplementsMessageChannel
SYMMETRY SenderSymmetry
CHECK_DEADLOCK FALSE
