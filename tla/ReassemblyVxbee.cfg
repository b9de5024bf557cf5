SPECIFICATION Spec
CONSTANTS
  Senders = {s1, s2}
  s1 = s1
  s2 = s2
  Drivers = {"vxbee"}
  Totals = {1, 2}
  MaxMessages <- OneMessage
  Tos = {"self"}
  MaxRestarts <- NoRestart
  NoMod = 2
  MaxTries = 2
  PacketCap = 1
  Lossy = TRUE
  MaxAhead = 0
  Nothing = Nothing
INVARIANTS ReconstructsOriginal
SYMMETRY SenderSymmetry
CHECK_DEADLOCK FALSE
