SPECIFICATION Spec
CONSTANTS
  Nodes = {a, b}
  a = a
  Foreign = {x}
  BCST_IPv4 = BCST_IPv4
  BCST_MAC = BCST_MAC
  NoIp = NoIp
  NoMac = NoMac
  NoPacket = NoPacket
  SeqMod = 2
  Ticks = 1
  AckCap = 1
  DataCap = 1
  RxCap = 1
  Lossy = FALSE
  Duplicates = TRUE
  MaxWrites <- TwoByA
  MaxFound <- OneFoundByA
  Dests <- AnyOther
INVARIANTS OkMeansArrived ResolvedHasMac P2PReachesOwner ServerAddrHasNeighbour
