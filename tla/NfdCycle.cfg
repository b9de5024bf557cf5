SPECIFICATION FairSpec
CONSTANTS
  Nodes = {a, b}
  a = a
  Foreign = {x}
  BCST_IPv4 = BCST_IPv4
  BCST_MAC = BCST_MAC
  NoIp = NoIp
  NoMac = NoMac
  NoPacket = NoPacket
  SeqMod = 256
  Ticks = 1
  AckCap = 1
  DataCap = 1
  RxCap = 1
  Lossy = FALSE
  Duplicates = FALSE
  MaxWrites <- TwoByAOneElse
  MaxFound <- OneFoundByA
  Dests <- Elsewhere
PROPERTIES ReceiverReturns
