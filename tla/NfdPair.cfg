SPECIFICATION Spec
CONSTANTS
  Nodes = {a, b}
  a = a
  Foreign = {}
  BCST_IPv4 = BCST_IPv4
  BCST_MAC = BCST_MAC
  NoIp = NoIp
  NoMac = NoMac
  NoPacket = NoPacket
  SeqMod = 256
  Ticks = 1
  AckCap = 1
  DataCap = 1
  RxCap = 1
  Lossy = TRUE
  Duplicates = FALSE
  MaxWrites <- OneEach
  MaxFound <- OneFound
  Dests <- Anyone
INVARIANTS TypeOK
PROPERTIES NeverTwice ImplementsConfirmedWrite
