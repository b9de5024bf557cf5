SPECIFICATION PatientSpec
CONSTANTS
  Nodes = {a, b}
  a = a
  Foreign = {}
  BCST_IPv4 = BCST_IPv4
  BCST_MAC = BCST_MAC
  NoIp = NoIp
  NoMac = NoMac
  NoPacket = NoPacket
  SeqMod = 256
  Ticks = 4
  AckCap = 1
  DataCap = 1
  RxCap = 1
  Lossy = FALSE
  Duplicates = FALSE
  MaxWrites <- TwoEach
  MaxFound <- OneFoundByA
  Dests <- EachOther
INVARIANTS LoneWriteSucceeds
