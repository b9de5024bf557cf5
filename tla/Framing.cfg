SPECIFICATION Spec
CONSTANT Sizes <- MCSizes
INVARIANTS TypeOK NoFrameAstray WholePacket AddressedRight RefusedOrSent
CHECK_DEADLOCK FALSE
