-------------------------------- MODULE Framing --------------------------------
(***************************************************************************)
(* One IP packet on its way from Write of a node to Read of another, and   *)
(* the answer on its way back, byte by byte: how long each header is,      *)
(* where each length field and each buffer ends.                           *)
(*                                                                         *)
(*   nfd/packet.go     Encode: 19 bytes, with two addresses of 8 bytes     *)
(*   fragment.go       GetFragments: parts of at most MAX_FRAG_DATA_LEN    *)
(*                     bytes, each after 3 bytes                           *)
(*   writer.go         the frame around a fragment                         *)
(*   the radio module, external: for the xbee and the wifi driver; for     *)
(*                     vxbee it is virtual_xbee_device.go and a UDP packet *)
(*   reader.go         ReadFrame: as many bytes as the length field says   *)
(*   nfd/packet.go     DecodePacket                                        *)
(*                                                                         *)
(* What the bytes are does not matter here: a part of a message is the     *)
(* interval of its bytes.  Nothing is lost or damaged, and nobody else     *)
(* sends; Reassembly and FrameReader are about that.                       *)
(***************************************************************************)
EXTENDS Integers, Sequences

CONSTANT Sizes  \* bound: the lengths of the IP packets; GetIP, which Write
                \* calls, panics if there are less than 20 bytes

ASSUME FramingAssumption == Sizes \subseteq Nat \ (0 .. 19)

VARIABLES
  driver,  \* which driver both nodes have
  turn,    \* the packet, or the answer to it
  stage,   \* how far it has come
  bytes,   \* the length of the encoded packet
  to,      \* the address that it is sent to
  next,    \* index of the fragment to send
  frame,   \* the frame on its way
  got      \* what the receiver has of the packet: intervals of its bytes

vars == <<driver, turn, stage, bytes, to, next, frame, got>>

Drivers == {"xbee", "vxbee", "wifi"}

(* Header lengths. *)
HEADSIZE == 19    \* of a packet
HEAD_SIZE == 3    \* of a fragment
RECV_HEAD == 15   \* of a received frame, xbee and vxbee

(* The least IP packet, which CreateIPData makes for an answer. *)
IPv4Header == 20

(* Mutant of MAX_FRAG_DATA_LEN: one byte more. *)
MaxFragAndOne == IF driver = "wifi" THEN 1004 ELSE 239

MAX_FRAG_DATA_LEN == IF driver = "wifi" THEN 1004 ELSE 238
MAX_FRAME_DATA_LEN == IF driver = "wifi" THEN 1024 ELSE 241

(* A UDP packet is read into this many bytes. *)
UDPBuffer == 256

NoFrame == [size |-> 0]

(* An address: whose it is, and the hexadecimal digits it is written with. *)
(* More digits than the driver's addresses have are zeros at the end.      *)
Digits == IF driver = "wifi" THEN 10 ELSE 16
MacOf(n) == [of |-> n, digits |-> Digits]

Init ==
  /\ driver \in Drivers
  /\ turn = "packet" /\ stage = "idle"
  /\ bytes = 0 /\ to = MacOf("receiver") /\ next = 0
  /\ frame = NoFrame /\ got = <<>>

-----------------------------------------------------------------------------
(* SendPacket *)

(* Tx encodes a packet of the given size and calls SendPacket. *)
Send(size) ==
  /\ stage' = "cut" /\ bytes' = HEADSIZE + size
  /\ next' = 0 /\ got' = <<>>

(* Write found the receiver's address in the answer to a node discovery.   *)
Write(size) ==
  /\ turn = "packet" /\ stage = "idle"
  /\ Send(size)
  /\ to' = MacOf("receiver")
  /\ UNCHANGED <<driver, turn, frame>>

Total == (bytes + MAX_FRAG_DATA_LEN - 1) \div MAX_FRAG_DATA_LEN

(* Mutant of Part: a fragment begins with the last byte of the one before. *)
PartOverlaps(i) ==
  LET first == i * MAX_FRAG_DATA_LEN + (IF i = 0 THEN 1 ELSE 0)
      last == (i + 1) * MAX_FRAG_DATA_LEN
  IN <<first, IF last > bytes THEN bytes ELSE last>>

(* splitData: the bytes of fragment i. *)
Part(i) ==
  LET last == (i + 1) * MAX_FRAG_DATA_LEN
  IN <<i * MAX_FRAG_DATA_LEN + 1, IF last > bytes THEN bytes ELSE last>>

PartLen(p) == p[2] - p[1] + 1

(* Mutant of GetFragments: 256 fragments are sent. *)
GetFragments256 ==
  /\ stage = "cut"
  /\ stage' = IF bytes < HEAD_SIZE \/ Total > 256 THEN "refused" ELSE "send"
  /\ UNCHANGED <<driver, turn, bytes, to, next, frame, got>>

(* GetFragments refuses what is shorter than a header, and what needs more *)
(* than 256 fragments; NewFragment fails for a Total of 256, and that ends *)
(* the program.                                                            *)
GetFragments ==
  /\ stage = "cut"
  /\ stage' = IF bytes < HEAD_SIZE \/ Total > 256 THEN "refused"
              ELSE IF Total > 255 THEN "exit"
              ELSE "send"
  /\ UNCHANGED <<driver, turn, bytes, to, next, frame, got>>

(* Mutant of RemoteAddr: the address is taken as it is. *)
RemoteAddrAsItIs == to

(* SendPacket of the wifi driver takes the first ten digits. *)
RemoteAddr == IF driver = "wifi" THEN [to EXCEPT !.digits = 10] ELSE to

(* The length field: one byte for xbee and vxbee, whose other byte is 0,   *)
(* and two for wifi.  It counts what follows it, without the checksum for  *)
(* xbee and with it for wifi.                                              *)
LengthField(n) == IF driver = "wifi" THEN n % 65536 ELSE n % 256

(* What the length field does not count: itself, the delimiter, and for    *)
(* xbee and vxbee the checksum.                                            *)
Uncounted == IF driver = "wifi" THEN 3 ELSE 4

(* SendPacketWithResponse: the frame of GenTransmitRequest has the address *)
(* between 6 bytes and 4, or, for wifi, 11 and 0, and the checksum at its  *)
(* end.  The length is computed for addresses of the usual size.           *)
TransmitRequest ==
  LET data == HEAD_SIZE + PartLen(Part(next)) IN
  /\ stage = "send"
  /\ IF data > MAX_FRAME_DATA_LEN
     THEN stage' = "refused" /\ UNCHANGED frame
     ELSE /\ stage' = "air"
          /\ frame' = [part |-> Part(next),
                       dest |-> RemoteAddr,
                       size |-> (IF driver = "wifi" THEN 11 ELSE 9)
                                + RemoteAddr.digits \div 2 + data + 1,
                       length |-> LengthField(14 + data)]
  /\ UNCHANGED <<driver, turn, bytes, to, next, got>>

-----------------------------------------------------------------------------
(* The way to the receiver *)

(* A reader that takes as many bytes as the length field says has taken    *)
(* the frame.                                                              *)
Understood == frame.size = frame.length + Uncounted

(* The radio modules, external: the module reads the frame by its length   *)
(* field, and the other node's module writes the same data with the header *)
(* of a received frame, of the length of the request's header for wifi,    *)
(* and two bytes shorter for xbee.                                         *)
Radio ==
  /\ stage = "air" /\ driver # "vxbee"
  /\ IF Understood
     THEN /\ stage' = "read"
          /\ frame' = IF driver = "wifi" THEN frame
                      ELSE [part |-> frame.part, dest |-> frame.dest,
                            size |-> frame.size - 2,
                            length |-> frame.length - 2]
     ELSE stage' = "astray" /\ UNCHANGED frame
  /\ UNCHANGED <<driver, turn, bytes, to, next, got>>

(* VirtualXbeeDevice.Read: a UDP packet that is longer than the buffer     *)
(* loses its end; what is between the header of 17 bytes and the last byte *)
(* in the buffer becomes a received frame with a length of its own.        *)
VirtualDevice ==
  /\ stage = "air" /\ driver = "vxbee"
  /\ LET n == IF frame.size > UDPBuffer THEN UDPBuffer ELSE frame.size
         lost == frame.size - n
         data == n - 1 - 17
     IN frame' = [frame EXCEPT !.part = <<@[1], @[2] - lost>>,
                               !.size = RECV_HEAD + data + 1,
                               !.length = LengthField(12 + data)]
  /\ stage' = "read"
  /\ UNCHANGED <<driver, turn, bytes, to, next, got>>

(* Intervals that follow each other are one. *)
Joined(parts, p) ==
  IF parts # <<>> /\ parts[Len(parts)][2] + 1 = p[1]
  THEN [parts EXCEPT ![Len(parts)] = <<@[1], p[2]>>]
  ELSE Append(parts, p)

(* ReadFrame, RecvData, and ReceivePacket, which returns with the Total-th *)
(* fragment.                                                               *)
ReadFrame ==
  /\ stage = "read"
  /\ IF Understood
     THEN /\ got' = Joined(got, frame.part)
          /\ IF next + 1 = Total
             THEN stage' = "returned" /\ UNCHANGED next
             ELSE stage' = "send" /\ next' = next + 1
     ELSE stage' = "astray" /\ UNCHANGED <<got, next>>
  /\ UNCHANGED <<driver, turn, bytes, to, frame>>

-----------------------------------------------------------------------------
(* The answer *)

(* Mutant of SrcMac: the answer goes to the address that the packet was    *)
(* sent to.                                                                *)
DestMac == [of |-> "receiver", digits |-> 16]

(* DecodePacket: HexToMac of the 8 bytes that Encode made of the sender's  *)
(* address.                                                                *)
SrcMac == [of |-> "sender", digits |-> 16]

(* PacketHandler sends an ACK, an ADDR_RESP or a STATUS_RESP to SrcMac.    *)
Answer ==
  /\ turn = "packet" /\ stage = "returned"
  /\ turn' = "answer"
  /\ Send(IPv4Header)
  /\ to' = SrcMac
  /\ UNCHANGED <<driver, frame>>

(* Something else is written. *)
Again ==
  /\ stage = "refused" \/ (turn = "answer" /\ stage = "returned")
  /\ turn' = "packet" /\ stage' = "idle"
  /\ bytes' = 0 /\ to' = MacOf("receiver") /\ next' = 0
  /\ frame' = NoFrame /\ got' = <<>>
  /\ UNCHANGED driver

Next ==
  \/ \E size \in Sizes : Write(size)
  \/ GetFragments \/ TransmitRequest
  \/ Radio \/ VirtualDevice \/ ReadFrame
  \/ Answer \/ Again

Spec == Init /\ [][Next]_vars

-----------------------------------------------------------------------------
(* Properties *)

TypeOK ==
  /\ driver \in Drivers
  /\ turn \in {"packet", "answer"}
  /\ stage \in {"idle", "cut", "refused", "exit", "send", "air", "astray",
                "read", "returned"}
  /\ bytes \in Nat
  /\ to \in [of : {"sender", "receiver"}, digits : {10, 16}]
  /\ next \in 0 .. 254
  /\ \/ frame = NoFrame
     \/ frame \in [part : Nat \X Nat, size : Nat,
                   dest : [of : {"sender", "receiver"}, digits : {10, 16}],
                   length : 0 .. IF driver = "wifi" THEN 65535 ELSE 255]
  /\ got \in Seq(Nat \X Nat)

(* Every frame is read to its end and no further, by the radio and by      *)
(* ReadFrame: a wrong length would take bytes of the next frame or leave   *)
(* some of this one.  14 + 3 + MAX_FRAG_DATA_LEN just fits the one byte of *)
(* the xbee drivers (xbee/writer.go:80, reader.go:105).                    *)
NoFrameAstray == stage # "astray"

(* What ReceivePacket returns is the packet that was sent, except that     *)
(* vxbee cuts the end of every frame of more than 256 bytes                *)
(* (virtual_xbee_device.go:125): it is of a message of more than 235 bytes *)
(* that it loses some.                                                     *)
WholePacket ==
  stage = "returned" =>
    \/ got = <<<<1, bytes>>>>
    \/ driver = "vxbee" /\ bytes > 235

(* A frame has an address as long as the driver's addresses, which is that *)
(* of the other node, although the answer goes to an address that the      *)
(* header has made 8 bytes long (packet.go:51, wifi.go:133).               *)
AddressedRight ==
  stage = "air" =>
    frame.dest = MacOf(IF turn = "packet" THEN "receiver" ELSE "sender")

(* Only a packet of more than 256 fragments is refused, before anything of *)
(* it is sent: every fragment fits into a frame.  And only one of exactly  *)
(* 256 ends the program (fragment.go:71, xbee/writer.go:133).              *)
RefusedOrSent ==
  /\ stage = "refused" => bytes > 256 * MAX_FRAG_DATA_LEN /\ got = <<>>
  /\ stage = "exit" =>
       bytes \in 255 * MAX_FRAG_DATA_LEN + 1 .. 256 * MAX_FRAG_DATA_LEN
=============================================================================
