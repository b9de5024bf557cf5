----------------------------- MODULE FramingProofs -----------------------------
(***************************************************************************)
(* Proofs about Framing, for IP packets of any length.                     *)
(***************************************************************************)
EXTENDS Framing, SequenceTheorems, TLAPS

(* What the fragments before fragment i amount to. *)
Sent(i) == IF i = 0 THEN <<>> ELSE <<<<1, i * MAX_FRAG_DATA_LEN>>>>

(* What vxbee cuts in every frame but the short ones. *)
Truncated == driver = "vxbee" /\ bytes > 235

LEMMA Parts ==
  ASSUME driver \in Drivers, bytes \in Nat \ {0}, next \in Nat, next < Total
  PROVE  /\ Part(next) \in Nat \X Nat
         /\ Part(next)[1] = next * MAX_FRAG_DATA_LEN + 1
         /\ PartLen(Part(next)) \in 1 .. MAX_FRAG_DATA_LEN
         /\ next + 1 = Total => Part(next)[2] = bytes
         /\ next + 1 # Total =>
              /\ next + 1 < Total
              /\ Part(next)[2] = (next + 1) * MAX_FRAG_DATA_LEN
         /\ bytes <= 235 => PartLen(Part(next)) <= 235
<1>1. CASE driver = "wifi"
  <2>1. MAX_FRAG_DATA_LEN = 1004
    BY <1>1 DEF MAX_FRAG_DATA_LEN
  <2>2. Total \in Nat /\ Total * 1004 < bytes + 1004 /\ Total * 1004 >= bytes
    BY <2>1 DEF Total
  <2> QED
    BY <2>1, <2>2 DEF Part, PartLen
<1>2. CASE driver # "wifi"
  <2>1. MAX_FRAG_DATA_LEN = 238
    BY <1>2 DEF MAX_FRAG_DATA_LEN
  <2>2. Total \in Nat /\ Total * 238 < bytes + 238 /\ Total * 238 >= bytes
    BY <2>1 DEF Total
  <2> QED
    BY <2>1, <2>2 DEF Part, PartLen
<1> QED
  BY <1>1, <1>2

-----------------------------------------------------------------------------
(* The inductive invariant *)

OwnerTo == IF turn = "packet" THEN MacOf("receiver") ELSE SrcMac

(* Of the packet: it has a header, and as many fragments as are allowed.   *)
PacketInv ==
  /\ to = OwnerTo
  /\ stage # "idle" => bytes > HEADSIZE
  /\ stage \in {"idle", "cut", "refused", "exit"} => got = <<>> /\ next = 0
  /\ stage \in {"send", "air", "read", "returned"} =>
       Total <= 255 /\ next < Total

(* Of what has arrived. *)
GotInv ==
  /\ stage \in {"send", "air", "read"} => Truncated \/ got = Sent(next)
  /\ stage = "returned" => Truncated \/ got = <<<<1, bytes>>>>

RequestSize ==
  (IF driver = "wifi" THEN 11 + 5 ELSE 9 + 8)
    + HEAD_SIZE + PartLen(Part(next)) + 1

(* Of the frame under way. *)
FrameInv ==
  /\ stage = "air" =>
       frame = [part |-> Part(next),
                dest |-> MacOf(IF turn = "packet" THEN "receiver"
                               ELSE "sender"),
                size |-> RequestSize,
                length |-> 17 + PartLen(Part(next))]
  /\ stage = "read" =>
       /\ frame \in [part : Nat \X Nat, size : Nat,
                     dest : [of : {"sender", "receiver"}, digits : {10, 16}],
                     length : 0 .. IF driver = "wifi" THEN 65535 ELSE 255]
       /\ frame.size = frame.length + Uncounted
       /\ Truncated \/ frame.part = Part(next)

FramingInv ==
  TypeOK /\ PacketInv /\ GotInv /\ FrameInv /\ NoFrameAstray
    /\ RefusedOrSent

LEMMA InitFramingInv == Init => FramingInv
  BY DEF Init, FramingInv, TypeOK, PacketInv, GotInv, FrameInv, NoFrameAstray,
     RefusedOrSent, OwnerTo, MacOf, Digits, Drivers

LEMMA SenderSteps ==
  ASSUME FramingInv,
         (\E size \in Sizes : Write(size)) \/ GetFragments \/ Answer \/ Again
  PROVE  FramingInv'
<1> USE DEF FramingInv
<1>1. ASSUME NEW size \in Sizes, Write(size) PROVE FramingInv'
  <2>1. bytes' = HEADSIZE + size /\ bytes' \in Nat /\ bytes' > HEADSIZE
    BY <1>1, FramingAssumption DEF Write, Send, HEADSIZE
  <2>2. to' = MacOf("receiver") /\ to' = to
    BY <1>1 DEF Write, PacketInv, OwnerTo
  <2> QED
    BY <1>1, <2>1, <2>2 DEF Write, Send, TypeOK, PacketInv, OwnerTo, GotInv,
       FrameInv, NoFrameAstray, RefusedOrSent, MacOf, Digits, NoFrame, SrcMac
<1>2. CASE GetFragments
  <2>1. Total \in Nat /\ 0 < Total
    BY <1>2 DEF GetFragments, Total, MAX_FRAG_DATA_LEN, PacketInv, TypeOK,
       HEADSIZE
  <2>2. Total > 256 => bytes > 256 * MAX_FRAG_DATA_LEN
    BY DEF Total, MAX_FRAG_DATA_LEN, TypeOK
  <2>3. Total = 256 =>
          bytes \in 255 * MAX_FRAG_DATA_LEN + 1 .. 256 * MAX_FRAG_DATA_LEN
    BY DEF Total, MAX_FRAG_DATA_LEN, TypeOK
  <2>4. ~(bytes < HEAD_SIZE) /\ got = <<>> /\ next = 0
    BY <1>2 DEF GetFragments, PacketInv, HEAD_SIZE, HEADSIZE, TypeOK
  <2> HIDE DEF FramingInv
  <2>5. TypeOK'
    BY <1>2 DEF GetFragments, TypeOK, FramingInv
  <2>6. Total' = Total /\ MAX_FRAG_DATA_LEN' = MAX_FRAG_DATA_LEN
    BY <1>2 DEF GetFragments, Total, MAX_FRAG_DATA_LEN
  <2>7. PacketInv'
    BY <1>2, <2>1, <2>4, <2>6 DEF GetFragments, PacketInv, OwnerTo, FramingInv,
       MacOf, Digits, SrcMac
  <2>8. GotInv'
    BY <1>2, <2>4 DEF GetFragments, GotInv, Sent
  <2>9. FrameInv' /\ NoFrameAstray'
    BY <1>2 DEF GetFragments, FrameInv, NoFrameAstray
  <2>10. RefusedOrSent'
    <3>1. stage' = "refused" <=> Total > 256
      BY <1>2, <2>4 DEF GetFragments
    <3>2. stage' = "exit" => Total = 256
      BY <1>2, <2>1, <2>4 DEF GetFragments
    <3>3. bytes' = bytes /\ got' = <<>>
      BY <1>2, <2>4 DEF GetFragments
    <3> QED
      BY <2>2, <2>3, <2>6, <3>1, <3>2, <3>3 DEF RefusedOrSent
  <2> QED
    BY <2>5, <2>7, <2>8, <2>9, <2>10 DEF FramingInv
<1>3. CASE Answer
  BY <1>3 DEF Answer, Send, IPv4Header, HEADSIZE, TypeOK, PacketInv, OwnerTo,
     GotInv, FrameInv, NoFrameAstray, RefusedOrSent, SrcMac
<1>4. CASE Again
  BY <1>4 DEF Again, TypeOK, PacketInv, OwnerTo, GotInv, FrameInv,
     NoFrameAstray, RefusedOrSent, MacOf, Digits, NoFrame
<1> QED
  BY <1>1, <1>2, <1>3, <1>4

(* The 14 bytes that the length field counts besides the data, and what it *)
(* does not count, are just what the frame has.                            *)
LEMMA TransmitStep == FramingInv /\ TransmitRequest => FramingInv'
<1> SUFFICES ASSUME FramingInv, TransmitRequest PROVE FramingInv'
  OBVIOUS
<1>1. /\ bytes \in Nat \ {0} /\ next \in Nat /\ next < Total
      /\ driver \in Drivers
  <2>1. stage = "send"
    BY DEF TransmitRequest
  <2>2. bytes \in Nat /\ next \in Nat /\ driver \in Drivers
    BY DEF FramingInv, TypeOK
  <2> QED
    BY <2>1, <2>2 DEF FramingInv, PacketInv, HEADSIZE
<1>2. /\ PartLen(Part(next)) \in 1 .. MAX_FRAG_DATA_LEN
      /\ Part(next) \in Nat \X Nat
  BY <1>1, Parts
<1>3. MAX_FRAG_DATA_LEN \in {238, 1004}
  BY DEF MAX_FRAG_DATA_LEN
<1>4. ~(HEAD_SIZE + PartLen(Part(next)) > MAX_FRAME_DATA_LEN)
  BY <1>2 DEF HEAD_SIZE, MAX_FRAME_DATA_LEN, MAX_FRAG_DATA_LEN
<1>5. LengthField(14 + (HEAD_SIZE + PartLen(Part(next))))
        = 17 + PartLen(Part(next))
  BY <1>2 DEF LengthField, HEAD_SIZE, MAX_FRAG_DATA_LEN
<1>6. RemoteAddr = MacOf(IF turn = "packet" THEN "receiver" ELSE "sender")
  BY DEF RemoteAddr, FramingInv, PacketInv, OwnerTo, MacOf, Digits, SrcMac
<1>7. RemoteAddr.digits \div 2 = IF driver = "wifi" THEN 5 ELSE 8
  BY <1>6 DEF MacOf, Digits
<1>8. /\ stage' = "air"
      /\ frame' = [part |-> Part(next),
                   dest |-> MacOf(IF turn = "packet" THEN "receiver"
                                  ELSE "sender"),
                   size |-> RequestSize,
                   length |-> 17 + PartLen(Part(next))]
  <2>1. (IF driver = "wifi" THEN 11 ELSE 9) + RemoteAddr.digits \div 2
          + (HEAD_SIZE + PartLen(Part(next))) + 1 = RequestSize
    BY <1>2, <1>3, <1>7 DEF RequestSize, HEAD_SIZE
  <2> QED
    BY <1>4, <1>5, <1>6, <2>1 DEF TransmitRequest
<1>9. /\ stage = "send"
      /\ UNCHANGED <<driver, turn, bytes, to, next, got>>
  BY DEF TransmitRequest
<1>10. TypeOK'
  <2>1. RequestSize \in Nat
    BY <1>2, <1>3 DEF RequestSize, HEAD_SIZE
  <2>2. 17 + PartLen(Part(next)) \in 0 .. IF driver = "wifi" THEN 65535 ELSE 255
    BY <1>2 DEF MAX_FRAG_DATA_LEN
  <2> HIDE DEF TypeOK
  <2>3. frame' \in [part : Nat \X Nat, size : Nat,
                    dest : [of : {"sender", "receiver"}, digits : {10, 16}],
                    length : 0 .. IF driver' = "wifi" THEN 65535 ELSE 255]
    BY <1>2, <1>8, <1>9, <2>1, <2>2 DEF MacOf, Digits
  <2> QED
    BY <1>8, <1>9, <2>3 DEF TypeOK, FramingInv
<1>11. PacketInv' /\ GotInv'
  BY <1>8, <1>9 DEF FramingInv, PacketInv, GotInv, OwnerTo, MacOf, Digits,
     SrcMac, Total, MAX_FRAG_DATA_LEN, Truncated, Sent
<1>12. FrameInv'
  BY <1>8, <1>9 DEF FrameInv, RequestSize, Part, PartLen, MacOf, Digits,
     MAX_FRAG_DATA_LEN
<1>13. NoFrameAstray' /\ RefusedOrSent'
  BY <1>8 DEF NoFrameAstray, RefusedOrSent
<1> QED
  BY <1>10, <1>11, <1>12, <1>13 DEF FramingInv

LEMMA InTheAir ==
  ASSUME FramingInv, stage = "air"
  PROVE  /\ frame = [part |-> Part(next),
                     dest |-> MacOf(IF turn = "packet" THEN "receiver"
                                    ELSE "sender"),
                     size |-> RequestSize,
                     length |-> 17 + PartLen(Part(next))]
         /\ PartLen(Part(next)) \in 1 .. MAX_FRAG_DATA_LEN
         /\ Part(next) \in Nat \X Nat
         /\ bytes <= 235 => PartLen(Part(next)) <= 235
<1>1. bytes \in Nat /\ next \in Nat /\ driver \in Drivers
  BY DEF FramingInv, TypeOK
<1>2. bytes \in Nat \ {0} /\ next < Total
  BY <1>1 DEF FramingInv, PacketInv, HEADSIZE
<1> QED
  BY <1>1, <1>2, Parts DEF FramingInv, FrameInv

FrameType ==
  [part : Nat \X Nat, size : Nat,
   dest : [of : {"sender", "receiver"}, digits : {10, 16}],
   length : 0 .. IF driver = "wifi" THEN 65535 ELSE 255]

(* What is left to show of a step on the way to the receiver's reader. *)
LEMMA Conveyed ==
  ASSUME FramingInv, stage = "air", stage' = "read",
         UNCHANGED <<driver, turn, bytes, to, next, got>>,
         frame' \in FrameType,
         frame'.size = frame'.length + Uncounted,
         Truncated \/ frame'.part = Part(next)
  PROVE  FramingInv'
<1>1. TypeOK'
  BY DEF FramingInv, TypeOK, FrameType
<1>2. PacketInv' /\ GotInv'
  BY DEF FramingInv, PacketInv, GotInv, OwnerTo, MacOf, Digits, SrcMac, Total,
     MAX_FRAG_DATA_LEN, Truncated, Sent
<1>3. FrameInv'
  BY DEF FrameInv, FrameType, Uncounted, Truncated, Part, MAX_FRAG_DATA_LEN
<1>4. NoFrameAstray' /\ RefusedOrSent'
  BY DEF NoFrameAstray, RefusedOrSent
<1> QED
  BY <1>1, <1>2, <1>3, <1>4 DEF FramingInv

LEMMA RadioStep == FramingInv /\ Radio => FramingInv'
<1> SUFFICES ASSUME FramingInv, Radio PROVE FramingInv'
  OBVIOUS
<1> DEFINE n == PartLen(Part(next))
<1>1. stage = "air" /\ driver # "vxbee"
  BY DEF Radio
<1>2. /\ frame.size = RequestSize /\ frame.length = 17 + n
      /\ frame.part = Part(next) /\ n \in 1 .. MAX_FRAG_DATA_LEN
      /\ Part(next) \in Nat \X Nat
      /\ frame.dest \in [of : {"sender", "receiver"}, digits : {10, 16}]
  BY <1>1, InTheAir DEF MacOf, Digits
<1>3. RequestSize = 17 + n + Uncounted /\ RequestSize \in Nat
  BY <1>2 DEF RequestSize, HEAD_SIZE, Uncounted, MAX_FRAG_DATA_LEN
<1>4. frame.size = frame.length + Uncounted
  BY <1>2, <1>3
<1>5. /\ stage' = "read"
      /\ frame' = IF driver = "wifi" THEN frame
                  ELSE [part |-> frame.part, dest |-> frame.dest,
                     size |-> frame.size - 2,
                     length |-> frame.length - 2]
      /\ UNCHANGED <<driver, turn, bytes, to, next, got>>
  BY <1>4 DEF Radio, Understood
<1>6. frame = [part |-> Part(next),
               dest |-> MacOf(IF turn = "packet" THEN "receiver"
                              ELSE "sender"),
               size |-> RequestSize, length |-> 17 + n]
  BY <1>1, InTheAir
<1>7. frame \in FrameType
  BY <1>2, <1>3, <1>6 DEF FrameType, MAX_FRAG_DATA_LEN
<1>8. CASE driver = "wifi"
  BY <1>1, <1>2, <1>4, <1>5, <1>7, <1>8, Conveyed
<1>9. CASE driver # "wifi"
  <2>1. frame' = [part |-> frame.part, dest |-> frame.dest,
                  size |-> frame.size - 2, length |-> frame.length - 2]
    BY <1>5, <1>9
  <2>2. frame'.part = Part(next)
    BY <1>2, <2>1
  <2>3. frame'.size = frame.size - 2 /\ frame'.length = frame.length - 2
    BY <2>1
  <2>4. frame.size - 2 \in Nat /\ frame.length - 2 \in 0 .. 255
    BY <1>2, <1>3, <1>9 DEF MAX_FRAG_DATA_LEN, Uncounted
  <2>5. frame'.size = frame'.length + Uncounted
    BY <1>2, <1>3, <1>4, <2>3 DEF Uncounted, MAX_FRAG_DATA_LEN
  <2>6. frame' \in FrameType
    BY <1>7, <1>9, <2>1, <2>4 DEF FrameType
  <2> QED
    BY <1>1, <1>5, <2>2, <2>5, <2>6, Conveyed
<1> QED
  BY <1>8, <1>9

LEMMA VirtualDeviceStep == FramingInv /\ VirtualDevice => FramingInv'
<1> SUFFICES ASSUME FramingInv, VirtualDevice PROVE FramingInv'
  OBVIOUS
<1> DEFINE n == PartLen(Part(next))
           taken == IF frame.size > UDPBuffer THEN UDPBuffer ELSE frame.size
           lost == frame.size - taken
           data == taken - 1 - 17
<1>1. stage = "air" /\ driver = "vxbee"
  BY DEF VirtualDevice
<1>2. /\ frame = [part |-> Part(next),
                  dest |-> MacOf(IF turn = "packet" THEN "receiver"
                                 ELSE "sender"),
                  size |-> RequestSize, length |-> 17 + n]
      /\ n \in 1 .. 238 /\ Part(next) \in Nat \X Nat
      /\ bytes <= 235 => n <= 235
  BY <1>1, InTheAir DEF MAX_FRAG_DATA_LEN
<1>3. frame.size = 21 + n
  BY <1>1, <1>2 DEF RequestSize, HEAD_SIZE
<1>4. /\ lost \in 0 .. 3 /\ lost < n /\ data \in 0 .. 238
      /\ bytes <= 235 => lost = 0
  BY <1>2, <1>3 DEF UDPBuffer
<1>5. frame.part = Part(next) /\ frame.dest \in
        [of : {"sender", "receiver"}, digits : {10, 16}]
  BY <1>2 DEF MacOf, Digits
<1>6. /\ stage' = "read" /\ UNCHANGED <<driver, turn, bytes, to, next, got>>
      /\ frame' = [frame EXCEPT !.part = <<@[1], @[2] - lost>>,
                                !.size = RECV_HEAD + data + 1,
                                !.length = LengthField(12 + data)]
  BY DEF VirtualDevice
<1>7. LengthField(12 + data) = 12 + data
  BY <1>1, <1>4 DEF LengthField
<1>8. Part(next)[2] - lost \in Nat
  BY <1>2, <1>4 DEF PartLen
<1> HIDE DEF lost, data, n, taken
<1>9. frame' = [part |-> <<Part(next)[1], Part(next)[2] - lost>>,
                dest |-> frame.dest, size |-> 16 + data,
                length |-> 12 + data]
  <2>1. RECV_HEAD + data + 1 = 16 + data
    BY <1>4 DEF RECV_HEAD
  <2>2. frame' = [frame EXCEPT !.part = <<Part(next)[1], Part(next)[2] - lost>>,
                               !.size = 16 + data, !.length = 12 + data]
    BY <1>5, <1>6, <1>7, <2>1, Zenon
  <2> QED
    BY <1>2, <2>2
<1>10. frame' \in FrameType
  BY <1>1, <1>2, <1>4, <1>5, <1>8, <1>9 DEF FrameType
<1>11. frame'.size = frame'.length + Uncounted
  BY <1>1, <1>4, <1>9 DEF Uncounted
<1>12. Truncated \/ frame'.part = Part(next)
  <2>1. CASE bytes > 235
    BY <1>1, <2>1 DEF Truncated
  <2>2. CASE ~(bytes > 235)
    <3>1. bytes \in Nat
      BY DEF FramingInv, TypeOK
    <3>2. lost = 0
      BY <1>4, <2>2, <3>1
    <3>3. Part(next) = <<Part(next)[1], Part(next)[2]>>
      BY <1>2
    <3> QED
      BY <1>2, <1>9, <3>2, <3>3
  <2> QED
    BY <2>1, <2>2
<1> QED
  BY <1>1, <1>6, <1>10, <1>11, <1>12, Conveyed

(* A part that follows what has arrived makes it longer; the last one      *)
(* completes the packet.                                                   *)
LEMMA ReadFrameStep == FramingInv /\ ReadFrame => FramingInv'
<1> SUFFICES ASSUME FramingInv, ReadFrame PROVE FramingInv'
  OBVIOUS
<1>1. stage = "read"
  BY DEF ReadFrame
<1>2. frame.size = frame.length + Uncounted /\ frame.part \in Nat \X Nat
  BY <1>1 DEF FramingInv, FrameInv
<1>3. /\ got' = Joined(got, frame.part)
      /\ IF next + 1 = Total
         THEN stage' = "returned" /\ UNCHANGED next
         ELSE stage' = "send" /\ next' = next + 1
      /\ UNCHANGED <<driver, turn, bytes, to, frame>>
  BY <1>2 DEF ReadFrame, Understood
<1>4. /\ bytes \in Nat /\ bytes \in Nat \ {0} /\ next \in 0 .. 254
      /\ driver \in Drivers /\ got \in Seq(Nat \X Nat)
      /\ Total <= 255 /\ next < Total
  BY <1>1 DEF FramingInv, TypeOK, PacketInv, HEADSIZE
<1>5. /\ Part(next)[1] = next * MAX_FRAG_DATA_LEN + 1
      /\ Part(next) \in Nat \X Nat
      /\ next + 1 = Total => Part(next)[2] = bytes
      /\ next + 1 # Total =>
           /\ next + 1 < Total
           /\ Part(next)[2] = (next + 1) * MAX_FRAG_DATA_LEN
  BY <1>4, Parts
<1>6. got' \in Seq(Nat \X Nat)
  <2>1. CASE got # <<>> /\ got[Len(got)][2] + 1 = frame.part[1]
    <3>1. got' = [got EXCEPT ![Len(got)] = <<@[1], frame.part[2]>>]
      BY <1>3, <2>1 DEF Joined
    <3>2. Len(got) \in 1 .. Len(got)
      BY <1>4, <2>1, EmptySeq
    <3>3. <<got[Len(got)][1], frame.part[2]>> \in Nat \X Nat
      BY <1>2, <1>4, <3>2, ElementOfSeq
    <3> QED
      BY <1>4, <3>1, <3>2, <3>3, ExceptSeq
  <2>2. CASE ~(got # <<>> /\ got[Len(got)][2] + 1 = frame.part[1])
    BY <1>2, <1>3, <1>4, <2>2 DEF Joined
  <2> QED
    BY <2>1, <2>2
<1>7. Truncated \/ got' = <<<<1, Part(next)[2]>>>>
  <2> SUFFICES ASSUME ~Truncated PROVE got' = <<<<1, Part(next)[2]>>>>
    OBVIOUS
  <2>1. frame.part = Part(next) /\ got = Sent(next)
    BY <1>1 DEF FramingInv, FrameInv, GotInv
  <2>2. CASE next = 0
    <3>1. got = <<>>
      BY <2>1, <2>2 DEF Sent
    <3>2. got' = <<Part(next)>>
      BY <1>3, <2>1, <3>1 DEF Joined
    <3>3. Part(next)[1] = 1
      BY <1>5, <2>2 DEF MAX_FRAG_DATA_LEN
    <3> QED
      BY <1>5, <3>2, <3>3
  <2>3. CASE next # 0
    <3>1. got = <<<<1, next * MAX_FRAG_DATA_LEN>>>>
      BY <2>1, <2>3 DEF Sent
    <3>2. /\ got # <<>> /\ Len(got) = 1
          /\ got[1] = <<1, next * MAX_FRAG_DATA_LEN>>
      BY <3>1
    <3>3. got' = [got EXCEPT ![1] = <<1, Part(next)[2]>>]
      BY <1>3, <1>5, <2>1, <3>2 DEF Joined
    <3> QED
      BY <3>1, <3>3
  <2> QED
    BY <2>2, <2>3
<1>8. /\ Total' = Total /\ MAX_FRAG_DATA_LEN' = MAX_FRAG_DATA_LEN
      /\ Truncated' = Truncated
  BY <1>3 DEF Total, MAX_FRAG_DATA_LEN, Truncated
<1>9. TypeOK'
  <2>1. next' \in 0 .. 254
    <3>1. Total \in Int
      BY <1>4 DEF Total, MAX_FRAG_DATA_LEN
    <3>2. CASE next + 1 = Total
      BY <1>3, <1>4, <3>2
    <3>3. CASE next + 1 # Total
      BY <1>3, <1>4, <1>5, <3>1, <3>3
    <3> QED
      BY <3>2, <3>3
  <2>2. stage' \in {"send", "returned"}
    BY <1>3
  <2> QED
    <3>1. TypeOK
      BY DEF FramingInv
    <3> QED
      BY <1>3, <1>6, <2>1, <2>2, <3>1 DEF TypeOK
<1>10. PacketInv'
  <2>1. stage' \in {"send", "returned"} /\ next' < Total
    BY <1>3, <1>4, <1>5
  <2> QED
    BY <1>1, <1>3, <1>4, <1>8, <2>1 DEF FramingInv, PacketInv, OwnerTo, MacOf,
       Digits, SrcMac
<1>11. GotInv'
  <2>1. CASE next + 1 = Total
    BY <1>3, <1>5, <1>7, <1>8, <2>1 DEF GotInv
  <2>2. CASE next + 1 # Total
    <3>1. stage' = "send" /\ next' = next + 1 /\ next' # 0
      BY <1>3, <1>4, <2>2
    <3>2. Truncated \/ got' = <<<<1, next' * MAX_FRAG_DATA_LEN>>>>
      BY <1>5, <1>7, <2>2, <3>1
    <3> QED
      BY <1>8, <3>1, <3>2 DEF GotInv, Sent
  <2> QED
    BY <2>1, <2>2
<1>12. FrameInv' /\ NoFrameAstray' /\ RefusedOrSent'
  BY <1>3 DEF FrameInv, NoFrameAstray, RefusedOrSent
<1> QED
  BY <1>9, <1>10, <1>11, <1>12 DEF FramingInv

LEMMA NextFramingInv == FramingInv /\ [Next]_vars => FramingInv'
<1> SUFFICES ASSUME FramingInv, [Next]_vars PROVE FramingInv'
  OBVIOUS
<1>1. CASE UNCHANGED vars
  BY <1>1 DEF vars, FramingInv, TypeOK, PacketInv, OwnerTo, GotInv, FrameInv,
     NoFrameAstray, RefusedOrSent, MacOf, Digits, SrcMac, Total, Truncated,
     Sent, Part, PartLen, MAX_FRAG_DATA_LEN, RequestSize, Uncounted
<1> QED
  BY <1>1, SenderSteps, TransmitStep, RadioStep, VirtualDeviceStep,
     ReadFrameStep DEF Next

LEMMA FramingInvariant == Spec => []FramingInv
  BY InitFramingInv, NextFramingInv, PTL DEF Spec

(* Every variable has its type. *)
THEOREM FramingTypeCorrect == Spec => []TypeOK
<1>1. FramingInv => TypeOK
  BY DEF FramingInv
<1> QED
  BY <1>1, FramingInvariant, PTL

(* Whatever the length of a packet, each of its frames is read to its end  *)
(* and no further (xbee/writer.go:80, reader.go:105).                      *)
THEOREM FramesReadWhole == Spec => []NoFrameAstray
<1>1. FramingInv => NoFrameAstray
  BY DEF FramingInv
<1> QED
  BY <1>1, FramingInvariant, PTL

(* What is returned is what was sent, whatever its length, but for a vxbee *)
(* message of more than 235 bytes (virtual_xbee_device.go:125).            *)
THEOREM PacketReturnedWhole == Spec => []WholePacket
<1>1. FramingInv => WholePacket
  BY DEF FramingInv, GotInv, Truncated, WholePacket
<1> QED
  BY <1>1, FramingInvariant, PTL

(* Every frame has the other node's address, of the driver's length        *)
(* (wifi.go:133).                                                          *)
THEOREM FramesAddressed == Spec => []AddressedRight
<1>1. FramingInv => AddressedRight
  BY InTheAir DEF FramingInv, FrameInv, AddressedRight, MacOf
<1> QED
  BY <1>1, FramingInvariant, PTL

(* A packet is refused only as a whole, for its length, and only a packet  *)
(* of exactly 256 fragments ends the program (fragment.go:71).             *)
THEOREM RefusedAsAWhole == Spec => []RefusedOrSent
<1>1. FramingInv => RefusedOrSent
  BY DEF FramingInv
<1> QED
  BY <1>1, FramingInvariant, PTL
=============================================================================
