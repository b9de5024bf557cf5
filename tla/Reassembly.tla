----------------------------- MODULE Reassembly -----------------------------
(***************************************************************************)
(* SendPacket and ReceivePacket of the drivers under nfd/: a message is    *)
(* cut into fragments, each sent in a frame of its own; one node receives  *)
(* the frames of all senders and puts messages together again.  The three  *)
(* drivers are three copies of the same code, with these differences:      *)
(*                                                                         *)
(*   "xbee"   xbee/xbee.go            the address in a received frame is   *)
(*                                    that of its source                   *)
(*   "vxbee"  virtual_xbee/xbee.go    the address is the one the sender    *)
(*                                    wrote: the destination's             *)
(*                                    (virtual_xbee_device.go:130); a      *)
(*                                    failed fragment is sent again        *)
(*   "wifi"   wifi/wifi.go            RecvData returns the destination's   *)
(*                                    address; ReadFrame throws damaged    *)
(*                                    frames away itself                   *)
(*                                                                         *)
(* A fragment stands for the frame that carries it.  The radio module on   *)
(* the serial port is external: it reports a status for each frame, and    *)
(* the frame arrives, or not, whatever the status says.  Frames of one     *)
(* sender arrive in order, since the next is written after the status of   *)
(* the last; UDP, which vxbee uses, may reorder them.                      *)
(***************************************************************************)
EXTENDS Integers, Sequences, FiniteSets, SequencesExt

CONSTANTS
  Senders,
  Drivers,     \* the drivers to look at
  Totals,      \* bound: fragments that messages have
  Tos,         \* bound: the destination addresses of messages
  MaxMessages, \* bound, per driver: calls of SendPacket by all senders
  MaxRestarts, \* bound, per driver: restarts of all senders
  NoMod,       \* message numbers are taken modulo NoMod (256)
  MaxTries,    \* attempts of vxbee per fragment (5)
  PacketCap,   \* capacity of RecvPacketCh (64)
  Lossy,       \* may frames be lost or damaged, and statuses fail?
  MaxAhead,    \* bound: frames that a frame of vxbee overtakes at once
  Nothing      \* neither a fragment nor a message

(* to: the destination address in the frame.  msg is auxiliary: which      *)
(* message of its sender the fragment is a part of.                        *)
Fragment == [src: Senders, to: Tos, no: 0 .. NoMod - 1, seq: Nat \ {0},
             total: Totals, msg: Nat \ {0}]
Corrupt == [src |-> Nothing]

(* A call of SendPacket. *)
Sending == [at: {"write", "status"}, tries: 0 .. MaxTries - 1, frag: Fragment]

(* The keys of receivedData: an address and a number. *)
Indices == (Senders \cup Tos) \X (0 .. NoMod - 1)

ASSUME ReassemblyAssumption ==
  /\ Drivers \subseteq {"xbee", "vxbee", "wifi"}
  /\ Totals \subseteq 1 .. 255
  /\ NoMod \in Nat \ {0} /\ MaxTries \in Nat \ {0} /\ PacketCap \in Nat \ {0}
  /\ MaxMessages \in [Drivers -> Nat] /\ MaxRestarts \in [Drivers -> Nat]
  /\ Lossy \in BOOLEAN /\ MaxAhead \in Nat
  /\ Nothing \notin Senders \cup Fragment \cup {Corrupt} \cup Sending

VARIABLES
  driver,       \* which driver all nodes have
  Seq_,         \* x.Seq of each sender
  sending,      \* the call of SendPacket of each sender, if any
  air,          \* frames of each sender that have not arrived
  pending,      \* the frame ReadFrame makes room for in RecvPacketCh, if any
  RecvPacketCh, \* Reader.RecvPacketCh of the receiver
  receivedData, \* the map of ReceivePacket: the fragments of each index
  started,      \* history: calls of SendPacket so far
  restarts,     \* history: the values of started at which a sender restarted
  sent,         \* history: messages whose SendPacket returned true
  returned,     \* history: what ReceivePacket returned, as fragments
  broken        \* history: messages that lost a fragment on the way

senderVars == <<Seq_, sending, started, restarts, sent>>
receiverVars == <<receivedData, returned>>
vars == <<driver, senderVars, air, pending, RecvPacketCh, receiverVars, broken>>

Init ==
  /\ driver \in Drivers
  /\ Seq_ = [s \in Senders |-> -1]
  /\ sending = [s \in Senders |-> Nothing]
  /\ air = [s \in Senders |-> <<>>]
  /\ pending = Nothing
  /\ RecvPacketCh = <<>>
  /\ receivedData = [x \in Indices |-> <<>>]
  /\ started = [s \in Senders |-> 0]
  /\ restarts = [s \in Senders |-> {}]
  /\ sent = {}
  /\ returned = <<>>
  /\ broken = {}

Message(frag) == <<frag.src, frag.msg>>

Calls == Cardinality(UNION {{s} \X (1 .. started[s]) : s \in Senders})
Restarts == Cardinality(UNION {{s} \X restarts[s] : s \in Senders})

-----------------------------------------------------------------------------
(* SendPacket *)

(* Mutants of NextNo: the number is never increased; or never reduced.     *)
SameNo(s) == 0
UnboundedNo(s) == Seq_[s] + 1

(* The number of a message, which all its fragments carry. *)
NextNo(s) == (Seq_[s] + 1) % NoMod

(* SendPacket gets its mutex and cuts the message into fragments. *)
StartMessage(s, total, to) ==
  /\ sending[s] = Nothing
  /\ Calls < MaxMessages[driver]
  /\ started' = [started EXCEPT ![s] = @ + 1]
  /\ Seq_' = [Seq_ EXCEPT ![s] = NextNo(s)]
  /\ sending' = [sending EXCEPT ![s] =
       [at |-> "write", tries |-> 0,
        frag |-> [src |-> s, to |-> to, no |-> NextNo(s), seq |-> 1,
                  total |-> total, msg |-> started[s] + 1]]]
  /\ UNCHANGED <<driver, restarts, sent, air, pending, RecvPacketCh,
                 receiverVars, broken>>

(* GetFragments refuses the message, which has used up a number by then. *)
RefuseMessage(s) ==
  /\ sending[s] = Nothing
  /\ Calls < MaxMessages[driver]
  /\ started' = [started EXCEPT ![s] = @ + 1]
  /\ Seq_' = [Seq_ EXCEPT ![s] = NextNo(s)]
  /\ UNCHANGED <<driver, sending, restarts, sent, air, pending, RecvPacketCh,
                 receiverVars, broken>>

(* SendPacketWithResponse writes the frame, which may get lost, and waits  *)
(* for its status.                                                         *)
WriteFrame(s) ==
  /\ sending[s] # Nothing /\ sending[s].at = "write"
  /\ sending' = [sending EXCEPT ![s].at = "status"]
  /\ \/ /\ air' = [air EXCEPT ![s] = Append(@, sending[s].frag)]
        /\ UNCHANGED broken
     \/ /\ Lossy
        /\ broken' = broken \cup {Message(sending[s].frag)}
        /\ UNCHANGED air
  /\ UNCHANGED <<driver, Seq_, started, restarts, sent, pending, RecvPacketCh,
                 receiverVars>>

StatusOk(s) ==
  /\ sending[s] # Nothing /\ sending[s].at = "status"
  /\ LET frag == sending[s].frag IN
     IF frag.seq < frag.total
     THEN /\ sending' = [sending EXCEPT ![s] =
               [at |-> "write", tries |-> 0, frag |-> [frag EXCEPT !.seq = @ + 1]]]
          /\ UNCHANGED sent
     ELSE /\ sending' = [sending EXCEPT ![s] = Nothing]
          /\ sent' = sent \cup {Message(frag)}
  /\ UNCHANGED <<driver, Seq_, started, restarts, air, pending, RecvPacketCh,
                 receiverVars, broken>>

(* Mutant of Tries: every driver tries again. *)
TriesMaxTries == MaxTries

Tries == IF driver = "vxbee" THEN MaxTries ELSE 1

(* A bad status, or none within RESPONSE_TIMEOUT. *)
StatusBad(s) ==
  /\ Lossy
  /\ sending[s] # Nothing /\ sending[s].at = "status"
  /\ sending' = [sending EXCEPT ![s] =
       IF sending[s].tries + 1 < Tries
       THEN [sending[s] EXCEPT !.at = "write", !.tries = @ + 1]
       ELSE Nothing]
  /\ UNCHANGED <<driver, Seq_, started, restarts, sent, air, pending,
                 RecvPacketCh, receiverVars, broken>>

(* The process of a sender ends and is started again: SendPacket is cut    *)
(* off, and NewXbee begins the numbers anew.  What the module has of the   *)
(* frames, and the receiver of the message, stays.                         *)
Restart(s) ==
  /\ started[s] > 0
  /\ Restarts < MaxRestarts[driver]
  /\ Seq_' = [Seq_ EXCEPT ![s] = -1]
  /\ sending' = [sending EXCEPT ![s] = Nothing]
  /\ restarts' = [restarts EXCEPT ![s] = @ \cup {started[s]}]
  /\ UNCHANGED <<driver, started, sent, air, pending, RecvPacketCh,
                 receiverVars, broken>>

-----------------------------------------------------------------------------
(* The medium, and Reader.ReadFrame of the receiver *)

(* ReadFrame has assembled a frame, sound or not. *)
Arrive(s, i, frame) ==
  /\ pending = Nothing
  /\ i = 1 \/ (driver = "vxbee" /\ i <= 1 + MaxAhead)
  /\ air' = [air EXCEPT ![s] = RemoveAt(@, i)]
  /\ broken' = IF frame = Corrupt THEN broken \cup {Message(air[s][i])} ELSE broken
  /\ IF Len(RecvPacketCh) < PacketCap
     THEN RecvPacketCh' = Append(RecvPacketCh, frame) /\ UNCHANGED pending
     ELSE pending' = frame /\ UNCHANGED RecvPacketCh
  /\ UNCHANGED <<driver, senderVars, receiverVars>>

(* ReadFrame saw a full channel and takes out the oldest frame; the reader *)
(* of the channel may have been faster, and ReadFrame waits for ever if it *)
(* took all of them.                                                       *)
MakeRoom ==
  /\ pending # Nothing
  /\ RecvPacketCh # <<>>
  /\ RecvPacketCh' = Append(Tail(RecvPacketCh), pending)
  /\ pending' = Nothing
  /\ broken' = IF Head(RecvPacketCh) = Corrupt THEN broken
               ELSE broken \cup {Message(Head(RecvPacketCh))}
  /\ UNCHANGED <<driver, senderVars, air, receiverVars>>

-----------------------------------------------------------------------------
(* ReceivePacket *)

(* Mutants of Index: messages are told apart by their numbers alone; or by *)
(* their addresses alone.                                                  *)
IndexByNo(frag) == <<"self", frag.no>>
IndexByAddress(frag) == <<IF driver = "xbee" THEN frag.src ELSE frag.to, 0>>

(* The key of receivedData: the address that RecvData returned and No. *)
Index(frag) ==
  <<IF driver = "xbee" THEN frag.src ELSE frag.to, frag.no>>

Held == UNION {ToSet(receivedData[x]) : x \in Indices}

(* receivedData is emptied: what it still held is lost. *)
Forget(kept) ==
  /\ receivedData' = [x \in Indices |-> <<>>]
  /\ broken' = broken \cup ({Message(f) : f \in Held} \ kept)

TakeFragment ==
  LET frag == Head(RecvPacketCh)
      all == Append(receivedData[Index(frag)], frag)
  IN
  /\ RecvPacketCh # <<>> /\ frag # Corrupt
  /\ RecvPacketCh' = Tail(RecvPacketCh)
  /\ IF Len(all) = frag.total
     THEN /\ returned' = Append(returned, all)
          /\ Forget({Message(frag)})
     ELSE /\ receivedData' = [receivedData EXCEPT ![Index(frag)] = all]
          /\ UNCHANGED <<returned, broken>>
  /\ UNCHANGED <<driver, senderVars, air, pending>>

(* Any error of RecvData makes ReceivePacket return, and a call of         *)
(* ReceivePacket starts with an empty map.                                 *)
TakeCorrupt ==
  /\ RecvPacketCh # <<>> /\ Head(RecvPacketCh) = Corrupt
  /\ RecvPacketCh' = Tail(RecvPacketCh)
  /\ Forget({})
  /\ UNCHANGED <<driver, senderVars, air, pending, returned>>

GetPacketTimeout ==
  /\ Lossy
  /\ RecvPacketCh = <<>> /\ Held # {}
  /\ Forget({})
  /\ UNCHANGED <<driver, senderVars, air, pending, RecvPacketCh, returned>>

Next ==
  \/ \E s \in Senders :
       \/ \E total \in Totals, to \in Tos : StartMessage(s, total, to)
       \/ RefuseMessage(s)
       \/ WriteFrame(s) \/ StatusOk(s) \/ StatusBad(s) \/ Restart(s)
       \/ \E i \in DOMAIN air[s] :
            \/ Arrive(s, i, air[s][i])
            \/ Lossy /\ driver # "wifi" /\ Arrive(s, i, Corrupt)
  \/ MakeRoom
  \/ TakeFragment \/ TakeCorrupt \/ GetPacketTimeout

Spec == Init /\ [][Next]_vars

-----------------------------------------------------------------------------
(* Properties *)

TypeOK ==
  /\ driver \in Drivers
  /\ Seq_ \in [Senders -> -1 .. NoMod - 1]
  /\ sending \in [Senders -> Sending \cup {Nothing}]
  /\ air \in [Senders -> Seq(Fragment)]
  /\ pending \in Fragment \cup {Corrupt, Nothing}
  /\ RecvPacketCh \in Seq(Fragment \cup {Corrupt}) /\ Len(RecvPacketCh) <= PacketCap
  /\ receivedData \in [Indices -> Seq(Fragment)]
  /\ started \in [Senders -> Nat] /\ restarts \in [Senders -> SUBSET Nat]
  /\ sent \in SUBSET (Senders \X Nat) /\ broken \in SUBSET (Senders \X Nat)
  /\ returned \in Seq(Seq(Fragment))

Intact(m) ==
  Len(m) = m[1].total /\ \A i \in DOMAIN m : m[i] = [m[1] EXCEPT !.seq = i]

(* Parts of two messages of one sender that are a full turn of the numbers *)
(* apart, or between which it was restarted.                               *)
Aliased(m) ==
  \E i, j \in DOMAIN m :
    /\ m[i].src = m[j].src
    /\ \/ m[i].msg >= m[j].msg + NoMod
       \/ restarts[m[i].src] \cap m[j].msg .. m[i].msg - 1 # {}

FromOneSender(m) == \A i \in DOMAIN m : m[i].src = m[1].src
OfOneMessage(m) == \A i \in DOMAIN m : Message(m[i]) = Message(m[1])

(* What ReceivePacket returns is a message that was sent, whole and in     *)
(* order, although it only counts fragments and never looks at their Seq   *)
(* (xbee.go:193-195).  The exceptions are those of the code: numbers that  *)
(* came round or began anew (xbee.go:81); with vxbee and wifi, fragments   *)
(* of several senders, which RecvData does not tell apart (wifi.go:123);   *)
(* with vxbee, fragments of one message sent twice                         *)
(* (virtual_xbee/xbee.go:168) or out of order.                             *)
ReturnsMessages ==
  \A k \in DOMAIN returned :
    LET m == returned[k] IN
    \/ Intact(m) \/ Aliased(m)
    \/ driver # "xbee" /\ ~FromOneSender(m)
    \/ driver = "vxbee" /\ OfOneMessage(m)

(* No fragment is used in two messages, except for one that vxbee sent     *)
(* twice.                                                                  *)
UsedOnce ==
  driver # "vxbee" =>
    \A k, l \in DOMAIN returned :
      k # l => ToSet(returned[k]) \cap ToSet(returned[l]) = {}

(* A message that SendPacket of the xbee driver called sent, whose number  *)
(* was not used before, by an earlier process either, and of which no      *)
(* fragment was lost, damaged, pushed out of RecvPacketCh or thrown away   *)
(* with an unfinished map, is returned: whatever else is received in       *)
(* between.                                                                *)
NothingElseLoses ==
  driver = "xbee" =>
    \A s \in Senders : \A id \in 1 .. NoMod :
      \/ <<s, id>> \notin sent
      \/ restarts[s] \cap 1 .. id - 1 # {}
      \/ <<s, id>> \in broken
      \/ \E i \in DOMAIN air[s] : air[s][i].msg = id
      \/ pending \notin {Nothing, Corrupt} /\ Message(pending) = <<s, id>>
      \/ \E i \in DOMAIN RecvPacketCh :
           RecvPacketCh[i] # Corrupt /\ Message(RecvPacketCh[i]) = <<s, id>>
      \/ \E k \in DOMAIN returned :
           Intact(returned[k]) /\ Message(returned[k][1]) = <<s, id>>

(* How a run of this module looks to the callers of SendPacket and         *)
(* ReceivePacket, but for those of vxbee, which promises less: it may send *)
(* a fragment twice.  Messages may be mixed up when numbers came round or  *)
(* began anew, and with wifi, which does not tell senders apart.           *)
Contents(m) == IF Intact(m) THEN {Message(m[1])} ELSE {}

Received ==
  IF driver = "vxbee" THEN <<>>
  ELSE [k \in DOMAIN returned |-> Contents(returned[k])]

Ambiguous ==
  \/ driver # "xbee"
  \/ \E s \in Senders : restarts[s] # {} \/ started[s] > NoMod

Channel == INSTANCE MessageChannel WITH
  begun <- started,
  received <- Received,
  ambiguous <- Ambiguous

(* xbee and wifi are the channel that MessageChannel describes: with xbee, *)
(* until numbers come round (xbee.go:163) or a sender is restarted, what   *)
(* ReceivePacket returns is always a message that was sent; and with both, *)
(* whatever is lost or mixed up, the messages of one sender are returned   *)
(* in the order of their SendPackets, none twice, although ReceivePacket   *)
(* keeps unfinished messages in a map without order (xbee.go:175,          *)
(* 189-200, wifi.go:147, 161-172).                                         *)
ImplementsMessageChannel == Channel!Spec

(* The plain form of ReturnsMessages, without its exceptions. *)
ReconstructsOriginal == \A k \in DOMAIN returned : Intact(returned[k])
=============================================================================
