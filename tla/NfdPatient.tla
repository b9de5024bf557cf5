------------------------------ MODULE NfdPatient ------------------------------
(***************************************************************************)
(* Nfd under the timing its TIMEOUT constant is chosen for: five seconds   *)
(* are long, so that a wait in WaitForAck runs out only when nothing else  *)
(* is under way on any node.  Under this assumption a failing Write has a  *)
(* cause, and hindered records the three there are: at some moment of the  *)
(* call another node was in a Send of its own, another node was deaf, or   *)
(* this node was clogged.                                                  *)
(***************************************************************************)
EXTENDS Nfd

VARIABLE hindered  \* hindered[n][w]: so it was during Write w of n

patientVars == <<vars, hindered>>

(* A sleep that ends with a reply to look at. *)
WakesUp(n) == call[n].at = "sleep" /\ AckQueue[n] # <<>>

(* A step of the medium, of a goroutine other than a sleeping one, or of   *)
(* the reader is possible at n: the guards of Transmit, TakeAck and        *)
(* FallAsleep; of Receive; of Enqueue; of TakeData; of SendAddrResp; of    *)
(* Deliver and SendAck; and of Read.                                       *)
CanStep(n) ==
  \/ call[n].at \in {"send", "select"}
  \/ received[n] = NoPacket /\ \E p \in air : p.to = n
  \/ received[n] # NoPacket /\ IsReply(received[n]) /\ Len(AckQueue[n]) < AckCap
  \/ received[n] # NoPacket /\ ~IsReply(received[n]) /\ Len(DataQueue[n]) < DataCap
  \/ handler[n] = Waiting /\ DataQueue[n] # <<>>
  \/ handler[n].pc = "addr" /\ Mutex3Free(n)
  \/ handler[n].pc = "data" /\ Len(RxData[n]) < RxCap
  \/ handler[n].pc = "ack"
  \/ RxData[n] # <<>>

Busy == \E n \in Nodes : WakesUp(n) \/ CanStep(n)

PatientTick(n) == (WakesUp(n) \/ ~Busy) /\ Tick(n)

(* Receiver waits for room in an AckQueue that only a Send empties. *)
Deaf(n) ==
  /\ received[n] # NoPacket
  /\ received[n].type \in AckTypes
  /\ Len(AckQueue[n]) = AckCap

(* Receiver waits for room in a DataQueue whose reader waits for Mutex3. *)
Clogged(n) ==
  /\ received[n] # NoPacket
  /\ received[n].type \in DataTypes
  /\ Len(DataQueue[n]) = DataCap
  /\ handler[n].pc = "addr"

Hindrance(n) ==
  \/ \E m \in Nodes \ {n} : ~Mutex3Free(m) \/ Deaf(m)
  \/ Clogged(n)

RecordHindrance ==
  hindered' = [n \in Nodes |->
    IF ~Mutex3Free(n)
    THEN [hindered[n] EXCEPT ![Len(writes[n]) + 1] = @ \/ Hindrance(n)]
    ELSE hindered[n]]

PatientNext ==
  /\ \E n \in Nodes :
       \/ \E ip \in Dests[n] \cap Ips : Write(n, ip)
       \/ Transmit(n) \/ TakeAck(n) \/ FallAsleep(n) \/ PatientTick(n)
       \/ Receive(n) \/ Enqueue(n)
       \/ TakeData(n) \/ SendAddrResp(n) \/ Deliver(n) \/ SendAck(n)
       \/ DetectNodes(n) \/ Read(n)
  /\ RecordHindrance

PatientInit ==
  /\ Init
  /\ hindered = [n \in Nodes |-> [w \in 1 .. MaxWrites[n] |-> FALSE]]

PatientSpec == PatientInit /\ [][PatientNext]_patientVars

(* Over a medium that loses nothing, a Write to another node fails only if *)
(* some other node was in a Send of its own meanwhile, which holds Mutex3  *)
(* while it waits and keeps PacketHandler from answering an ADDR_REQ       *)
(* (nfd.go:301, nfd.go:443); or was deaf, its AckQueue full of replies     *)
(* that came too late for the Send they answer (nfd.go:410); or if the     *)
(* writing node had so many requests behind an ADDR_REQ of its own that    *)
(* Receiver could not get at the reply (nfd.go:415).  Nothing else that    *)
(* earlier failures leave behind makes it fail.                            *)
LoneWriteSucceeds ==
  \A n \in Nodes : \A w \in DOMAIN writes[n] :
    writes[n][w].ip \in Nodes \ {n} /\ ~writes[n][w].ok => hindered[n][w]
=============================================================================
