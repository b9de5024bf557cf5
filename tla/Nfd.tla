--------------------------------- MODULE Nfd ---------------------------------
(***************************************************************************)
(* The packet layer of nfd/nfd.go on a set of nodes that share a radio     *)
(* medium.  Run starts three goroutines per node, and the application      *)
(* calls Write and Read:                                                   *)
(*                                                                         *)
(*   Write -> Send -> Tx -> WaitForAck   one at a time, under Mutex3       *)
(*   Receiver       radio -> AckQueue or DataQueue                         *)
(*   PacketHandler  DataQueue -> ADDR_RESP, or RxData and then an ACK      *)
(*   NodeDetector   refreshes NodeAddrs                                    *)
(*                                                                         *)
(* A node of the model stands for its IPv4 address and for its MAC address *)
(* at once.  Run does not start ConfigHandler (nfd.go:638), which alone    *)
(* sends the STATUS packets: none of them exists here.                     *)
(*                                                                         *)
(* The driver (SendPacket, ReceivePacket) is the medium: it may delay and  *)
(* reorder packets, and repeat them if Duplicates.  A packet that is never *)
(* taken out of "air" is a lost one.  If Lossy, SendPacket may return      *)
(* false, which says nothing certain about what was received.              *)
(***************************************************************************)
EXTENDS Integers, Sequences

CONSTANTS
  Nodes,      \* the nodes: each is an IPv4 address and a MAC address
  Foreign,    \* addresses with the prefix 192.168.101. that no node owns
  BCST_IPv4,  \* 255.255.255.255, which does not have the prefix
  BCST_MAC,   \* the driver's broadcast address
  NoIp,       \* the empty string, as an IP address
  NoMac,      \* the empty string, as a MAC address
  NoPacket,   \* no packet in hand
  SeqMod,     \* sequence numbers are taken modulo SeqMod (256)
  Ticks,      \* 100 ms sleeps before WaitForAck gives up (TIMEOUT*10)
  AckCap,     \* capacity of AckQueue (10)
  DataCap,    \* capacity of DataQueue (10)
  RxCap,      \* capacity of RxData (128)
  Lossy,      \* may SendPacket return false?
  Duplicates, \* may the medium deliver a packet more than once?
  MaxWrites,  \* bound: Write calls per node
  MaxFound,   \* bound, per node: nodes that answer one node discovery
  Dests       \* bound, per node: the addresses its application writes to

Ips == Nodes \cup Foreign

ASSUME NfdAssumption ==
  /\ SeqMod \in Nat \ {0} /\ Ticks \in Nat \ {0}
  /\ AckCap \in Nat \ {0} /\ DataCap \in Nat \ {0} /\ RxCap \in Nat \ {0}
  /\ Lossy \in BOOLEAN /\ Duplicates \in BOOLEAN
  /\ MaxWrites \in [Nodes -> Nat] /\ MaxFound \in [Nodes -> Nat]
  /\ Nodes \cap Foreign = {}
  /\ Dests \in [Nodes -> SUBSET (Ips \cup {BCST_IPv4})]
  /\ BCST_IPv4 \notin Ips /\ NoIp \notin Ips \cup {BCST_IPv4}
  /\ BCST_MAC \notin Ips /\ NoMac \notin Ips \cup {BCST_MAC}

AckTypes == {"ACK", "ADDR_RESP"}
DataTypes == {"P2P", "RELAY_REQ", "ADDR_REQ"}

(* A packet on its way to node "to".  ip is the destination address in its *)
(* IP header and w the Write whose data it carries (0: none).  id is       *)
(* auxiliary: which transmission of its sender a request is, and which     *)
(* transmission of its receiver a reply answers.                           *)
Packet == [to: Nodes, type: AckTypes \cup DataTypes, seq: 0 .. SeqMod - 1,
           src: Nodes, ip: Ips, w: Nat, id: Nat \ {0}]

Replies == {p \in Packet : p.type \in AckTypes}
Requests == {p \in Packet : p.type \in DataTypes}

ASSUME NoPacketAssumption == NoPacket \notin Packet

VARIABLES
  Seq_,         \* n.Seq
  ADDR_LIST,    \* ADDR_LIST: NoMac where there is no entry
  NodeAddrs,    \* n.NodeAddrs
  ServerAddr,   \* n.ServerAddr
  AckQueue,     \* n.AckQueue
  DataQueue,    \* n.DataQueue
  RxData,       \* n.RxData
  call,         \* the Write whose Send holds Mutex3, if any
  received,     \* the packet Receiver is about to enqueue, if any
  handler,      \* what PacketHandler is doing, and with which packet
  air,          \* packets the medium has not delivered yet
  txCount,      \* history: transmissions of Send so far
  writes,       \* history: the results of the Write calls so far
  arrived       \* history: which Write's data reached which node's RxData

callVars == <<Seq_, ADDR_LIST, ServerAddr, call, txCount, writes>>
queueVars == <<received, AckQueue, DataQueue>>
handlerVars == <<handler, RxData, arrived>>
vars == <<callVars, queueVars, handlerVars, NodeAddrs, air>>

(* call[n]: stage is the Tx that Send has reached; at, where that Tx is;   *)
(* lag is auxiliary: how many transmissions old the request was whose      *)
(* reply made the latest Tx return true.                                   *)
Stages == {"direct", "server", "resolve", "resolved", "relay"}
NoCall == [stage |-> "idle", at |-> "none", ip |-> NoIp, mac |-> NoMac,
           count |-> 0, lag |-> 0]
Call == [stage: Stages, at: {"send", "select", "sleep"}, ip: Ips,
         mac: Nodes \cup {NoMac, BCST_MAC}, count: 0 .. Ticks - 1, lag: Int]

Waiting == [pc |-> "select", p |-> NoPacket]

Mutex3Free(n) == call[n] = NoCall

Init ==
  /\ Seq_ = [n \in Nodes |-> -1]
  /\ ADDR_LIST = [n \in Nodes |-> [ip \in Ips |-> NoMac]]
  /\ NodeAddrs = [n \in Nodes |-> <<>>]
  /\ ServerAddr = [n \in Nodes |-> NoIp]
  /\ AckQueue = [n \in Nodes |-> <<>>]
  /\ DataQueue = [n \in Nodes |-> <<>>]
  /\ RxData = [n \in Nodes |-> <<>>]
  /\ call = [n \in Nodes |-> NoCall]
  /\ received = [n \in Nodes |-> NoPacket]
  /\ handler = [n \in Nodes |-> Waiting]
  /\ air = {}
  /\ txCount = [n \in Nodes |-> 0]
  /\ writes = [n \in Nodes |-> <<>>]
  /\ arrived = {}

-----------------------------------------------------------------------------
(* Write and Send *)

StartTx(stage, ip, mac, lag) ==
  [stage |-> stage, at |-> "send", ip |-> ip, mac |-> mac,
   count |-> 0, lag |-> lag]

(* The first Tx of a Send of type P2P. *)
Route(n, ip) ==
  IF ADDR_LIST[n][ip] # NoMac THEN StartTx("direct", ip, ADDR_LIST[n][ip], 0)
  ELSE IF ip = ServerAddr[n] THEN StartTx("server", ip, NodeAddrs[n][1], 0)
  ELSE StartTx("resolve", ip, BCST_MAC, 0)

Write(n, ip) ==
  /\ Mutex3Free(n)
  /\ Len(writes[n]) < MaxWrites[n]
  /\ call' = [call EXCEPT ![n] = Route(n, ip)]
  /\ UNCHANGED <<Seq_, ADDR_LIST, ServerAddr, txCount, writes,
                 queueVars, handlerVars, NodeAddrs, air>>

(* Write turns the address 255.255.255.255 into a BCST, which Send refuses *)
(* because the address lacks VIRTUAL_IP_PREFIX.                            *)
WriteRefused(n) ==
  /\ Mutex3Free(n)
  /\ Len(writes[n]) < MaxWrites[n]
  /\ writes' = [writes EXCEPT ![n] =
                  Append(@, [ip |-> BCST_IPv4, ok |-> FALSE, lag |-> 0])]
  /\ UNCHANGED <<Seq_, ADDR_LIST, ServerAddr, call, txCount,
                 queueVars, handlerVars, NodeAddrs, air>>

Return(n, ok, lag) ==
  /\ call' = [call EXCEPT ![n] = NoCall]
  /\ writes' = [writes EXCEPT ![n] =
                  Append(@, [ip |-> call[n].ip, ok |-> ok, lag |-> lag])]

(* Mutant of TxFails: the relay is the fallback of every Tx. *)
TxFailsAlwaysRelay(n) ==
  /\ IF call[n].stage # "relay" /\ NodeAddrs[n] # <<>>
     THEN /\ call' = [call EXCEPT ![n] =
                        StartTx("relay", call[n].ip, NodeAddrs[n][1], 0)]
          /\ UNCHANGED writes
     ELSE Return(n, FALSE, 0)
  /\ UNCHANGED ServerAddr

(* Mutant of TxFails: Send without a neighbour returns before it unlocks   *)
(* Mutex3.                                                                 *)
TxFailsKeepsMutex3(n) ==
  /\ IF call[n].stage = "resolve"
     THEN /\ call' = [call EXCEPT ![n] =
                        IF NodeAddrs[n] # <<>>
                        THEN StartTx("relay", call[n].ip, NodeAddrs[n][1], 0)
                        ELSE [call[n] EXCEPT !.at = "none"]]
          /\ UNCHANGED writes
     ELSE Return(n, FALSE, 0)
  /\ UNCHANGED ServerAddr

(* Tx returned false: only a failed ADDR_REQ has something left to try. *)
TxFails(n) ==
  /\ IF call[n].stage = "resolve" /\ NodeAddrs[n] # <<>>
     THEN /\ call' = [call EXCEPT ![n] =
                        StartTx("relay", call[n].ip, NodeAddrs[n][1], 0)]
          /\ UNCHANGED writes
     ELSE Return(n, FALSE, 0)
  /\ UNCHANGED ServerAddr

(* Tx returned true; ADDR_LIST' is what the reply left in the table. *)
TxSucceeds(n, lag) ==
  IF call[n].stage = "resolve"
  THEN /\ call' = [call EXCEPT ![n] =
            StartTx("resolved", call[n].ip, ADDR_LIST'[n][call[n].ip], lag)]
       /\ UNCHANGED <<ServerAddr, writes>>
  ELSE /\ Return(n, TRUE, lag)
       /\ ServerAddr' = IF call[n].stage = "relay"
                        THEN [ServerAddr EXCEPT ![n] = call[n].ip]
                        ELSE ServerAddr

-----------------------------------------------------------------------------
(* Tx and WaitForAck *)

TxType(stage) ==
  CASE stage = "resolve" -> "ADDR_REQ"
    [] stage \in {"server", "relay"} -> "RELAY_REQ"
    [] OTHER -> "P2P"

Targets(n, mac) ==
  IF mac = BCST_MAC THEN Nodes \ {n} ELSE {mac} \cap (Nodes \ {n})

(* What the transmission that call[n] is about to make, or has made, puts  *)
(* on its way to m.                                                        *)
Request(n, m, seq, id) ==
  [to |-> m, type |-> TxType(call[n].stage), seq |-> seq, src |-> n,
   ip |-> call[n].ip,
   w |-> IF call[n].stage = "resolve" THEN 0 ELSE Len(writes[n]) + 1,
   id |-> id]

Transmit(n) ==
  /\ call[n].at = "send"
  /\ Seq_' = [Seq_ EXCEPT ![n] = (Seq_[n] + 1) % SeqMod]
  /\ txCount' = [txCount EXCEPT ![n] = txCount[n] + 1]
  /\ air' = air \cup {Request(n, m, (Seq_[n] + 1) % SeqMod, txCount[n] + 1) :
                        m \in Targets(n, call[n].mac)}
  /\ \/ /\ call' = [call EXCEPT ![n].at = "select"]
        /\ UNCHANGED <<ServerAddr, writes>>
     \/ Lossy /\ TxFails(n)
  /\ UNCHANGED <<ADDR_LIST, queueVars, handlerVars, NodeAddrs>>

(* Mutant of Answers: WaitForAck takes the first reply it finds. *)
AnswersAlways(n, ack) == TRUE

(* Any type of reply will do if the number is right. *)
Answers(n, ack) == ack.seq = Seq_[n]

(* Mutant of Learned: the sender of any reply is the node Send looks for. *)
LearnedFromAny(n, ack) == [ADDR_LIST EXCEPT ![n][call[n].ip] = ack.src]

(* An ADDR_RESP leaves its sender's address in ADDR_LIST. *)
Learned(n, ack) ==
  IF ack.type = "ADDR_RESP"
  THEN [ADDR_LIST EXCEPT ![n][ack.src] = ack.src]
  ELSE ADDR_LIST

(* WaitForAck takes a packet. *)
TakeAck(n) ==
  LET ack == Head(AckQueue[n]) IN
  /\ call[n].at = "select"
  /\ AckQueue[n] # <<>>
  /\ AckQueue' = [AckQueue EXCEPT ![n] = Tail(AckQueue[n])]
  /\ IF Answers(n, ack)
     THEN /\ ADDR_LIST' = Learned(n, ack)
          /\ TxSucceeds(n, txCount[n] - ack.id)
     ELSE UNCHANGED <<ADDR_LIST, ServerAddr, call, writes>>
  /\ UNCHANGED <<Seq_, txCount, received, DataQueue, handlerVars, NodeAddrs,
                 air>>

FallAsleep(n) ==
  /\ call[n].at = "select"
  /\ AckQueue[n] = <<>>
  /\ call' = [call EXCEPT ![n].at = "sleep"]
  /\ UNCHANGED <<Seq_, ADDR_LIST, ServerAddr, txCount, writes,
                 queueVars, handlerVars, NodeAddrs, air>>

(* Mutant of Tick: a sleep that ends with a reply in the queue counts for  *)
(* two, so that the count can step over the one value that ends the wait.  *)
TickCountsReplies(n) ==
  LET count == call[n].count + (IF AckQueue[n] = <<>> THEN 1 ELSE 2) IN
  /\ call[n].at = "sleep"
  /\ IF count = Ticks
     THEN TxFails(n)
     ELSE /\ call' = [call EXCEPT
                ![n].count = IF count < Ticks THEN count ELSE Ticks + 1,
                ![n].at = IF AckQueue[n] = <<>> THEN "sleep" ELSE "select"]
          /\ UNCHANGED <<ServerAddr, writes>>
  /\ UNCHANGED <<Seq_, ADDR_LIST, txCount, queueVars, handlerVars, NodeAddrs,
                 air>>

(* One sleep of 100 ms is over.  The last one ends the wait whatever the   *)
(* queue now holds.                                                        *)
Tick(n) ==
  /\ call[n].at = "sleep"
  /\ IF call[n].count + 1 = Ticks
     THEN TxFails(n)
     ELSE /\ call' = [call EXCEPT
                ![n].count = call[n].count + 1,
                ![n].at = IF AckQueue[n] = <<>> THEN "sleep" ELSE "select"]
          /\ UNCHANGED <<ServerAddr, writes>>
  /\ UNCHANGED <<Seq_, ADDR_LIST, txCount, queueVars, handlerVars, NodeAddrs,
                 air>>

-----------------------------------------------------------------------------
(* Receiver *)

Receive(n) ==
  /\ received[n] = NoPacket
  /\ \E p \in air :
       /\ p.to = n
       /\ received' = [received EXCEPT ![n] = p]
       /\ air' = IF Duplicates THEN air ELSE air \ {p}
  /\ UNCHANGED <<callVars, AckQueue, DataQueue, handlerVars, NodeAddrs>>

(* Mutant of IsReply: an ADDR_RESP goes the way of the requests. *)
IsReplyAckOnly(p) == p.type = "ACK"

IsReply(p) == p.type \in AckTypes

Enqueue(n) ==
  /\ received[n] # NoPacket
  /\ \/ /\ IsReply(received[n])
        /\ Len(AckQueue[n]) < AckCap
        /\ AckQueue' = [AckQueue EXCEPT ![n] = Append(@, received[n])]
        /\ UNCHANGED DataQueue
     \/ /\ ~IsReply(received[n])
        /\ Len(DataQueue[n]) < DataCap
        /\ DataQueue' = [DataQueue EXCEPT ![n] = Append(@, received[n])]
        /\ UNCHANGED AckQueue
  /\ received' = [received EXCEPT ![n] = NoPacket]
  /\ UNCHANGED <<callVars, handlerVars, NodeAddrs, air>>

-----------------------------------------------------------------------------
(* PacketHandler *)

(* Mutant of Handling: every node answers every ADDR_REQ. *)
HandlingForAnyone(n, p) ==
  [pc |-> IF p.type = "ADDR_REQ" THEN "addr" ELSE "data", p |-> p]

(* What becomes of a packet taken from DataQueue: an ADDR_REQ for another  *)
(* node is dropped.                                                        *)
Handling(n, p) ==
  IF p.type # "ADDR_REQ" THEN [pc |-> "data", p |-> p]
  ELSE IF p.ip = n THEN [pc |-> "addr", p |-> p]
  ELSE Waiting

TakeData(n) ==
  /\ handler[n] = Waiting
  /\ DataQueue[n] # <<>>
  /\ DataQueue' = [DataQueue EXCEPT ![n] = Tail(DataQueue[n])]
  /\ handler' = [handler EXCEPT ![n] = Handling(n, Head(DataQueue[n]))]
  /\ UNCHANGED <<callVars, received, AckQueue, RxData, arrived, NodeAddrs, air>>

(* Mutant of Reply: it is numbered like a request of its sender. *)
ReplyWithOwnSeq(n, type, p) ==
  [to |-> p.src, type |-> type, seq |-> (Seq_[n] + 1) % SeqMod, src |-> n,
   ip |-> p.src, w |-> p.w, id |-> p.id]

Reply(n, type, p) ==
  [to |-> p.src, type |-> type, seq |-> p.seq, src |-> n, ip |-> p.src,
   w |-> p.w, id |-> p.id]

(* Send of an ADDR_RESP: it waits for Mutex3 but not for an answer. *)
SendAddrResp(n) ==
  /\ handler[n].pc = "addr"
  /\ Mutex3Free(n)
  /\ air' = air \cup {Reply(n, "ADDR_RESP", handler[n].p)}
  /\ handler' = [handler EXCEPT ![n] = Waiting]
  /\ UNCHANGED <<callVars, queueVars, RxData, arrived, NodeAddrs>>

(* Mutant of Deliver: a packet that finds RxData full is dropped. *)
DeliverOrDrop(n) ==
  /\ handler[n].pc = "data"
  /\ IF Len(RxData[n]) < RxCap
     THEN /\ RxData' = [RxData EXCEPT ![n] =
                Append(@, [src |-> handler[n].p.src, w |-> handler[n].p.w])]
          /\ arrived' = arrived \cup {<<handler[n].p.src, handler[n].p.w, n>>}
     ELSE UNCHANGED <<RxData, arrived>>
  /\ handler' = [handler EXCEPT ![n] = [pc |-> "ack", p |-> handler[n].p]]
  /\ UNCHANGED <<callVars, queueVars, NodeAddrs, air>>

Deliver(n) ==
  /\ handler[n].pc = "data"
  /\ Len(RxData[n]) < RxCap
  /\ LET p == handler[n].p IN
       /\ RxData' = [RxData EXCEPT ![n] = Append(@, [src |-> p.src, w |-> p.w])]
       /\ arrived' = arrived \cup {<<p.src, p.w, n>>}
       /\ handler' = [handler EXCEPT ![n] = [pc |-> "ack", p |-> p]]
  /\ UNCHANGED <<callVars, queueVars, NodeAddrs, air>>

(* The ACK does not go through Send, and so does not wait for Mutex3. *)
SendAck(n) ==
  /\ handler[n].pc = "ack"
  /\ air' = air \cup {Reply(n, "ACK", handler[n].p)}
  /\ handler' = [handler EXCEPT ![n] = Waiting]
  /\ UNCHANGED <<callVars, queueVars, RxData, arrived, NodeAddrs>>

-----------------------------------------------------------------------------
(* NodeDetector, and the application's Read *)

(* The lists GetNodes may return. *)
Discoveries(n) ==
  {s \in UNION {[1 .. k -> Nodes \ {n}] : k \in 0 .. MaxFound[n]} :
     \A i, j \in DOMAIN s : s[i] = s[j] => i = j}

(* Mutant of DetectNodes: an empty list replaces NodeAddrs too. *)
DetectNodesOrNone(n) ==
  /\ \E found \in Discoveries(n) :
       NodeAddrs' = [NodeAddrs EXCEPT ![n] = found]
  /\ UNCHANGED <<callVars, queueVars, handlerVars, air>>

(* An empty list leaves NodeAddrs as it is. *)
DetectNodes(n) ==
  /\ \E found \in Discoveries(n) \ {<<>>} :
       NodeAddrs' = [NodeAddrs EXCEPT ![n] = found]
  /\ UNCHANGED <<callVars, queueVars, handlerVars, air>>

Read(n) ==
  /\ RxData[n] # <<>>
  /\ RxData' = [RxData EXCEPT ![n] = Tail(RxData[n])]
  /\ UNCHANGED <<callVars, queueVars, handler, arrived, NodeAddrs, air>>

-----------------------------------------------------------------------------

Next ==
  \E n \in Nodes :
    \/ \E ip \in Dests[n] \cap Ips : Write(n, ip)
    \/ BCST_IPv4 \in Dests[n] /\ WriteRefused(n)
    \/ Transmit(n) \/ TakeAck(n) \/ FallAsleep(n) \/ Tick(n)
    \/ Receive(n) \/ Enqueue(n)
    \/ TakeData(n) \/ SendAddrResp(n) \/ Deliver(n) \/ SendAck(n)
    \/ DetectNodes(n) \/ Read(n)

Spec == Init /\ [][Next]_vars

(* The goroutine inside Send, and PacketHandler outside of Send. *)
SendStep(n) == Transmit(n) \/ TakeAck(n) \/ FallAsleep(n) \/ Tick(n)
HandlerStep(n) == TakeData(n) \/ Deliver(n) \/ SendAck(n)

(* Each goroutine runs.  PacketHandler's wait for Mutex3 is strongly fair: *)
(* sync.Mutex hands the lock to a waiter that has starved for 1 ms.  The   *)
(* application's calls of Write are its own affair, but it does read.      *)
Fairness ==
  \A n \in Nodes :
    /\ WF_vars(SendStep(n)) /\ WF_vars(Enqueue(n))
    /\ WF_vars(HandlerStep(n)) /\ SF_vars(SendAddrResp(n))
    /\ WF_vars(Read(n))

FairSpec == Spec /\ Fairness

-----------------------------------------------------------------------------
(* Properties *)

Result == [ip: Ips \cup {BCST_IPv4}, ok: BOOLEAN, lag: Int]

(* Every variable holds a value of its kind; the queues respect their      *)
(* capacities and hold only the packets Receiver puts in each of them.     *)
TypeOK ==
  /\ Seq_ \in [Nodes -> -1 .. SeqMod - 1]
  /\ ADDR_LIST \in [Nodes -> [Ips -> Nodes \cup {NoMac}]]
  /\ NodeAddrs \in [Nodes -> Seq(Nodes)]
  /\ ServerAddr \in [Nodes -> Ips \cup {NoIp}]
  /\ AckQueue \in [Nodes -> Seq(Replies)]
  /\ DataQueue \in [Nodes -> Seq(Requests)]
  /\ RxData \in [Nodes -> Seq([src: Nodes, w: Nat])]
  /\ call \in [Nodes -> Call \cup {NoCall}]
  /\ received \in [Nodes -> Packet \cup {NoPacket}]
  /\ handler \in [Nodes -> {Waiting} \cup
                    [pc: {"addr", "data", "ack"}, p: Requests]]
  /\ air \in SUBSET Packet
  /\ txCount \in [Nodes -> Nat]
  /\ writes \in [Nodes -> Seq(Result)]
  /\ arrived \in SUBSET (Nodes \X Nat \X Nodes)
  /\ \A n \in Nodes : /\ Len(AckQueue[n]) <= AckCap
                      /\ Len(DataQueue[n]) <= DataCap
                      /\ Len(RxData[n]) <= RxCap

(* Write returned without an error only if the data is in some node's      *)
(* RxData: WaitForAck looks at nothing but the number of a reply, so the   *)
(* reply could be of another kind or to an older request, but then it is   *)
(* at least a full turn of the sequence numbers old (nfd.go:344).          *)
OkMeansArrived ==
  \A n \in Nodes : \A w \in DOMAIN writes[n] :
    writes[n][w].ok =>
      \/ \E m \in Nodes : <<n, w, m>> \in arrived
      \/ writes[n][w].lag >= SeqMod

(* When Send goes on to the P2P after an ADDR_REQ, ADDR_LIST has the       *)
(* address it asked for and not the empty one (nfd.go:320), again unless   *)
(* an answer a full turn old was taken for the right one.                  *)
ResolvedHasMac ==
  \A n \in Nodes :
    call[n].stage = "resolved" =>
      call[n].mac = call[n].ip \/ call[n].lag >= SeqMod

(* PacketHandler never checks that a P2P packet is for this node: only the *)
(* sender's ADDR_LIST makes sure that it is (nfd.go:451).                  *)
P2PReachesOwner ==
  \A n \in Nodes :
    handler[n].pc = "data" /\ handler[n].p.type = "P2P" => handler[n].p.ip = n

(* Send takes NodeAddrs[0] without looking at the length when it sends to  *)
(* ServerAddr (nfd.go:315): the list must not be empty then.               *)
ServerAddrHasNeighbour ==
  \A n \in Nodes : ServerAddr[n] # NoIp => NodeAddrs[n] # <<>>

(* The data of one Write is put into RxData at most once in all, whatever  *)
(* times out and is answered late, if the medium repeats nothing: Send has *)
(* fallbacks but sends the data in one of them only.                       *)
NeverTwice ==
  [][~Duplicates => \A n \in Nodes :
       Len(RxData'[n]) > Len(RxData[n]) =>
         LET d == RxData'[n][Len(RxData'[n])] IN
         \A m \in Nodes : <<d.src, d.w, m>> \notin arrived]_vars

(* Write returns, although every reply to an earlier transmission that is  *)
(* still in AckQueue or on its way wakes WaitForAck once more, which then  *)
(* goes on with the sleeps it has left (nfd.go:343-374).                   *)
WriteReturns == \A n \in Nodes : call[n] # NoCall ~> call[n] = NoCall

(* PacketHandler gets past every packet it takes, although it waits for a  *)
(* mutex that Send holds while it waits for a reply.                       *)
HandlerReturns == \A n \in Nodes : handler[n] # Waiting ~> handler[n] = Waiting

(* Receiver gets rid of a request it holds: the wait for room in DataQueue *)
(* ends although PacketHandler may wait for Mutex3, whose holder may wait  *)
(* for a reply that only Receiver can hand over.                           *)
ReceiverReturns ==
  \A n \in Nodes :
    received[n] # NoPacket /\ received[n].type \in DataTypes
      ~> received[n] = NoPacket

(* How a run of this module looks to the callers of Write and Read: the    *)
(* Writes that have returned, and the one that has not.                    *)
Returned(n) ==
  [w \in 1 .. Len(writes[n]) |-> IF writes[n][w].ok THEN "ok" ELSE "failed"]

WriteStatus ==
  [n \in Nodes |-> IF Mutex3Free(n) THEN Returned(n)
                   ELSE Append(Returned(n), "calling")]

Confirmed == INSTANCE ConfirmedWrite WITH
  Writers <- Nodes,
  Readers <- Nodes,
  status <- WriteStatus

(* With numbers that do not come round (SeqMod larger than the number of   *)
(* transmissions), Write promises what ConfirmedWrite states.              *)
ImplementsConfirmedWrite == Confirmed!Spec
=============================================================================
