------------------------------ MODULE NfdProofs ------------------------------
(***************************************************************************)
(* Theorems about Nfd, for every number of nodes and every value of the    *)
(* other constants: that it is type correct, and what a successful Write   *)
(* says.                                                                   *)
(***************************************************************************)
EXTENDS Nfd, SequenceTheorems, TLAPS

(* Queues: taking the first element, and adding a last one. *)
LEMMA QueueTail ==
  ASSUME NEW S, NEW q \in Seq(S), q # <<>>
  PROVE  Head(q) \in S /\ Tail(q) \in Seq(S) /\ Len(Tail(q)) < Len(q)
  BY HeadTailProperties

LEMMA QueueAppend ==
  ASSUME NEW S, NEW q \in Seq(S), NEW e \in S
  PROVE  Append(q, e) \in Seq(S) /\ Len(Append(q, e)) = Len(q) + 1
  BY AppendProperties

-----------------------------------------------------------------------------
(* The records that the actions build are of their types. *)

LEMMA StartTxType ==
  \A stage \in Stages, ip \in Ips, lag \in Int :
    \A mac \in Nodes \cup {NoMac, BCST_MAC} :
      /\ StartTx(stage, ip, mac, lag) \in Call
      /\ StartTx(stage, ip, mac, lag).stage = stage
  BY NfdAssumption DEF StartTx, Call

LEMMA RequestType ==
  ASSUME NEW n \in Nodes, NEW m \in Nodes, NEW seq \in 0 .. SeqMod - 1,
         NEW id \in Nat \ {0}, call[n] \in Call, writes[n] \in Seq(Result)
  PROVE  Request(n, m, seq, id) \in Packet
  <1>1. TxType(call[n].stage) \in DataTypes
    BY DEF TxType, DataTypes
  <1>2. (IF call[n].stage = "resolve" THEN 0 ELSE Len(writes[n]) + 1) \in Nat
    OBVIOUS
  <1>3. call[n].ip \in Ips
    BY DEF Call
  <1> QED
    BY <1>1, <1>2, <1>3 DEF Request, Packet

LEMMA ReplyType ==
  ASSUME NEW n \in Nodes, NEW type \in AckTypes, NEW p \in Packet
  PROVE  Reply(n, type, p) \in Packet
  BY DEF Reply, Packet, Ips

(* A node that is in one of the three places of a Tx is in a Send. *)
LEMMA InSend ==
  ASSUME NEW n \in Nodes, call[n] \in Call \cup {NoCall},
         call[n].at \in {"send", "select", "sleep"}
  PROVE  call[n] \in Call
  BY DEF NoCall

-----------------------------------------------------------------------------
(* The type invariant.  Route indexes NodeAddrs, so it is inductive only   *)
(* together with ServerAddrHasNeighbour, and that one only because a Send  *)
(* tries a relay when it knows a neighbour.                                *)

RelayHasNeighbour ==
  \A n \in Nodes : call[n].stage = "relay" => NodeAddrs[n] # <<>>

TypeInv == TypeOK /\ ServerAddrHasNeighbour /\ RelayHasNeighbour

(* The invariant in four parts, by the actor that can disturb them. *)
CallInv ==
  /\ call \in [Nodes -> Call \cup {NoCall}]
  /\ writes \in [Nodes -> Seq(Result)]
  /\ ServerAddr \in [Nodes -> Ips \cup {NoIp}]
  /\ \A m \in Nodes : call[m].stage = "relay" => NodeAddrs[m] # <<>>
  /\ \A m \in Nodes : ServerAddr[m] # NoIp => NodeAddrs[m] # <<>>

QueueInv ==
  /\ received \in [Nodes -> Packet \cup {NoPacket}]
  /\ AckQueue \in [Nodes -> Seq(Replies)]
  /\ DataQueue \in [Nodes -> Seq(Requests)]
  /\ \A n \in Nodes : Len(AckQueue[n]) <= AckCap /\ Len(DataQueue[n]) <= DataCap

HandlerInv ==
  /\ handler \in [Nodes -> {Waiting} \cup
                     [pc: {"addr", "data", "ack"}, p: Requests]]
  /\ RxData \in [Nodes -> Seq([src: Nodes, w: Nat])]
  /\ arrived \in SUBSET (Nodes \X Nat \X Nodes)
  /\ \A n \in Nodes : Len(RxData[n]) <= RxCap

TableInv ==
  /\ Seq_ \in [Nodes -> -1 .. SeqMod - 1]
  /\ txCount \in [Nodes -> Nat]
  /\ ADDR_LIST \in [Nodes -> [Ips -> Nodes \cup {NoMac}]]
  /\ NodeAddrs \in [Nodes -> Seq(Nodes)]
  /\ air \in SUBSET Packet

LEMMA TypeInvParts ==
  /\ TypeInv <=> CallInv /\ QueueInv /\ HandlerInv /\ TableInv
  /\ TypeInv' <=> CallInv' /\ QueueInv' /\ HandlerInv' /\ TableInv'
  BY DEF TypeInv, TypeOK, ServerAddrHasNeighbour, RelayHasNeighbour,
         CallInv, QueueInv, HandlerInv, TableInv

(* A call moves to another place or Tx, or ends. *)
LEMMA CallMoves ==
  ASSUME CallInv, NEW n \in Nodes, NEW c \in Call \cup {NoCall},
         c.stage = "relay" => NodeAddrs[n] # <<>>,
         call' = [call EXCEPT ![n] = c]
  PROVE  /\ call' \in [Nodes -> Call \cup {NoCall}]
         /\ \A m \in Nodes : call'[m].stage = "relay" => NodeAddrs[m] # <<>>
  <1>1. call' \in [Nodes -> Call \cup {NoCall}]
    BY DEF CallInv
  <1>2. ASSUME NEW m \in Nodes, call'[m].stage = "relay"
        PROVE  NodeAddrs[m] # <<>>
    BY <1>2 DEF CallInv
  <1> QED
    BY <1>1, <1>2

LEMMA ReturnType ==
  ASSUME CallInv, NEW n \in Nodes, call[n] \in Call
  PROVE  \A ok \in BOOLEAN, lag \in Int :
           Return(n, ok, lag) =>
             /\ call' \in [Nodes -> Call \cup {NoCall}]
             /\ \A m \in Nodes : call'[m].stage = "relay" => NodeAddrs[m] # <<>>
             /\ writes' \in [Nodes -> Seq(Result)]
  <1> SUFFICES ASSUME NEW ok \in BOOLEAN, NEW lag \in Int, Return(n, ok, lag)
               PROVE  /\ call' \in [Nodes -> Call \cup {NoCall}]
                      /\ \A m \in Nodes :
                           call'[m].stage = "relay" => NodeAddrs[m] # <<>>
                      /\ writes' \in [Nodes -> Seq(Result)]
    OBVIOUS
  <1>1. NoCall.stage # "relay"
    BY DEF NoCall
  <1>2. [ip |-> call[n].ip, ok |-> ok, lag |-> lag] \in Result
    BY DEF Call, Result
  <1>3. writes' \in [Nodes -> Seq(Result)]
    BY <1>2, QueueAppend DEF CallInv, Return
  <1>4. call' = [call EXCEPT ![n] = NoCall]
    BY DEF Return
  <1> QED
    BY <1>1, <1>3, <1>4, CallMoves

LEMMA TxFailsType ==
  ASSUME TypeInv, NEW n \in Nodes, call[n] \in Call, TxFails(n),
         UNCHANGED NodeAddrs
  PROVE  CallInv'
  <1>0. CallInv
    BY TypeInvParts
  <1>1. UNCHANGED ServerAddr
    BY DEF TxFails
  <1>2. CASE call[n].stage = "resolve" /\ NodeAddrs[n] # <<>>
    <2>1. NodeAddrs[n][1] \in Nodes
      BY <1>2 DEF TypeInv, TypeOK
    <2>2. call[n].ip \in Ips /\ "relay" \in Stages
      BY DEF Call, Stages
    <2> DEFINE c == StartTx("relay", call[n].ip, NodeAddrs[n][1], 0)
    <2>3. c \in Call
      BY <2>1, <2>2, StartTxType
    <2>4. call' = [call EXCEPT ![n] = c] /\ writes' = writes
      BY <1>2 DEF TxFails
    <2> HIDE DEF c
    <2> QED
      BY <1>0, <1>1, <1>2, <2>3, <2>4, CallMoves DEF CallInv
  <1>3. CASE ~(call[n].stage = "resolve" /\ NodeAddrs[n] # <<>>)
    <2>1. Return(n, FALSE, 0)
      BY <1>3 DEF TxFails
    <2>2. FALSE \in BOOLEAN /\ 0 \in Int
      OBVIOUS
    <2>3. /\ call' \in [Nodes -> Call \cup {NoCall}]
          /\ \A m \in Nodes : call'[m].stage = "relay" => NodeAddrs[m] # <<>>
          /\ writes' \in [Nodes -> Seq(Result)]
      BY <1>0, <2>1, <2>2, ReturnType, Zenon
    <2> QED
      BY <1>0, <1>1, <2>3 DEF CallInv
  <1> QED
    BY <1>2, <1>3

LEMMA TxSucceedsType ==
  ASSUME TypeInv, NEW n \in Nodes, call[n] \in Call, NEW lag \in Int,
         ADDR_LIST' \in [Nodes -> [Ips -> Nodes \cup {NoMac}]],
         TxSucceeds(n, lag), UNCHANGED NodeAddrs
  PROVE  CallInv'
  <1>0. CallInv
    BY TypeInvParts
  <1>1. call[n].ip \in Ips /\ "resolved" \in Stages
    BY DEF Call, Stages
  <1>2. CASE call[n].stage = "resolve"
    <2> DEFINE c == StartTx("resolved", call[n].ip,
                            ADDR_LIST'[n][call[n].ip], lag)
    <2>1. ADDR_LIST'[n][call[n].ip] \in Nodes \cup {NoMac}
      BY <1>1
    <2>2. c \in Call
      BY <1>1, <2>1, StartTxType
    <2>3. c.stage # "relay"
      BY DEF StartTx
    <2>4. /\ call' = [call EXCEPT ![n] = c]
          /\ UNCHANGED <<ServerAddr, writes>>
      BY <1>2 DEF TxSucceeds
    <2> HIDE DEF c
    <2> QED
      BY <1>0, <2>2, <2>3, <2>4, CallMoves DEF CallInv
  <1>3. CASE call[n].stage # "resolve"
    <2>1. Return(n, TRUE, lag)
      BY <1>3 DEF TxSucceeds
    <2>2. ServerAddr' = IF call[n].stage = "relay"
                        THEN [ServerAddr EXCEPT ![n] = call[n].ip]
                        ELSE ServerAddr
      BY <1>3 DEF TxSucceeds
    <2>3. /\ ServerAddr' \in [Nodes -> Ips \cup {NoIp}]
          /\ \A m \in Nodes : ServerAddr'[m] # NoIp => NodeAddrs[m] # <<>>
      BY <1>0, <1>1, <2>2 DEF CallInv
    <2> QED
      BY <1>0, <2>1, <2>3, ReturnType DEF CallInv
  <1> QED
    BY <1>2, <1>3

LEMMA InitTypeInv == Init => TypeInv
  <1> SUFFICES ASSUME Init PROVE TypeInv
    OBVIOUS
  <1>1. /\ Seq_ \in [Nodes -> -1 .. SeqMod - 1]
        /\ ADDR_LIST \in [Nodes -> [Ips -> Nodes \cup {NoMac}]]
        /\ NodeAddrs \in [Nodes -> Seq(Nodes)]
        /\ ServerAddr \in [Nodes -> Ips \cup {NoIp}]
        /\ txCount \in [Nodes -> Nat]
        /\ air \in SUBSET Packet
        /\ arrived \in SUBSET (Nodes \X Nat \X Nodes)
    BY NfdAssumption DEF Init
  <1>2. /\ AckQueue \in [Nodes -> Seq(Replies)]
        /\ DataQueue \in [Nodes -> Seq(Requests)]
        /\ RxData \in [Nodes -> Seq([src: Nodes, w: Nat])]
        /\ writes \in [Nodes -> Seq(Result)]
        /\ \A n \in Nodes : /\ Len(AckQueue[n]) <= AckCap
                            /\ Len(DataQueue[n]) <= DataCap
                            /\ Len(RxData[n]) <= RxCap
    BY NfdAssumption DEF Init
  <1>3. /\ call \in [Nodes -> Call \cup {NoCall}]
        /\ received \in [Nodes -> Packet \cup {NoPacket}]
        /\ handler \in [Nodes -> {Waiting} \cup
                          [pc: {"addr", "data", "ack"}, p: Requests]]
    BY DEF Init
  <1>4. ServerAddrHasNeighbour /\ RelayHasNeighbour
    BY DEF Init, NoCall, ServerAddrHasNeighbour, RelayHasNeighbour
  <1> QED
    BY <1>1, <1>2, <1>3, <1>4 DEF TypeInv, TypeOK

(* Every step of the specification keeps the invariant.  The parts of      *)
(* TypeOK about variables that the step leaves alone follow at once.       *)
LEMMA NextTypeInv == TypeInv /\ [Next]_vars => TypeInv'
  <1> SUFFICES ASSUME TypeInv, [Next]_vars
               PROVE  CallInv' /\ QueueInv' /\ HandlerInv' /\ TableInv'
    BY TypeInvParts
  <1> USE DEF callVars, queueVars, handlerVars
  <1>0. CallInv /\ QueueInv /\ HandlerInv /\ TableInv
    BY TypeInvParts
  <1>1. CASE UNCHANGED vars
    BY <1>0, <1>1 DEF vars, CallInv, QueueInv, HandlerInv, TableInv
  <1>2. ASSUME NEW n \in Nodes, NEW ip \in Dests[n] \cap Ips, Write(n, ip)
        PROVE  CallInv' /\ QueueInv' /\ HandlerInv' /\ TableInv'
    <2> DEFINE c == Route(n, ip)
    <2>1. c \in Call /\ c.stage # "relay"
      <3>1. ip = ServerAddr[n] => NodeAddrs[n][1] \in Nodes
        BY <1>0, NfdAssumption DEF CallInv, TableInv
      <3>2. ADDR_LIST[n][ip] \in Nodes \cup {NoMac}
        BY <1>0 DEF TableInv
      <3> QED
        BY <3>1, <3>2, StartTxType DEF Route, Stages
    <2>2. call' = [call EXCEPT ![n] = c]
      BY <1>2 DEF Write
    <2> HIDE DEF c
    <2>3. CallInv'
      BY <1>0, <1>2, <2>1, <2>2, CallMoves DEF Write, CallInv
    <2> QED
      BY <1>0, <1>2, <2>3 DEF Write, QueueInv, HandlerInv, TableInv
  <1>3. ASSUME NEW n \in Nodes, WriteRefused(n)
        PROVE  CallInv' /\ QueueInv' /\ HandlerInv' /\ TableInv'
    <2>1. [ip |-> BCST_IPv4, ok |-> FALSE, lag |-> 0] \in Result
      BY DEF Result
    <2>2. writes' \in [Nodes -> Seq(Result)]
      BY <1>0, <1>3, <2>1, QueueAppend DEF WriteRefused, CallInv
    <2> QED
      BY <1>0, <1>3, <2>2
      DEF WriteRefused, CallInv, QueueInv, HandlerInv, TableInv
  <1>4. ASSUME NEW n \in Nodes, Transmit(n)
        PROVE  CallInv' /\ QueueInv' /\ HandlerInv' /\ TableInv'
    <2>1. call[n] \in Call
      BY <1>0, <1>4, InSend DEF Transmit, CallInv
    <2>2. (Seq_[n] + 1) % SeqMod \in 0 .. SeqMod - 1 /\ txCount[n] + 1 \in Nat \ {0}
      BY <1>0, NfdAssumption DEF TableInv
    <2>3. CallInv'
      <3>1. CASE TxFails(n)
        BY <1>4, <2>1, <3>1, TxFailsType DEF Transmit
      <3>2. CASE call' = [call EXCEPT ![n].at = "select"] /\ UNCHANGED <<ServerAddr, writes>>
        <4> DEFINE c == [call[n] EXCEPT !.at = "select"]
        <4>1. c \in Call /\ c.stage = call[n].stage
          BY <2>1 DEF Call
        <4>2. call' = [call EXCEPT ![n] = c]
          BY <3>2
        <4> HIDE DEF c
        <4> QED
          BY <1>0, <1>4, <3>2, <4>1, <4>2, CallMoves DEF Transmit, CallInv
      <3> QED
        BY <1>4, <3>1, <3>2 DEF Transmit
    <2>4. air' \in SUBSET Packet
      <3>1. Targets(n, call[n].mac) \subseteq Nodes
        BY DEF Targets
      <3>2. \A m \in Nodes :
              Request(n, m, (Seq_[n] + 1) % SeqMod, txCount[n] + 1) \in Packet
        BY <1>0, <2>1, <2>2, RequestType DEF CallInv
      <3> QED
        BY <1>0, <1>4, <3>1, <3>2 DEF Transmit, TableInv
    <2>5. TableInv'
      BY <1>0, <1>4, <2>2, <2>4 DEF Transmit, TableInv
    <2> QED
      BY <1>0, <1>4, <2>3, <2>5 DEF Transmit, QueueInv, HandlerInv
  <1>5. ASSUME NEW n \in Nodes, TakeAck(n)
        PROVE  CallInv' /\ QueueInv' /\ HandlerInv' /\ TableInv'
    <2> DEFINE ack == Head(AckQueue[n])
    <2>1. call[n] \in Call
      BY <1>0, <1>5, InSend DEF TakeAck, CallInv
    <2>2. /\ ack \in Replies
          /\ Tail(AckQueue[n]) \in Seq(Replies)
          /\ Len(Tail(AckQueue[n])) < Len(AckQueue[n])
      BY <1>0, <1>5, QueueTail DEF TakeAck, QueueInv
    <2>3. QueueInv'
      <3>1. Len(Tail(AckQueue[n])) <= AckCap
        BY <1>0, <2>2, NfdAssumption DEF QueueInv
      <3> QED
        BY <1>0, <1>5, <2>2, <3>1 DEF TakeAck, QueueInv
    <2>4. ADDR_LIST' \in [Nodes -> [Ips -> Nodes \cup {NoMac}]]
      <3>1. ack.src \in Nodes
        BY <2>2 DEF Replies, Packet
      <3> HIDE DEF ack
      <3>2. Learned(n, ack) \in [Nodes -> [Ips -> Nodes \cup {NoMac}]]
        BY <1>0, <3>1 DEF Learned, TableInv, Ips
      <3>3. ADDR_LIST' \in {ADDR_LIST, Learned(n, ack)}
        BY <1>5 DEF TakeAck, ack
      <3> QED
        BY <1>0, <3>2, <3>3 DEF TableInv
    <2>5. CallInv'
      <3>1. txCount[n] - ack.id \in Int
        <4>1. ack.id \in Int
          BY <2>2 DEF Replies, Packet
        <4> HIDE DEF ack
        <4> QED
          BY <1>0, <4>1 DEF TableInv
      <3>2. CASE TxSucceeds(n, txCount[n] - ack.id)
        BY <1>5, <2>1, <2>4, <3>1, <3>2, TxSucceedsType DEF TakeAck
      <3>3. CASE UNCHANGED <<ServerAddr, call, writes>>
        BY <1>0, <1>5, <3>3 DEF TakeAck, CallInv
      <3> QED
        BY <1>5, <3>2, <3>3 DEF TakeAck
    <2> QED
      BY <1>0, <1>5, <2>3, <2>4, <2>5 DEF TakeAck, HandlerInv, TableInv
  <1>6. ASSUME NEW n \in Nodes, FallAsleep(n)
        PROVE  CallInv' /\ QueueInv' /\ HandlerInv' /\ TableInv'
    <2> DEFINE c == [call[n] EXCEPT !.at = "sleep"]
    <2>1. c \in Call /\ c.stage = call[n].stage
      BY <1>0, <1>6, InSend DEF FallAsleep, CallInv, Call
    <2>2. call' = [call EXCEPT ![n] = c]
      BY <1>6 DEF FallAsleep
    <2> HIDE DEF c
    <2>3. CallInv'
      BY <1>0, <1>6, <2>1, <2>2, CallMoves DEF FallAsleep, CallInv
    <2> QED
      BY <1>0, <1>6, <2>3 DEF FallAsleep, QueueInv, HandlerInv, TableInv
  <1>7. ASSUME NEW n \in Nodes, Tick(n)
        PROVE  CallInv' /\ QueueInv' /\ HandlerInv' /\ TableInv'
    <2>1. call[n] \in Call
      BY <1>0, <1>7, InSend DEF Tick, CallInv
    <2>2. CallInv'
      <3>1. CASE call[n].count + 1 = Ticks
        BY <1>7, <2>1, <3>1, TxFailsType DEF Tick
      <3>2. CASE call[n].count + 1 # Ticks
        <4> DEFINE c == [call[n] EXCEPT
                           !.count = call[n].count + 1,
                           !.at = IF AckQueue[n] = <<>> THEN "sleep" ELSE "select"]
        <4>1. c \in Call /\ c.stage = call[n].stage
          <5>1. call[n].count + 1 \in 0 .. Ticks - 1
            BY <2>1, <3>2, NfdAssumption DEF Call
          <5> QED
            BY <2>1, <5>1 DEF Call
        <4>2. call' = [call EXCEPT ![n] = c]
          BY <1>7, <3>2 DEF Tick
        <4> HIDE DEF c
        <4> QED
          BY <1>0, <1>7, <3>2, <4>1, <4>2, CallMoves DEF Tick, CallInv
      <3> QED
        BY <3>1, <3>2
    <2> QED
      BY <1>0, <1>7, <2>2 DEF Tick, QueueInv, HandlerInv, TableInv
  <1>8. ASSUME NEW n \in Nodes, Receive(n)
        PROVE  CallInv' /\ QueueInv' /\ HandlerInv' /\ TableInv'
    BY <1>0, <1>8 DEF Receive, CallInv, QueueInv, HandlerInv, TableInv
  <1>9. ASSUME NEW n \in Nodes, Enqueue(n)
        PROVE  CallInv' /\ QueueInv' /\ HandlerInv' /\ TableInv'
    <2>1. CASE /\ IsReply(received[n])
               /\ Len(AckQueue[n]) < AckCap
               /\ AckQueue' = [AckQueue EXCEPT ![n] = Append(@, received[n])]
               /\ UNCHANGED DataQueue
      <3>1. received[n] \in Replies
        BY <1>0, <1>9, <2>1 DEF Enqueue, QueueInv, IsReply, Replies
      <3>2. /\ Append(AckQueue[n], received[n]) \in Seq(Replies)
            /\ Len(Append(AckQueue[n], received[n])) <= AckCap
        BY <1>0, <2>1, <3>1, QueueAppend, NfdAssumption DEF QueueInv
      <3> QED
        BY <1>0, <1>9, <2>1, <3>2
        DEF Enqueue, CallInv, QueueInv, HandlerInv, TableInv
    <2>2. CASE /\ ~IsReply(received[n])
               /\ Len(DataQueue[n]) < DataCap
               /\ DataQueue' = [DataQueue EXCEPT ![n] = Append(@, received[n])]
               /\ UNCHANGED AckQueue
      <3>1. received[n] \in Requests
        BY <1>0, <1>9, <2>2 DEF Enqueue, QueueInv, IsReply, Requests, Packet
      <3>2. /\ Append(DataQueue[n], received[n]) \in Seq(Requests)
            /\ Len(Append(DataQueue[n], received[n])) <= DataCap
        BY <1>0, <2>2, <3>1, QueueAppend, NfdAssumption DEF QueueInv
      <3> QED
        BY <1>0, <1>9, <2>2, <3>2
        DEF Enqueue, CallInv, QueueInv, HandlerInv, TableInv
    <2> QED
      BY <1>9, <2>1, <2>2 DEF Enqueue
  <1>10. ASSUME NEW n \in Nodes, TakeData(n)
         PROVE  CallInv' /\ QueueInv' /\ HandlerInv' /\ TableInv'
    <2> DEFINE p == Head(DataQueue[n])
    <2>1. /\ p \in Requests
          /\ Tail(DataQueue[n]) \in Seq(Requests)
          /\ Len(Tail(DataQueue[n])) < Len(DataQueue[n])
      BY <1>0, <1>10, QueueTail DEF TakeData, QueueInv
    <2>2. QueueInv'
      <3>1. Len(Tail(DataQueue[n])) <= DataCap
        BY <1>0, <2>1, NfdAssumption DEF QueueInv
      <3> QED
        BY <1>0, <1>10, <2>1, <3>1 DEF TakeData, QueueInv
    <2> HIDE DEF p
    <2>3. Handling(n, p) \in {Waiting} \cup [pc: {"addr", "data", "ack"}, p: Requests]
      BY <2>1 DEF Handling
    <2>4. handler' = [handler EXCEPT ![n] = Handling(n, p)]
      BY <1>10 DEF TakeData, p
    <2>5. HandlerInv'
      BY <1>0, <1>10, <2>3, <2>4 DEF TakeData, HandlerInv
    <2> QED
      BY <1>0, <1>10, <2>2, <2>5 DEF TakeData, CallInv, TableInv
  <1>11. ASSUME NEW n \in Nodes, SendAddrResp(n)
         PROVE  CallInv' /\ QueueInv' /\ HandlerInv' /\ TableInv'
    <2>1. handler[n].p \in Packet
      BY <1>0, <1>11 DEF SendAddrResp, HandlerInv, Waiting, Requests
    <2>2. Reply(n, "ADDR_RESP", handler[n].p) \in Packet
      BY <2>1, ReplyType DEF AckTypes
    <2> QED
      BY <1>0, <1>11, <2>2
      DEF SendAddrResp, CallInv, QueueInv, HandlerInv, TableInv
  <1>12. ASSUME NEW n \in Nodes, Deliver(n)
         PROVE  CallInv' /\ QueueInv' /\ HandlerInv' /\ TableInv'
    <2> DEFINE p == handler[n].p
               d == [src |-> p.src, w |-> p.w]
    <2>1. p \in Requests
      BY <1>0, <1>12 DEF Deliver, HandlerInv, Waiting
    <2>2. p.src \in Nodes /\ p.w \in Nat /\ d \in [src: Nodes, w: Nat]
      BY <2>1 DEF Requests, Packet
    <2>3. /\ Append(RxData[n], d) \in Seq([src: Nodes, w: Nat])
          /\ Len(Append(RxData[n], d)) <= RxCap
      <3>1. RxData[n] \in Seq([src: Nodes, w: Nat]) /\ Len(RxData[n]) < RxCap
        BY <1>0, <1>12 DEF Deliver, HandlerInv
      <3> HIDE DEF d
      <3> QED
        BY <2>2, <3>1, QueueAppend, NfdAssumption
    <2>4. /\ RxData' = [RxData EXCEPT ![n] = Append(@, d)]
          /\ arrived' = arrived \cup {<<p.src, p.w, n>>}
          /\ handler' = [handler EXCEPT ![n] = [pc |-> "ack", p |-> p]]
      BY <1>12 DEF Deliver
    <2> HIDE DEF p, d
    <2>5. HandlerInv'
      BY <1>0, <2>1, <2>2, <2>3, <2>4 DEF HandlerInv
    <2> QED
      BY <1>0, <1>12, <2>5 DEF Deliver, CallInv, QueueInv, TableInv
  <1>13. ASSUME NEW n \in Nodes, SendAck(n)
         PROVE  CallInv' /\ QueueInv' /\ HandlerInv' /\ TableInv'
    <2>1. handler[n].p \in Packet
      BY <1>0, <1>13 DEF SendAck, HandlerInv, Waiting, Requests
    <2>2. Reply(n, "ACK", handler[n].p) \in Packet
      BY <2>1, ReplyType DEF AckTypes
    <2> QED
      BY <1>0, <1>13, <2>2 DEF SendAck, CallInv, QueueInv, HandlerInv, TableInv
  <1>14. ASSUME NEW n \in Nodes, DetectNodes(n)
         PROVE  CallInv' /\ QueueInv' /\ HandlerInv' /\ TableInv'
    <2>1. PICK found \in Discoveries(n) \ {<<>>} :
            NodeAddrs' = [NodeAddrs EXCEPT ![n] = found]
      BY <1>14 DEF DetectNodes
    <2>2. found \in Seq(Nodes)
      <3>1. PICK k \in 0 .. MaxFound[n] : found \in [1 .. k -> Nodes \ {n}]
        BY DEF Discoveries
      <3>2. k \in Nat /\ found \in [1 .. k -> Nodes]
        BY <3>1, NfdAssumption
      <3> QED
        BY <3>2, SeqDef
    <2> QED
      BY <1>0, <1>14, <2>1, <2>2
      DEF DetectNodes, CallInv, QueueInv, HandlerInv, TableInv
  <1>15. ASSUME NEW n \in Nodes, Read(n)
         PROVE  CallInv' /\ QueueInv' /\ HandlerInv' /\ TableInv'
    <2>1. /\ Tail(RxData[n]) \in Seq([src: Nodes, w: Nat])
          /\ Len(Tail(RxData[n])) <= RxCap
      BY <1>0, <1>15, QueueTail, NfdAssumption DEF Read, HandlerInv
    <2> QED
      BY <1>0, <1>15, <2>1 DEF Read, CallInv, QueueInv, HandlerInv, TableInv
  <1> QED
    BY <1>1, <1>2, <1>3, <1>4, <1>5, <1>6, <1>7, <1>8, <1>9, <1>10, <1>11,
       <1>12, <1>13, <1>14, <1>15 DEF Next

LEMMA TypeInvariant == Spec => []TypeInv
  BY InitTypeInv, NextTypeInv, PTL DEF Spec

-----------------------------------------------------------------------------
(* The theorems *)

(* Every variable of Nfd is of its type in every state the nodes can       *)
(* reach, and no queue holds more than its capacity.                       *)
THEOREM TypeCorrect == Spec => []TypeOK
  <1>1. TypeInv => TypeOK
    BY DEF TypeInv
  <1> QED
    BY <1>1, TypeInvariant, PTL

(* NodeAddrs[0] exists whenever Send routes through ServerAddr             *)
(* (nfd.go:313-315), whatever NodeDetector finds in between.               *)
THEOREM RelayRouteUsable == Spec => []ServerAddrHasNeighbour
  <1>1. TypeInv => ServerAddrHasNeighbour
    BY DEF TypeInv
  <1> QED
    BY <1>1, TypeInvariant, PTL

-----------------------------------------------------------------------------
(* What a successful Write says.  The argument follows the packets: every  *)
(* packet in circulation is numbered by the node whose transmission caused *)
(* it, an ACK is evidence that its data arrived, and a packet of the       *)
(* current transmission fits the call that waits for its answer.           *)

Elements(q) == {q[i] : i \in DOMAIN q}

(* The packets that node n holds. *)
At(n) ==
  ({received[n]} \ {NoPacket}) \cup Elements(AckQueue[n])
    \cup Elements(DataQueue[n])
    \cup (IF handler[n] = Waiting THEN {} ELSE {handler[n].p})

(* The node whose transmission caused p. *)
Requester(p) == IF IsReply(p) THEN p.to ELSE p.src

InWait(n) == call[n].at \in {"select", "sleep"}

Numbered(p) ==
  p.id <= txCount[Requester(p)] /\ p.seq = (p.id - 1) % SeqMod

Truthful(p) ==
  /\ p.type = "ACK" => <<p.to, p.w, p.src>> \in arrived
  /\ p.type = "P2P" => p.to = p.ip

(* p belongs to the transmission that its requester now waits for. *)
Current(p) == p.id = txCount[Requester(p)] /\ InWait(Requester(p))

Fits(p) ==
  LET c == call[Requester(p)] IN
  /\ c.stage = "resolve" <=> p.type \in {"ADDR_REQ", "ADDR_RESP"}
  /\ c.stage # "resolve" => p.w = Len(writes[Requester(p)]) + 1
  /\ p.type = "ADDR_REQ" => p.ip = c.ip
  /\ p.type = "ADDR_RESP" => p.src = c.ip

Good(p) == Numbered(p) /\ Truthful(p) /\ (Current(p) => Fits(p))

PacketsGood ==
  /\ \A p \in air : Good(p)
  /\ \A n \in Nodes : \A p \in At(n) : p.to = n /\ Good(p)

Counted ==
  \A n \in Nodes :
    /\ Seq_[n] = IF txCount[n] = 0 THEN -1 ELSE (txCount[n] - 1) % SeqMod
    /\ InWait(n) => txCount[n] > 0

HandlerHonest ==
  \A n \in Nodes :
    LET h == handler[n] IN
    /\ h.pc = "addr" => h.p.type = "ADDR_REQ" /\ h.p.ip = n
    /\ h.pc \in {"data", "ack"} => h.p.type # "ADDR_REQ"
    /\ h.pc = "ack" => <<h.p.src, h.p.w, n>> \in arrived

AddressesRight ==
  \A n \in Nodes :
    /\ \A ip \in Ips : ADDR_LIST[n][ip] \in {ip, NoMac}
    /\ call[n].stage = "direct" => call[n].mac = call[n].ip
    /\ call[n].stage = "resolved" => call[n].mac \in {call[n].ip, NoMac}

DeliveryInv ==
  /\ PacketsGood /\ Counted /\ HandlerHonest /\ AddressesRight
  /\ OkMeansArrived /\ ResolvedHasMac

-----------------------------------------------------------------------------
(* Arithmetic of the sequence numbers. *)

LEMMA Division ==
  ASSUME NEW M \in Nat \ {0}, NEW x \in Int
  PROVE  /\ x \div M \in Int /\ x % M \in 0 .. M - 1
         /\ x = M * (x \div M) + (x % M)
  OBVIOUS
LEMMA Multiples ==
  ASSUME NEW M \in Nat \ {0}, NEW a \in Int, NEW b \in Int, a < b
  PROVE  M * b - M * a >= M /\ M * a \in Int /\ M * b \in Int
  OBVIOUS
LEMMA Congruent ==
  ASSUME NEW M \in Nat \ {0}, NEW x \in Int, NEW y \in Int, x < y, x % M = y % M
  PROVE  y - x >= M
  <1> DEFINE a == x \div M
             b == y \div M
             r == x % M
  <1>1. /\ a \in Int /\ b \in Int /\ r \in Int
        /\ x = M * a + r /\ y = M * b + r
    BY Division
  <1> HIDE DEF a, b, r
  <1>2. a < b
    <2>1. CASE a = b BY <1>1, <2>1
    <2>2. CASE b < a BY <1>1, <2>2, Multiples
    <2> QED BY <1>1, <2>1, <2>2
  <1> QED
    BY <1>1, <1>2, Multiples
LEMMA Successor ==
  ASSUME NEW M \in Nat \ {0}, NEW x \in Int
  PROVE  ((x % M) + 1) % M = (x + 1) % M
  <1> DEFINE y == (x % M) + 1
  <1>1. y \in Int /\ (x + 1) - y = M * (x \div M) /\ x \div M \in Int
    <2> DEFINE q == x \div M
               t == x % M
    <2>1. q \in Int /\ t \in Int /\ x = M * q + t
      BY Division
    <2>2. M * q \in Int /\ y = t + 1
      BY <2>1
    <2> HIDE DEF q, t, y
    <2>3. y \in Int /\ (x + 1) - y = M * q
      BY <2>1, <2>2
    <2> QED BY <2>1, <2>3 DEF q
  <1> DEFINE a == y \div M
             b == (x + 1) \div M
             c == x \div M
             r == y % M
             s == (x + 1) % M
  <1>2. /\ a \in Int /\ b \in Int /\ r \in 0 .. M - 1 /\ s \in 0 .. M - 1
        /\ y = M * a + r /\ x + 1 = M * b + s
    BY <1>1, Division
  <1> HIDE DEF a, b, r, s, y
  <1>3. M * b + s - (M * a + r) = M * c
    BY <1>1, <1>2
  <1> HIDE DEF c
  <1>4. c \in Int /\ M * (a + c) = M * a + M * c
    <2>1. c \in Int BY <1>1 DEF c
    <2> QED BY <1>2, <2>1
  <1>5. ~ (b < a + c)
    <2> SUFFICES ASSUME b < a + c PROVE FALSE OBVIOUS
    <2>1. M * (a + c) - M * b >= M BY <1>2, <1>4, Multiples
    <2> QED BY <1>2, <1>3, <1>4, <2>1
  <1>6. ~ (a + c < b)
    <2> SUFFICES ASSUME a + c < b PROVE FALSE OBVIOUS
    <2>1. M * b - M * (a + c) >= M BY <1>2, <1>4, Multiples
    <2> QED BY <1>2, <1>3, <1>4, <2>1
  <1> QED
    <2>1. b = a + c BY <1>2, <1>4, <1>5, <1>6
    <2>2. r = s BY <1>2, <1>3, <1>4, <2>1
    <2> QED BY <2>2 DEF r, s, y

-----------------------------------------------------------------------------
(* How a step may change what the goodness of a packet depends on: a node  *)
(* transmits, leaves the wait, or stays in it with the same call.          *)
Onward ==
  /\ arrived \subseteq arrived'
  /\ \A n \in Nodes :
       \/ txCount'[n] = txCount[n] + 1
       \/ txCount'[n] = txCount[n] /\ ~InWait(n)'
       \/ /\ txCount'[n] = txCount[n] /\ InWait(n)
          /\ call'[n].stage = call[n].stage /\ call'[n].ip = call[n].ip
          /\ writes'[n] = writes[n]

LEMMA RequesterType ==
  ASSUME NEW p \in Packet
  PROVE  Requester(p) \in Nodes
  BY DEF Requester, Packet

LEMMA GoodKept ==
  ASSUME TypeInv, Onward, NEW p \in Packet, Good(p)
  PROVE  Good(p)'
  <1> DEFINE n == Requester(p)
  <1>1. n \in Nodes /\ txCount[n] \in Nat /\ p.id \in Nat
    BY RequesterType DEF TypeInv, TypeOK, Packet
  <1>2. Requester(p)' = n
    BY DEF Requester, IsReply
  <1>3. Numbered(p)'
    BY <1>1, <1>2 DEF Good, Numbered, Onward
  <1>4. Truthful(p)'
    BY DEF Good, Truthful, Onward
  <1>5. Current(p)' => Fits(p)'
    <2> SUFFICES ASSUME Current(p)' PROVE Fits(p)'
      OBVIOUS
    <2>1. p.id = txCount'[n] /\ InWait(n)'
      BY <1>2 DEF Current
    <2>2. /\ txCount'[n] = txCount[n] /\ InWait(n)
          /\ call'[n].stage = call[n].stage /\ call'[n].ip = call[n].ip
          /\ writes'[n] = writes[n]
      BY <1>1, <2>1 DEF Onward, Good, Numbered
    <2>3. Fits(p)
      BY <2>1, <2>2 DEF Good, Current
    <2> HIDE DEF n
    <2> QED
      BY <1>2, <2>2, <2>3 DEF Fits, n
  <1> QED
    BY <1>3, <1>4, <1>5 DEF Good

(* A queue holds elements of its type; Tail and Append do what one expects. *)
LEMMA ElementsType ==
  ASSUME NEW S, NEW q \in Seq(S)
  PROVE  Elements(q) \subseteq S
  BY DEF Elements

LEMMA ElementsTail ==
  ASSUME NEW S, NEW q \in Seq(S), q # <<>>
  PROVE  Head(q) \in Elements(q) /\ Elements(Tail(q)) \subseteq Elements(q)
  BY DEF Elements

LEMMA ElementsAppend ==
  ASSUME NEW S, NEW q \in Seq(S), NEW e
  PROVE  Elements(Append(q, e)) \subseteq Elements(q) \cup {e}
  BY DEF Elements

LEMMA HeldType ==
  ASSUME TypeInv
  PROVE  air \subseteq Packet /\ \A n \in Nodes : At(n) \subseteq Packet
  <1>1. air \subseteq Packet
    BY DEF TypeInv, TypeOK
  <1>2. ASSUME NEW n \in Nodes
        PROVE  At(n) \subseteq Packet
    <2>1. AckQueue[n] \in Seq(Replies) /\ DataQueue[n] \in Seq(Requests)
      BY DEF TypeInv, TypeOK
    <2>2. Elements(AckQueue[n]) \subseteq Packet /\ Elements(DataQueue[n]) \subseteq Packet
      <3>1. Replies \subseteq Packet /\ Requests \subseteq Packet
        BY DEF Replies, Requests
      <3> QED
        BY <2>1, <3>1, ElementsType
    <2>3. received[n] \in Packet \cup {NoPacket}
      BY DEF TypeInv, TypeOK
    <2>4. handler[n] # Waiting => handler[n].p \in Packet
      BY DEF TypeInv, TypeOK, Requests
    <2> QED
      BY <2>1, <2>2, <2>3, <2>4 DEF At
  <1> QED
    BY <1>1, <1>2

(* The packets of a step are good if the new ones are. *)
LEMMA PacketsKept ==
  ASSUME TypeInv, PacketsGood, Onward,
         NEW New, \A p \in New : Good(p)',
         air' \subseteq air \cup New,
         \A n \in Nodes : At(n)' \subseteq At(n) \cup {p \in air : p.to = n}
  PROVE  PacketsGood'
  <1>1. air \subseteq Packet /\ \A n \in Nodes : At(n) \subseteq Packet
    BY HeldType
  <1>2. \A p \in air : Good(p)'
    BY <1>1, GoodKept DEF PacketsGood
  <1>3. \A n \in Nodes : \A p \in At(n) : Good(p)'
    BY <1>1, GoodKept DEF PacketsGood
  <1> QED
    BY <1>2, <1>3 DEF PacketsGood

LEMMA NothingNew ==
  ASSUME TypeInv, PacketsGood, Onward, air' \subseteq air,
         \A n \in Nodes : At(n)' \subseteq At(n) \cup {p \in air : p.to = n}
  PROVE  PacketsGood'
  <1> DEFINE New == {}
  <1>1. (\A p \in New : Good(p)') /\ air' \subseteq air \cup New
    OBVIOUS
  <1> HIDE DEF New
  <1> QED
    BY <1>1, PacketsKept

-----------------------------------------------------------------------------
(* The steps outside Send, and the steps of Send. *)

CallSide == Counted /\ AddressesRight /\ OkMeansArrived /\ ResolvedHasMac

(* OkMeansArrived after a Write has returned. *)
LEMMA WriteRecorded ==
  ASSUME TypeInv, OkMeansArrived, arrived' = arrived, NEW n \in Nodes,
         NEW r \in Result, writes' = [writes EXCEPT ![n] = Append(@, r)],
         r.ok => \/ \E m \in Nodes : <<n, Len(writes[n]) + 1, m>> \in arrived
                 \/ r.lag >= SeqMod
  PROVE  OkMeansArrived'
  <1> SUFFICES ASSUME NEW k \in Nodes, NEW w \in DOMAIN writes'[k], writes'[k][w].ok
               PROVE  \/ \E m \in Nodes : <<k, w, m>> \in arrived
                      \/ writes'[k][w].lag >= SeqMod
    BY DEF OkMeansArrived
  <1>1. writes \in [Nodes -> Seq(Result)]
    BY DEF TypeInv, TypeOK
  <1>2. CASE w \in DOMAIN writes[k] /\ writes'[k][w] = writes[k][w]
    BY <1>2 DEF OkMeansArrived
  <1>3. CASE k = n /\ w = Len(writes[n]) + 1 /\ writes'[k][w] = r
    BY <1>3
  <1>4. \/ w \in DOMAIN writes[k] /\ writes'[k][w] = writes[k][w]
        \/ k = n /\ w = Len(writes[n]) + 1 /\ writes'[k][w] = r
    <2>1. CASE k = n
      <3>1. writes[n] \in Seq(Result) /\ writes'[n] = Append(writes[n], r)
        BY <1>1
      <3>2. w \in 1 .. Len(writes[n]) + 1
        BY <2>1, <3>1
      <3> QED
        BY <2>1, <3>1, <3>2
    <2>2. CASE k # n
      BY <1>1, <2>2
    <2> QED
      BY <2>1, <2>2
  <1> QED
    BY <1>2, <1>3, <1>4

(* A call moves to c, which is not "direct" or "resolved" with a wrong     *)
(* address.                                                                *)
LEMMA CallMovesRight ==
  ASSUME TypeInv, AddressesRight, ResolvedHasMac, NEW n \in Nodes, NEW c,
         call' = [call EXCEPT ![n] = c],
         \A k \in Nodes, ip \in Ips : ADDR_LIST'[k][ip] \in {ip, NoMac},
         c.stage = "direct" => c.mac = c.ip,
         c.stage = "resolved" => /\ c.mac \in {c.ip, NoMac}
                                 /\ c.mac = c.ip \/ c.lag >= SeqMod
  PROVE  AddressesRight' /\ ResolvedHasMac'
  BY DEF TypeInv, TypeOK, AddressesRight, ResolvedHasMac

(* A Tx that fails leaves Send at another Tx or the Write with an error. *)
LEMMA TxFailsSide ==
  ASSUME TypeInv, AddressesRight, ResolvedHasMac, OkMeansArrived, NEW n \in Nodes,
         call[n] \in Call, TxFails(n), UNCHANGED <<ADDR_LIST, arrived>>
  PROVE  /\ AddressesRight' /\ ResolvedHasMac' /\ OkMeansArrived'
         /\ ~InWait(n)'
         /\ \A k \in Nodes \ {n} : call'[k] = call[k] /\ writes'[k] = writes[k]
  <1>0. call \in [Nodes -> Call \cup {NoCall}] /\ writes \in [Nodes -> Seq(Result)]
    BY DEF TypeInv, TypeOK
  <1>1. \A k \in Nodes, ip \in Ips : ADDR_LIST'[k][ip] \in {ip, NoMac}
    BY DEF AddressesRight
  <1>2. CASE call[n].stage = "resolve" /\ NodeAddrs[n] # <<>>
    <2> DEFINE c == StartTx("relay", call[n].ip, NodeAddrs[n][1], 0)
    <2>1. call' = [call EXCEPT ![n] = c] /\ UNCHANGED writes
      BY <1>2 DEF TxFails
    <2>2. c.stage = "relay" /\ c.at = "send"
      BY DEF StartTx
    <2> HIDE DEF c
    <2>3. AddressesRight' /\ ResolvedHasMac'
      BY <1>1, <2>1, <2>2, CallMovesRight
    <2> QED
      BY <1>0, <2>1, <2>2, <2>3 DEF InWait, OkMeansArrived
  <1>3. CASE ~(call[n].stage = "resolve" /\ NodeAddrs[n] # <<>>)
    <2> DEFINE r == [ip |-> call[n].ip, ok |-> FALSE, lag |-> 0]
    <2>1. /\ call' = [call EXCEPT ![n] = NoCall]
          /\ writes' = [writes EXCEPT ![n] = Append(@, r)]
      BY <1>3 DEF TxFails, Return
    <2>2. r \in Result /\ ~r.ok
      BY DEF Result, Call
    <2> HIDE DEF r
    <2>3. NoCall.stage = "idle" /\ NoCall.at = "none"
      BY DEF NoCall
    <2>4. AddressesRight' /\ ResolvedHasMac'
      BY <1>1, <2>1, <2>3, CallMovesRight
    <2>5. OkMeansArrived'
      BY <2>1, <2>2, WriteRecorded
    <2> QED
      BY <1>0, <2>1, <2>3, <2>4, <2>5 DEF InWait
  <1> QED
    BY <1>2, <1>3

(* A step that leaves the calls alone keeps what the invariant says of     *)
(* them, and keeps packets good.                                           *)
LEMMA OutsideSend ==
  ASSUME TypeInv, CallSide, UNCHANGED callVars, arrived \subseteq arrived'
  PROVE  CallSide' /\ Onward
  <1>1. CallSide'
    BY DEF CallSide, callVars, Counted, InWait, AddressesRight, OkMeansArrived,
           ResolvedHasMac
  <1>2. Onward
    BY DEF callVars, Onward, InWait
  <1> QED
    BY <1>1, <1>2

(* A step of node n's Send that transmits nothing. *)
LEMMA InsideSend ==
  ASSUME TypeInv, NEW n \in Nodes, UNCHANGED <<txCount, arrived>>,
         \A k \in Nodes \ {n} : call'[k] = call[k] /\ writes'[k] = writes[k],
         \/ ~InWait(n)'
         \/ /\ InWait(n)
            /\ call'[n].stage = call[n].stage /\ call'[n].ip = call[n].ip
            /\ writes'[n] = writes[n]
  PROVE  Onward
  BY DEF Onward, InWait

LEMMA InitDelivery == Init => DeliveryInv
  <1> SUFFICES ASSUME Init PROVE DeliveryInv
    OBVIOUS
  <1>1. PacketsGood
    <2>1. Elements(<<>>) = {}
      BY DEF Elements
    <2>2. \A n \in Nodes : At(n) = {}
      BY <2>1 DEF Init, At
    <2> QED
      BY <2>2 DEF Init, PacketsGood
  <1>2. Counted /\ AddressesRight
    BY DEF Init, Counted, AddressesRight, InWait, NoCall
  <1>3. HandlerHonest
    BY DEF Init, HandlerHonest, Waiting
  <1>4. OkMeansArrived /\ ResolvedHasMac
    BY DEF Init, OkMeansArrived, ResolvedHasMac, NoCall
  <1> QED
    BY <1>1, <1>2, <1>3, <1>4 DEF DeliveryInv

(* Steps of the other goroutines. *)

LEMMA ReceiveDelivery ==
  ASSUME TypeInv, DeliveryInv, NEW n \in Nodes, Receive(n)
  PROVE  DeliveryInv'
  <1>1. CallSide' /\ Onward
    BY OutsideSend DEF DeliveryInv, CallSide, Receive, handlerVars
  <1>2. \A m \in Nodes : At(m)' \subseteq At(m) \cup {p \in air : p.to = m}
    BY DEF Receive, At, handlerVars, TypeInv, TypeOK
  <1>3. air' \subseteq air
    BY DEF Receive
  <1>4. PacketsGood'
    BY <1>1, <1>2, <1>3, NothingNew DEF DeliveryInv
  <1>5. HandlerHonest'
    BY DEF DeliveryInv, Receive, HandlerHonest, handlerVars
  <1> QED
    BY <1>1, <1>4, <1>5 DEF DeliveryInv, CallSide

LEMMA EnqueueDelivery ==
  ASSUME TypeInv, DeliveryInv, NEW n \in Nodes, Enqueue(n)
  PROVE  DeliveryInv'
  <1>1. CallSide' /\ Onward
    BY OutsideSend DEF DeliveryInv, CallSide, Enqueue, handlerVars
  <1>2. \A m \in Nodes : At(m)' \subseteq At(m)
    <2>1. /\ AckQueue \in [Nodes -> Seq(Replies)]
          /\ DataQueue \in [Nodes -> Seq(Requests)]
          /\ received \in [Nodes -> Packet \cup {NoPacket}]
      BY DEF TypeInv, TypeOK
    <2>2. /\ Elements(Append(AckQueue[n], received[n]))
               \subseteq Elements(AckQueue[n]) \cup {received[n]}
          /\ Elements(Append(DataQueue[n], received[n]))
               \subseteq Elements(DataQueue[n]) \cup {received[n]}
      BY <2>1, ElementsAppend
    <2>3. \A m \in Nodes :
            /\ Elements(AckQueue'[m]) \subseteq Elements(AckQueue[m]) \cup {received[m]}
            /\ Elements(DataQueue'[m]) \subseteq Elements(DataQueue[m]) \cup {received[m]}
            /\ m # n => AckQueue'[m] = AckQueue[m] /\ DataQueue'[m] = DataQueue[m]
            /\ received'[m] = IF m = n THEN NoPacket ELSE received[m]
      BY <2>1, <2>2 DEF Enqueue
    <2>4. received[n] # NoPacket /\ UNCHANGED handler
      BY DEF Enqueue, handlerVars
    <2>5. \A m \in Nodes :
            At(m)' = ({received'[m]} \ {NoPacket}) \cup Elements(AckQueue'[m])
                       \cup Elements(DataQueue'[m])
                       \cup (IF handler[m] = Waiting THEN {} ELSE {handler[m].p})
      BY <2>4 DEF At, Elements
    <2> QED
      BY <2>3, <2>4, <2>5 DEF At
  <1>3. PacketsGood'
    BY <1>1, <1>2, NothingNew DEF DeliveryInv, Enqueue
  <1>4. HandlerHonest'
    BY DEF DeliveryInv, Enqueue, HandlerHonest, handlerVars
  <1> QED
    BY <1>1, <1>3, <1>4 DEF DeliveryInv, CallSide

LEMMA TakeDataDelivery ==
  ASSUME TypeInv, DeliveryInv, NEW n \in Nodes, TakeData(n)
  PROVE  DeliveryInv'
  <1>1. CallSide' /\ Onward
    BY OutsideSend DEF DeliveryInv, CallSide, TakeData
  <1>2. handler' = [handler EXCEPT ![n] = Handling(n, Head(DataQueue[n]))]
    BY DEF TakeData
  <1>3. \A m \in Nodes : At(m)' \subseteq At(m)
    <2>1. /\ Head(DataQueue[n]) \in Elements(DataQueue[n])
          /\ Elements(Tail(DataQueue[n])) \subseteq Elements(DataQueue[n])
      BY ElementsTail DEF TakeData, TypeInv, TypeOK
    <2>2. \A m \in Nodes : Elements(DataQueue'[m]) \subseteq Elements(DataQueue[m])
      BY <2>1 DEF TakeData, TypeInv, TypeOK
    <2>3. \A m \in Nodes :
            handler'[m] # Waiting /\ handler'[m] # handler[m]
              => handler'[m].p \in Elements(DataQueue[m])
      BY <1>2, <2>1 DEF TypeInv, TypeOK, Handling
    <2>4. \A m \in Nodes :
            At(m)' = ({received[m]} \ {NoPacket}) \cup Elements(AckQueue[m])
                       \cup Elements(DataQueue'[m])
                       \cup (IF handler'[m] = Waiting THEN {} ELSE {handler'[m].p})
      BY DEF TakeData, At, Elements
    <2> QED
      BY <2>2, <2>3, <2>4 DEF At
  <1>4. PacketsGood'
    BY <1>1, <1>3, NothingNew DEF DeliveryInv, TakeData
  <1>5. HandlerHonest'
    <2> DEFINE h == Handling(n, Head(DataQueue[n]))
    <2>1. /\ h.pc \in {"addr", "data", "select"}
          /\ h.pc = "addr" => h.p.type = "ADDR_REQ" /\ h.p.ip = n
          /\ h.pc = "data" => h.p.type # "ADDR_REQ"
      BY DEF Handling, Waiting
    <2> HIDE DEF h
    <2>2. \A m \in Nodes : handler'[m] = IF m = n THEN h ELSE handler[m]
      BY <1>2 DEF TypeInv, TypeOK, h
    <2> QED
      BY <2>1, <2>2 DEF DeliveryInv, TakeData, HandlerHonest
  <1> QED
    BY <1>1, <1>4, <1>5 DEF DeliveryInv, CallSide

(* The reply that PacketHandler sends is good if its request is. *)
LEMMA ReplyGood ==
  ASSUME TypeInv, DeliveryInv, UNCHANGED <<callVars, arrived>>, NEW n \in Nodes,
         NEW type \in AckTypes, handler[n] # Waiting,
         type = "ACK" <=> handler[n].pc = "ack",
         type = "ADDR_RESP" <=> handler[n].pc = "addr",
         NEW r, r = Reply(n, type, handler[n].p)
  PROVE  Good(r)'
  <1> DEFINE p == handler[n].p
  <1>1. p \in Requests /\ Good(p)
    BY DEF DeliveryInv, PacketsGood, At, TypeInv, TypeOK
  <1>2. /\ r.to = p.src /\ r.src = n /\ r.w = p.w /\ r.id = p.id /\ r.seq = p.seq
        /\ r.type = type
    BY DEF Reply
  <1>3. ~IsReply(p) /\ IsReply(r)
    BY <1>1, <1>2 DEF IsReply, Requests, DataTypes, AckTypes
  <1>4. Requester(r) = p.src /\ Requester(p) = p.src
    BY <1>2, <1>3 DEF Requester
  <1>5. /\ type = "ADDR_RESP" => p.type = "ADDR_REQ" /\ p.ip = n
        /\ type = "ACK" => p.type # "ADDR_REQ" /\ <<p.src, p.w, n>> \in arrived
        /\ p.type # "ADDR_RESP"
    BY <1>1 DEF DeliveryInv, HandlerHonest, Requests, DataTypes
  <1> HIDE DEF p
  <1>6. Numbered(r)
    BY <1>1, <1>2, <1>4 DEF Good, Numbered
  <1>7. Truthful(r)
    BY <1>2, <1>5 DEF Truthful, AckTypes
  <1>8. Current(r) => Fits(r)
    BY <1>1, <1>2, <1>4, <1>5 DEF Good, Current, Fits, AckTypes
  <1>9. Good(r)
    BY <1>6, <1>7, <1>8 DEF Good
  <1> QED
    BY <1>9 DEF callVars, Good, Numbered, Truthful, Current, Fits, Requester,
       IsReply, InWait

LEMMA SendReplyDelivery ==
  ASSUME TypeInv, DeliveryInv, UNCHANGED <<callVars, queueVars, arrived>>,
         NEW n \in Nodes, NEW type \in AckTypes, handler[n] # Waiting,
         type = "ACK" <=> handler[n].pc = "ack",
         type = "ADDR_RESP" <=> handler[n].pc = "addr",
         air' = air \cup {Reply(n, type, handler[n].p)},
         handler' = [handler EXCEPT ![n] = Waiting]
  PROVE  DeliveryInv'
  <1>1. CallSide' /\ Onward
    BY OutsideSend DEF DeliveryInv, CallSide
  <1> DEFINE New == {Reply(n, type, handler[n].p)}
  <1>2. \A p \in New : Good(p)'
    BY ReplyGood
  <1>3. \A m \in Nodes : At(m)' \subseteq At(m) \cup {p \in air : p.to = m}
    BY DEF At, queueVars, TypeInv, TypeOK, Elements
  <1>4. air' \subseteq air \cup New
    OBVIOUS
  <1> HIDE DEF New
  <1>5. PacketsGood'
    BY <1>1, <1>2, <1>3, <1>4, PacketsKept DEF DeliveryInv
  <1>6. \A m \in Nodes : handler'[m] = IF m = n THEN Waiting ELSE handler[m]
    BY DEF TypeInv, TypeOK
  <1>7. HandlerHonest'
    BY <1>6 DEF DeliveryInv, HandlerHonest, Waiting
  <1> QED
    BY <1>1, <1>5, <1>7 DEF DeliveryInv, CallSide

LEMMA DeliverDelivery ==
  ASSUME TypeInv, DeliveryInv, NEW n \in Nodes, Deliver(n)
  PROVE  DeliveryInv'
  <1> DEFINE p == handler[n].p
             h == [pc |-> "ack", p |-> p]
  <1>1. CallSide' /\ Onward
    BY OutsideSend DEF DeliveryInv, CallSide, Deliver
  <1>2. \A m \in Nodes : handler'[m] = IF m = n THEN h ELSE handler[m]
    BY DEF Deliver, TypeInv, TypeOK
  <1>3. handler[n] # Waiting /\ h # Waiting
    BY DEF Deliver, Waiting
  <1>4. \A m \in Nodes : At(m)' \subseteq At(m) \cup {q \in air : q.to = m}
    BY <1>2, <1>3 DEF At, Deliver, queueVars, Elements
  <1>5. PacketsGood'
    BY <1>1, <1>4, NothingNew DEF DeliveryInv, Deliver
  <1>6. HandlerHonest'
    <2>1. /\ p.type # "ADDR_REQ" /\ arrived' = arrived \cup {<<p.src, p.w, n>>}
      BY DEF DeliveryInv, HandlerHonest, Deliver
    <2>2. h.pc = "ack" /\ h.p = p
      OBVIOUS
    <2> HIDE DEF p, h
    <2> QED
      BY <1>2, <2>1, <2>2 DEF DeliveryInv, HandlerHonest
  <1> QED
    BY <1>1, <1>5, <1>6 DEF DeliveryInv, CallSide

(* NodeDetector and Read touch nothing that the invariant is about. *)
LEMMA OtherDelivery ==
  ASSUME TypeInv, DeliveryInv, UNCHANGED <<callVars, queueVars, handler, arrived, air>>
  PROVE  DeliveryInv'
  <1>1. CallSide' /\ Onward
    BY OutsideSend DEF DeliveryInv, CallSide
  <1>2. \A m \in Nodes : At(m)' \subseteq At(m) \cup {p \in air : p.to = m}
    BY DEF At, queueVars, Elements
  <1>3. PacketsGood'
    BY <1>1, <1>2, NothingNew DEF DeliveryInv
  <1> QED
    BY <1>1, <1>3 DEF DeliveryInv, CallSide, HandlerHonest

(* Steps of Send that put nothing new into circulation. *)
LEMMA QuietSend ==
  ASSUME TypeInv, DeliveryInv, Onward, CallSide',
         UNCHANGED <<handlerVars, received, DataQueue, air>>,
         \A m \in Nodes : Elements(AckQueue'[m]) \subseteq Elements(AckQueue[m])
  PROVE  DeliveryInv'
  <1>1. \A m \in Nodes : At(m)' \subseteq At(m) \cup {p \in air : p.to = m}
    <2>1. \A m \in Nodes :
            At(m)' = ({received[m]} \ {NoPacket}) \cup Elements(AckQueue'[m])
                       \cup Elements(DataQueue[m])
                       \cup (IF handler[m] = Waiting THEN {} ELSE {handler[m].p})
      BY DEF At, Elements, handlerVars
    <2> QED
      BY <2>1 DEF At
  <1>2. PacketsGood'
    BY <1>1, NothingNew DEF DeliveryInv
  <1> QED
    BY <1>2 DEF DeliveryInv, CallSide, HandlerHonest, handlerVars

LEMMA WriteDelivery ==
  ASSUME TypeInv, DeliveryInv, NEW n \in Nodes, NEW ip \in Ips, Write(n, ip)
  PROVE  DeliveryInv'
  <1> DEFINE c == Route(n, ip)
  <1>1. /\ c.at = "send" /\ c.stage \in {"direct", "server", "resolve"}
        /\ c.stage = "direct" => c.mac = c.ip
    BY DEF Route, StartTx, DeliveryInv, AddressesRight
  <1>2. call' = [call EXCEPT ![n] = c]
    BY DEF Write
  <1> HIDE DEF c
  <1>3. \A m \in Nodes : call'[m] = IF m = n THEN c ELSE call[m]
    BY <1>2 DEF TypeInv, TypeOK
  <1>4. Onward
    BY <1>1, <1>3, InsideSend DEF Write, InWait, handlerVars
  <1>5. AddressesRight' /\ ResolvedHasMac'
    BY <1>1, <1>2, CallMovesRight DEF Write, DeliveryInv, AddressesRight
  <1>6. Counted' /\ OkMeansArrived'
    BY <1>1, <1>3 DEF Write, DeliveryInv, Counted, InWait, OkMeansArrived,
       handlerVars
  <1> QED
    BY <1>4, <1>5, <1>6, QuietSend DEF Write, CallSide, queueVars, Elements

LEMMA WriteRefusedDelivery ==
  ASSUME TypeInv, DeliveryInv, NEW n \in Nodes, WriteRefused(n)
  PROVE  DeliveryInv'
  <1> DEFINE r == [ip |-> BCST_IPv4, ok |-> FALSE, lag |-> 0]
  <1>1. r \in Result /\ ~r.ok
    BY DEF Result
  <1>2. writes' = [writes EXCEPT ![n] = Append(@, r)]
    BY DEF WriteRefused
  <1> HIDE DEF r
  <1>3. OkMeansArrived'
    BY <1>1, <1>2, WriteRecorded DEF WriteRefused, DeliveryInv, handlerVars
  <1>4. ~InWait(n)'
    BY DEF WriteRefused, Mutex3Free, NoCall, InWait
  <1>5. Onward
    BY <1>2, <1>4, InsideSend DEF WriteRefused, TypeInv, TypeOK, handlerVars
  <1>6. Counted' /\ AddressesRight' /\ ResolvedHasMac'
    BY DEF WriteRefused, DeliveryInv, Counted, InWait, AddressesRight,
       ResolvedHasMac
  <1> QED
    BY <1>3, <1>5, <1>6, QuietSend
       DEF WriteRefused, CallSide, queueVars, Elements

LEMMA FallAsleepDelivery ==
  ASSUME TypeInv, DeliveryInv, NEW n \in Nodes, FallAsleep(n)
  PROVE  DeliveryInv'
  <1> DEFINE c == [call[n] EXCEPT !.at = "sleep"]
  <1>1. c.stage = call[n].stage /\ c.ip = call[n].ip /\ c.mac = call[n].mac
          /\ c.lag = call[n].lag
    BY InSend DEF FallAsleep, TypeInv, TypeOK, Call
  <1>2. call' = [call EXCEPT ![n] = c]
    BY DEF FallAsleep
  <1> HIDE DEF c
  <1>3. \A m \in Nodes : call'[m] = IF m = n THEN c ELSE call[m]
    BY <1>2 DEF TypeInv, TypeOK
  <1>4. InWait(n)
    BY DEF FallAsleep, InWait
  <1>5. Onward
    BY <1>1, <1>3, <1>4, InsideSend DEF FallAsleep, handlerVars
  <1>6. Counted' /\ AddressesRight' /\ ResolvedHasMac' /\ OkMeansArrived'
    BY <1>1, <1>3, <1>4 DEF FallAsleep, DeliveryInv, Counted, InWait,
       AddressesRight, ResolvedHasMac, OkMeansArrived, handlerVars
  <1> QED
    BY <1>5, <1>6, QuietSend DEF FallAsleep, CallSide, queueVars, Elements

LEMMA TickDelivery ==
  ASSUME TypeInv, DeliveryInv, NEW n \in Nodes, Tick(n)
  PROVE  DeliveryInv'
  <1>1. call[n] \in Call /\ InWait(n)
    BY InSend DEF Tick, TypeInv, TypeOK, InWait
  <1>2. CallSide' /\ Onward
    <2>1. CASE call[n].count + 1 = Ticks
      <3>1. TxFails(n) /\ UNCHANGED <<ADDR_LIST, arrived, Seq_, txCount>>
        BY <2>1 DEF Tick, handlerVars
      <3>2. /\ AddressesRight' /\ ResolvedHasMac' /\ OkMeansArrived' /\ ~InWait(n)'
            /\ \A k \in Nodes \ {n} : call'[k] = call[k] /\ writes'[k] = writes[k]
        BY <1>1, <3>1, TxFailsSide DEF DeliveryInv
      <3>3. Counted'
        BY <3>1, <3>2 DEF DeliveryInv, Counted, InWait
      <3> QED
        BY <3>1, <3>2, <3>3, InsideSend DEF CallSide
    <2>2. CASE call[n].count + 1 # Ticks
      <3> DEFINE c == [call[n] EXCEPT
                         !.count = call[n].count + 1,
                         !.at = IF AckQueue[n] = <<>> THEN "sleep" ELSE "select"]
      <3>1. c.stage = call[n].stage /\ c.ip = call[n].ip /\ c.mac = call[n].mac
              /\ c.lag = call[n].lag
        BY <1>1 DEF Call
      <3>2. call' = [call EXCEPT ![n] = c]
        BY <2>2 DEF Tick
      <3> HIDE DEF c
      <3>3. \A m \in Nodes : call'[m] = IF m = n THEN c ELSE call[m]
        BY <3>2 DEF TypeInv, TypeOK
      <3>4. Onward
        BY <1>1, <2>2, <3>1, <3>3, InsideSend DEF Tick, handlerVars
      <3>5. Counted' /\ AddressesRight' /\ ResolvedHasMac' /\ OkMeansArrived'
        BY <1>1, <2>2, <3>1, <3>3 DEF Tick, DeliveryInv, Counted, InWait,
           AddressesRight, ResolvedHasMac, OkMeansArrived, handlerVars
      <3> QED
        BY <3>4, <3>5 DEF CallSide
    <2> QED
      BY <2>1, <2>2
  <1> QED
    BY <1>2, QuietSend DEF Tick, queueVars, Elements

(* The reply that ends the wait answers the current request or is at least *)
(* a full turn of the sequence numbers old.                                *)
LEMMA AnswerCurrent ==
  ASSUME TypeInv, DeliveryInv, NEW n \in Nodes, InWait(n), NEW ack \in Replies,
         ack \in At(n), ack.seq = Seq_[n]
  PROVE  /\ txCount[n] - ack.id \in Int
         /\ \/ /\ call[n].stage = "resolve" => ack.type = "ADDR_RESP" /\ ack.src = call[n].ip
               /\ call[n].stage # "resolve" =>
                    <<n, Len(writes[n]) + 1, ack.src>> \in arrived
            \/ txCount[n] - ack.id >= SeqMod
  <1>1. /\ ack.id \in Nat \ {0} /\ txCount[n] \in Nat
        /\ ack.type \in {"ACK", "ADDR_RESP"}
    BY DEF TypeInv, TypeOK, Replies, Packet, AckTypes
  <1>2. Good(ack) /\ ack.to = n /\ Requester(ack) = n
    BY DEF DeliveryInv, PacketsGood, Requester, IsReply, Replies
  <1>3. ack.id <= txCount[n] /\ (ack.id - 1) % SeqMod = (txCount[n] - 1) % SeqMod
    <2>1. ack.id <= txCount[n] /\ ack.seq = (ack.id - 1) % SeqMod
      BY <1>2 DEF Good, Numbered
    <2>2. txCount[n] > 0 /\ Seq_[n] = (txCount[n] - 1) % SeqMod
      <3>1. txCount[n] > 0
        BY DEF DeliveryInv, Counted
      <3>2. Seq_[n] = IF txCount[n] = 0 THEN -1 ELSE (txCount[n] - 1) % SeqMod
        BY DEF DeliveryInv, Counted
      <3> QED
        BY <1>1, <3>1, <3>2
    <2> QED
      BY <2>1, <2>2
  <1>4. CASE ack.id = txCount[n]
    <2>1. Fits(ack)
      BY <1>2, <1>4 DEF Good, Current
    <2> QED
      BY <1>1, <1>2, <1>4, <2>1 DEF Fits, Good, Truthful
  <1>5. CASE ack.id # txCount[n]
    <2>1. (txCount[n] - 1) - (ack.id - 1) >= SeqMod
      <3>1. /\ ack.id - 1 \in Int /\ txCount[n] - 1 \in Int
            /\ ack.id - 1 < txCount[n] - 1
        BY <1>1, <1>3, <1>5
      <3> QED
        BY <1>3, <3>1, Congruent, NfdAssumption
    <2> QED
      BY <1>1, <2>1, NfdAssumption
  <1> QED
    BY <1>4, <1>5

LEMMA TakeAckDelivery ==
  ASSUME TypeInv, DeliveryInv, NEW n \in Nodes, TakeAck(n)
  PROVE  DeliveryInv'
  <1> DEFINE ack == Head(AckQueue[n])
             lag == txCount[n] - ack.id
  <1>1. call[n] \in Call /\ InWait(n)
    BY InSend DEF TakeAck, TypeInv, TypeOK, InWait
  <1>2. AckQueue[n] \in Seq(Replies) /\ AckQueue[n] # <<>>
    BY DEF TakeAck, TypeInv, TypeOK
  <1>3. /\ ack \in Replies /\ ack \in Elements(AckQueue[n])
        /\ Elements(Tail(AckQueue[n])) \subseteq Elements(AckQueue[n])
    BY <1>2, ElementsTail, QueueTail
  <1>4. ack \in At(n)
    BY <1>3 DEF At
  <1>5. \A m \in Nodes : Elements(AckQueue'[m]) \subseteq Elements(AckQueue[m])
    BY <1>3 DEF TakeAck, TypeInv, TypeOK
  <1>6. /\ UNCHANGED <<Seq_, txCount, arrived, handlerVars, received, DataQueue, air>>
        /\ \/ /\ Answers(n, ack) /\ ADDR_LIST' = Learned(n, ack)
              /\ TxSucceeds(n, lag)
           \/ UNCHANGED <<ADDR_LIST, ServerAddr, call, writes>>
    BY DEF TakeAck, handlerVars
  <1> HIDE DEF ack
  <1>7. ASSUME Answers(n, ack), ADDR_LIST' = Learned(n, ack), TxSucceeds(n, lag)
        PROVE  CallSide' /\ Onward
    <2>1. /\ lag \in Int
          /\ \/ /\ call[n].stage = "resolve" => ack.type = "ADDR_RESP" /\ ack.src = call[n].ip
                /\ call[n].stage # "resolve" =>
                     <<n, Len(writes[n]) + 1, ack.src>> \in arrived
             \/ lag >= SeqMod
      BY <1>1, <1>3, <1>4, <1>7, AnswerCurrent DEF Answers
    <2> HIDE DEF lag
    <2>2. ack.src \in Nodes /\ call[n].ip \in Ips
      BY <1>1, <1>3 DEF Replies, Packet, Call
    <2>3. /\ \A k \in Nodes, ip \in Ips : ADDR_LIST'[k][ip] \in {ip, NoMac}
          /\ ack.type = "ADDR_RESP" => ADDR_LIST'[n][ack.src] = ack.src
      BY <1>7, <2>2 DEF Learned, DeliveryInv, AddressesRight, TypeInv, TypeOK,
         Ips
    <2>4. CASE call[n].stage = "resolve"
      <3> DEFINE c == StartTx("resolved", call[n].ip, ADDR_LIST'[n][call[n].ip], lag)
      <3>1. /\ c.stage = "resolved" /\ c.at = "send" /\ c.ip = call[n].ip
            /\ c.mac = ADDR_LIST'[n][call[n].ip] /\ c.lag = lag
        BY DEF StartTx
      <3>2. call' = [call EXCEPT ![n] = c] /\ UNCHANGED writes
        BY <1>7, <2>4 DEF TxSucceeds
      <3> HIDE DEF c
      <3>3. AddressesRight' /\ ResolvedHasMac'
        <4>1. c.mac \in {c.ip, NoMac} /\ (c.mac = c.ip \/ c.lag >= SeqMod)
          BY <2>1, <2>2, <2>3, <2>4, <3>1
        <4> QED
          BY <2>3, <3>1, <3>2, <4>1, CallMovesRight DEF DeliveryInv
      <3>4. \A m \in Nodes : call'[m] = IF m = n THEN c ELSE call[m]
        BY <3>2 DEF TypeInv, TypeOK
      <3>5. Counted' /\ OkMeansArrived'
        BY <1>6, <3>1, <3>2, <3>4
           DEF DeliveryInv, Counted, InWait, OkMeansArrived
      <3>6. Onward
        BY <1>6, <3>1, <3>2, <3>4, InsideSend DEF InWait
      <3> QED
        BY <3>3, <3>5, <3>6 DEF CallSide
    <2>5. CASE call[n].stage # "resolve"
      <3> DEFINE r == [ip |-> call[n].ip, ok |-> TRUE, lag |-> lag]
      <3>1. /\ call' = [call EXCEPT ![n] = NoCall]
            /\ writes' = [writes EXCEPT ![n] = Append(@, r)]
        BY <1>7, <2>5 DEF TxSucceeds, Return
      <3>2. r \in Result /\ r.lag = lag
        BY <2>1, <2>2 DEF Result
      <3> HIDE DEF r
      <3>3. NoCall.stage = "idle" /\ NoCall.at = "none"
        BY DEF NoCall
      <3>4. AddressesRight' /\ ResolvedHasMac'
        BY <2>3, <3>1, <3>3, CallMovesRight DEF DeliveryInv
      <3>5. \/ \E m \in Nodes : <<n, Len(writes[n]) + 1, m>> \in arrived
            \/ r.lag >= SeqMod
        BY <2>1, <2>2, <2>5, <3>2
      <3>6. OkMeansArrived'
        BY <1>6, <3>1, <3>2, <3>5, WriteRecorded DEF DeliveryInv
      <3>7. \A m \in Nodes : /\ call'[m] = IF m = n THEN NoCall ELSE call[m]
                             /\ m # n => writes'[m] = writes[m]
        BY <3>1 DEF TypeInv, TypeOK
      <3>8. Counted'
        BY <1>6, <3>3, <3>7 DEF DeliveryInv, Counted, InWait
      <3>9. Onward
        BY <1>6, <3>3, <3>7, InsideSend DEF InWait
      <3> QED
        BY <3>4, <3>6, <3>8, <3>9 DEF CallSide
    <2> QED
      BY <2>4, <2>5
  <1>8. ASSUME UNCHANGED <<ADDR_LIST, ServerAddr, call, writes>>
        PROVE  CallSide' /\ Onward
    BY <1>6, <1>8, OutsideSend DEF CallSide, callVars, DeliveryInv
  <1>9. CallSide' /\ Onward
    BY <1>6, <1>7, <1>8
  <1> QED
    BY <1>5, <1>6, <1>9, QuietSend

LEMMA TransmitDelivery ==
  ASSUME TypeInv, DeliveryInv, NEW n \in Nodes, Transmit(n)
  PROVE  DeliveryInv'
  <1> DEFINE seq == (Seq_[n] + 1) % SeqMod
             id == txCount[n] + 1
             New == {Request(n, m, seq, id) : m \in Targets(n, call[n].mac)}
  <1>1. call[n] \in Call /\ txCount[n] \in Nat
    BY InSend DEF Transmit, TypeInv, TypeOK
  <1>2. seq = txCount[n] % SeqMod
    <2>1. CASE txCount[n] = 0
      <3>1. Seq_[n] + 1 = 0
        BY <2>1 DEF DeliveryInv, Counted
      <3> QED
        BY <2>1, <3>1
    <2>2. CASE txCount[n] # 0
      <3>1. Seq_[n] = (txCount[n] - 1) % SeqMod
        BY <2>2 DEF DeliveryInv, Counted
      <3>2. (Seq_[n] + 1) % SeqMod = ((txCount[n] - 1) + 1) % SeqMod
        BY <1>1, <3>1, Successor, NfdAssumption
      <3>3. (txCount[n] - 1) + 1 = txCount[n]
        BY <1>1
      <3> QED
        BY <3>2, <3>3
    <2> QED
      BY <2>1, <2>2
  <1>3. /\ txCount' = [txCount EXCEPT ![n] = id]
        /\ Seq_' = [Seq_ EXCEPT ![n] = seq]
        /\ UNCHANGED <<ADDR_LIST, queueVars, handlerVars, NodeAddrs>>
    BY DEF Transmit
  <1>4. air' = air \cup New
    BY DEF Transmit
  <1>5. \/ call' = [call EXCEPT ![n].at = "select"] /\ UNCHANGED writes
        \/ TxFails(n)
    BY DEF Transmit
  <1> HIDE DEF seq, id, New
  <1>6. /\ AddressesRight' /\ ResolvedHasMac' /\ OkMeansArrived'
        /\ \A k \in Nodes \ {n} : call'[k] = call[k] /\ writes'[k] = writes[k]
        /\ InWait(n)' => /\ call'[n].stage = call[n].stage /\ call'[n].ip = call[n].ip
                         /\ writes'[n] = writes[n]
    <2>1. CASE call' = [call EXCEPT ![n].at = "select"] /\ UNCHANGED writes
      <3> DEFINE c == [call[n] EXCEPT !.at = "select"]
      <3>1. c.stage = call[n].stage /\ c.ip = call[n].ip /\ c.mac = call[n].mac
              /\ c.lag = call[n].lag
        BY <1>1 DEF Call
      <3>2. call' = [call EXCEPT ![n] = c]
        BY <2>1
      <3> HIDE DEF c
      <3>3. \A m \in Nodes : call'[m] = IF m = n THEN c ELSE call[m]
        BY <3>2 DEF TypeInv, TypeOK
      <3> QED
        BY <1>3, <2>1, <3>1, <3>3
           DEF DeliveryInv, AddressesRight, ResolvedHasMac,
           OkMeansArrived, handlerVars
    <2>2. CASE TxFails(n)
      BY <1>1, <1>3, <2>2, TxFailsSide DEF DeliveryInv, handlerVars
    <2> QED
      BY <1>5, <2>1, <2>2
  <1>7. \A m \in Nodes : /\ txCount'[m] = IF m = n THEN id ELSE txCount[m]
                         /\ Seq_'[m] = IF m = n THEN seq ELSE Seq_[m]
    BY <1>3 DEF TypeInv, TypeOK
  <1>8. Counted'
    <2>1. id # 0 /\ id > 0 /\ id - 1 = txCount[n]
      BY <1>1 DEF id
    <2> QED
      BY <1>2, <1>6, <1>7, <2>1 DEF DeliveryInv, Counted, InWait
  <1>9. Onward
    BY <1>3, <1>6, <1>7 DEF Onward, InWait, handlerVars, id
  <1>10. ASSUME NEW m \in Targets(n, call[n].mac), NEW p, p = Request(n, m, seq, id)
         PROVE  Good(p)'
    <2>1. /\ p.to = m /\ p.src = n /\ p.seq = seq /\ p.id = id /\ p.ip = call[n].ip
          /\ p.type = TxType(call[n].stage)
          /\ p.w = IF call[n].stage = "resolve" THEN 0 ELSE Len(writes[n]) + 1
      BY <1>10 DEF Request
    <2>2. /\ p.type \in {"ADDR_REQ", "RELAY_REQ", "P2P"}
          /\ call[n].stage = "resolve" <=> p.type = "ADDR_REQ"
          /\ p.type = "P2P" => call[n].stage \in {"direct", "resolved"}
      BY <1>1, <2>1 DEF TxType, Call, Stages
    <2>3. Requester(p) = n
      BY <2>1, <2>2 DEF Requester, IsReply, AckTypes
    <2>4. Numbered(p)'
      <3>1. id \in Int /\ id - 1 = txCount[n] /\ txCount'[n] = id
        BY <1>1, <1>7 DEF id
      <3> QED
        BY <1>2, <2>1, <2>3, <3>1 DEF Numbered, Requester, IsReply
    <2>5. Truthful(p)'
      <3>1. p.type = "P2P" => m = call[n].ip
        <4> SUFFICES ASSUME p.type = "P2P" PROVE m = call[n].ip
          OBVIOUS
        <4>1. call[n].mac \in {call[n].ip, NoMac} /\ call[n].ip \in Ips
          BY <1>1, <2>2 DEF DeliveryInv, AddressesRight, Call
        <4>2. m \in {call[n].mac} \cap Nodes
          BY <1>10, <4>1, NfdAssumption DEF Targets
        <4> QED
          BY <4>1, <4>2, NfdAssumption DEF Ips
      <3> QED
        BY <2>1, <2>2, <3>1 DEF Truthful
    <2>6. Current(p)' => Fits(p)'
      BY <1>6, <2>1, <2>2, <2>3 DEF Current, Fits, Requester, IsReply, InWait
    <2> QED
      BY <2>4, <2>5, <2>6 DEF Good
  <1>11. PacketsGood'
    <2>1. \A p \in New : Good(p)'
      BY <1>10 DEF New
    <2>2. \A m \in Nodes : At(m)' \subseteq At(m) \cup {p \in air : p.to = m}
      BY <1>3 DEF At, Elements, queueVars, handlerVars
    <2> QED
      BY <1>4, <1>9, <2>1, <2>2, PacketsKept DEF DeliveryInv
  <1> QED
    BY <1>3, <1>6, <1>8, <1>11 DEF DeliveryInv, HandlerHonest, handlerVars

-----------------------------------------------------------------------------
(* The theorems *)

LEMMA NextDelivery == TypeInv /\ DeliveryInv /\ [Next]_vars => DeliveryInv'
  <1> SUFFICES ASSUME TypeInv, DeliveryInv, [Next]_vars PROVE DeliveryInv'
    OBVIOUS
  <1>1. CASE UNCHANGED vars
    BY <1>1, OtherDelivery DEF vars, handlerVars
  <1>2. ASSUME NEW n \in Nodes, SendAddrResp(n)
        PROVE  DeliveryInv'
    <2>1. handler[n] # Waiting
      BY <1>2 DEF SendAddrResp, Waiting
    <2> QED
      BY <1>2, <2>1, SendReplyDelivery DEF SendAddrResp, AckTypes
  <1>3. ASSUME NEW n \in Nodes, SendAck(n)
        PROVE  DeliveryInv'
    <2>1. handler[n] # Waiting
      BY <1>3 DEF SendAck, Waiting
    <2> QED
      BY <1>3, <2>1, SendReplyDelivery DEF SendAck, AckTypes
  <1>4. ASSUME NEW n \in Nodes, DetectNodes(n) \/ Read(n)
        PROVE  DeliveryInv'
    BY <1>4, OtherDelivery DEF DetectNodes, Read, handlerVars
  <1> QED
    BY <1>1, <1>2, <1>3, <1>4, WriteDelivery, WriteRefusedDelivery,
       TransmitDelivery, TakeAckDelivery, FallAsleepDelivery, TickDelivery,
       ReceiveDelivery, EnqueueDelivery, TakeDataDelivery, DeliverDelivery
    DEF Next

LEMMA DeliveryInvariant == Spec => [](TypeInv /\ DeliveryInv)
  <1>1. Init => TypeInv /\ DeliveryInv
    BY InitTypeInv, InitDelivery
  <1>2. TypeInv /\ DeliveryInv /\ [Next]_vars => (TypeInv /\ DeliveryInv)'
    BY NextTypeInv, NextDelivery
  <1> QED
    BY <1>1, <1>2, PTL DEF Spec

(* A Write that returned no error put its data into some node's RxData, or *)
(* the reply that WaitForAck took for its answer (nfd.go:344) was at least *)
(* SeqMod transmissions old.                                               *)
THEOREM SuccessMeansArrival == Spec => []OkMeansArrived
  <1>1. DeliveryInv => OkMeansArrived
    BY DEF DeliveryInv
  <1> QED
    BY <1>1, DeliveryInvariant, PTL

(* Under the same exception, ADDR_LIST holds the address that Send goes on *)
(* to use after an ADDR_REQ was answered (nfd.go:320).                     *)
THEOREM ResolutionFindsMac == Spec => []ResolvedHasMac
  <1>1. DeliveryInv => ResolvedHasMac
    BY DEF DeliveryInv
  <1> QED
    BY <1>1, DeliveryInvariant, PTL

(* A P2P packet is handled by the node that it is for, although no node    *)
(* looks at its destination (nfd.go:449-451).                              *)
THEOREM P2PForOwner == Spec => []P2PReachesOwner
  <1>1. TypeInv /\ DeliveryInv => P2PReachesOwner
    <2> SUFFICES ASSUME TypeInv, DeliveryInv, NEW n \in Nodes,
                        handler[n].pc = "data", handler[n].p.type = "P2P"
                 PROVE  handler[n].p.ip = n
      BY DEF P2PReachesOwner
    <2>1. handler[n].p \in At(n)
      BY DEF At, Waiting
    <2> QED
      BY <2>1 DEF DeliveryInv, PacketsGood, Good, Truthful
  <1> QED
    BY <1>1, DeliveryInvariant, PTL
=============================================================================
