--------------------------- MODULE NfdPatientProofs ---------------------------
(***************************************************************************)
(* Proof that, over a medium that neither loses nor repeats anything, a    *)
(* Write to another node fails only if it was hindered.  The argument      *)
(* follows what a transmission sets in motion: one packet, the request     *)
(* and then its reply, until WaitForAck takes it.  While it is under way   *)
(* some node can go on, so that a wait can only run out through replies    *)
(* to earlier transmissions that wake it, and there are few of those.      *)
(***************************************************************************)
EXTENDS NfdPatient, NfdOnce, FiniteSetTheorems

(* Where a packet can be: in the air in front of the node it is for, on    *)
(* its way to PacketHandler, or on its way to WaitForAck.  Place 0 of the  *)
(* second is what PacketHandler is busy with; the last place of both is    *)
(* what Receiver holds.                                                    *)
Spots == [q: {"air", "data", "ack"}, m: Nodes, k: Nat, p: Packet]
Spot(q, m, k, p) == [q |-> q, m |-> m, k |-> k, p |-> p]

InQueue(first, q, last, k) == Place([pc |-> "data", p |-> first], q, last, k)

DataLine(m, k) == InQueue(handler[m].p, DataQueue[m], received[m], k)
AckLine(m, k) == InQueue(NoPacket, AckQueue[m], received[m], k)

Stands(x) ==
  \/ x.q = "air" /\ x.k = 0 /\ x.p \in air /\ x.p.to = x.m
  \/ x.q = "data" /\ ~IsReply(x.p) /\ x.p = DataLine(x.m, x.k)
  \/ x.q = "ack" /\ IsReply(x.p) /\ x.p = AckLine(x.m, x.k)

Standing == {x \in Spots : Stands(x)}

(* p is, or will lead to, a reply to transmission number id of node n: a   *)
(* node drops an ADDR_REQ that is not for it.                              *)
Live(p) == p.type = "ADDR_REQ" => p.ip = p.to
About(p, n, id) == Requester(p) = n /\ p.id = id /\ Live(p)

(* The transmissions of n that a packet of S leads to a reply to.          *)
Awaited(S, n) == {id \in Nat : \E x \in S : About(x.p, n, id)}
Outstanding(n) == Awaited(Standing, n)

(* A transmission sets one packet in motion, and none to its own node.     *)
SingleIn(S) ==
  /\ \A x, y \in S :
       /\ Live(x.p) /\ Live(y.p)
       /\ Requester(x.p) = Requester(y.p) /\ x.p.id = y.p.id
       => x = y
  /\ \A x \in S : ~IsReply(x.p) => x.m # Requester(x.p)

Single == SingleIn(Standing)

-----------------------------------------------------------------------------
(* What becomes of the transmissions when packets change their spots.      *)

LEMMA SpotType ==
  /\ \A q \in {"air", "data", "ack"}, m \in Nodes, k \in Nat, p \in Packet :
       Spot(q, m, k, p) \in Spots
  /\ \A q, m, k, p :
       LET x == Spot(q, m, k, p) IN x.q = q /\ x.m = m /\ x.k = k /\ x.p = p
  /\ \A x \in Spots : x = Spot(x.q, x.m, x.k, x.p)
  BY DEF Spot, Spots

(* y is a later spot of what was in x. *)
Follows(y, x) ==
  /\ Requester(y.p) = Requester(x.p) /\ y.p.id = x.p.id
  /\ Live(y.p) <=> Live(x.p)
  /\ ~IsReply(y.p) => ~IsReply(x.p) /\ y.m = x.m

(* One packet moves. *)
LEMMA OneMoves ==
  ASSUME NEW S, SingleIn(S), NEW x \in S, NEW y, Follows(y, x),
         NEW T, T = (S \ {x}) \cup {y}
  PROVE  SingleIn(T) /\ \A n : Awaited(T, n) = Awaited(S, n)
  <1>1. SingleIn(T)
    <2>1. ASSUME NEW a \in T, NEW b \in T, Live(a.p), Live(b.p),
                 Requester(a.p) = Requester(b.p), a.p.id = b.p.id
          PROVE  a = b
      <3>1. CASE a = y /\ b = y
        BY <3>1
      <3>2. CASE a = y /\ b # y
        BY <2>1, <3>2 DEF Follows, SingleIn
      <3>3. CASE a # y /\ b = y
        BY <2>1, <3>3 DEF Follows, SingleIn
      <3>4. CASE a # y /\ b # y
        BY <2>1, <3>4 DEF SingleIn
      <3> QED
        BY <3>1, <3>2, <3>3, <3>4
    <2>2. ASSUME NEW a \in T, ~IsReply(a.p)
          PROVE  a.m # Requester(a.p)
      BY <2>2 DEF Follows, SingleIn
    <2> QED
      BY <2>1, <2>2 DEF SingleIn
  <1>2. ASSUME NEW n, NEW id \in Nat
        PROVE  (\E a \in T : About(a.p, n, id)) <=> (\E a \in S : About(a.p, n, id))
    BY DEF Follows, About
  <1> QED
    BY <1>1, <1>2 DEF Awaited

(* A queue of node m moves up by one place; gone is what leaves it. *)
Up(q, m, x) ==
  IF x.q = q /\ x.m = m THEN Spot(x.q, x.m, x.k + 1, x.p) ELSE x

LEMMA UpMoves ==
  ASSUME NEW q \in {"air", "data", "ack"}, NEW m \in Nodes,
         NEW x \in Spots, NEW y \in Spots
  PROVE  /\ Up(q, m, x) \in Spots
         /\ Up(q, m, x).p = x.p /\ Up(q, m, x).m = x.m
         /\ Up(q, m, x) = Up(q, m, y) => x = y
  <1>1. x = Spot(x.q, x.m, x.k, x.p) /\ y = Spot(y.q, y.m, y.k, y.p)
    BY SpotType
  <1>2. /\ x.k \in Nat /\ y.k \in Nat /\ x.k + 1 \in Nat
        /\ x.q \in {"air", "data", "ack"} /\ x.m \in Nodes /\ x.p \in Packet
    BY DEF Spots
  <1>3. /\ Up(q, m, x).p = x.p /\ Up(q, m, x).m = x.m /\ Up(q, m, x).q = x.q
        /\ Up(q, m, x).k = IF x.q = q /\ x.m = m THEN x.k + 1 ELSE x.k
        /\ Up(q, m, y).p = y.p /\ Up(q, m, y).m = y.m /\ Up(q, m, y).q = y.q
        /\ Up(q, m, y).k = IF y.q = q /\ y.m = m THEN y.k + 1 ELSE y.k
    BY SpotType DEF Up
  <1>4. Up(q, m, x) \in Spots
    BY <1>2, SpotType DEF Up
  <1>5. Up(q, m, x) = Up(q, m, y) => x.q = y.q /\ x.m = y.m /\ x.k = y.k /\ x.p = y.p
    BY <1>2, <1>3
  <1> QED
    BY <1>1, <1>3, <1>4, <1>5

MovesUp(S, T, q, m, gone) ==
  /\ \A x \in T : Up(q, m, x) \in S /\ Up(q, m, x) # gone
  /\ \A y \in S : Live(y.p) /\ y # gone => \E x \in T : Up(q, m, x) = y

LEMMA QueueMoves ==
  ASSUME NEW S \in SUBSET Spots, SingleIn(S), NEW T \in SUBSET Spots,
         NEW q \in {"air", "data", "ack"}, NEW m \in Nodes, NEW gone,
         MovesUp(S, T, q, m, gone)
  PROVE  /\ SingleIn(T)
         /\ \A n : Awaited(T, n) =
              {id \in Awaited(S, n) : ~(gone \in S /\ About(gone.p, n, id))}
  <1>1. ASSUME NEW x \in T, NEW y \in T
        PROVE  /\ Up(q, m, x).p = x.p /\ Up(q, m, x).m = x.m
               /\ Up(q, m, x) = Up(q, m, y) => x = y
    BY UpMoves
  <1>2. SingleIn(T)
    BY <1>1 DEF SingleIn, MovesUp
  <1>3. ASSUME NEW n, NEW id \in Nat, NEW x \in T, About(x.p, n, id)
        PROVE  /\ \E y \in S : About(y.p, n, id)
               /\ ~(gone \in S /\ About(gone.p, n, id))
    <2>1. Up(q, m, x) \in S /\ Up(q, m, x) # gone /\ About(Up(q, m, x).p, n, id)
      BY <1>1, <1>3 DEF MovesUp
    <2> QED
      BY <2>1 DEF About, SingleIn
  <1>4. ASSUME NEW n, NEW id \in Nat, NEW y \in S, About(y.p, n, id),
               ~(gone \in S /\ About(gone.p, n, id))
        PROVE  \E x \in T : About(x.p, n, id)
    <2>1. PICK x \in T : Up(q, m, x) = y
      BY <1>4 DEF About, MovesUp
    <2> QED
      BY <1>1, <1>4, <2>1
  <1> QED
    BY <1>2, <1>3, <1>4 DEF Awaited

(* Node n makes transmission number id, to one node or for one node. *)
Sends(New, n, id) ==
  /\ \A y \in New : /\ Requester(y.p) = n /\ y.p.id = id
                    /\ y.m # n /\ ~IsReply(y.p)
  /\ \A y, z \in New : Live(y.p) /\ Live(z.p) => y = z

LEMMA OneAdded ==
  ASSUME NEW S, SingleIn(S), NEW n, NEW id \in Nat, NEW New,
         Sends(New, n, id), id \notin Awaited(S, n), NEW T, T = S \cup New
  PROVE  /\ SingleIn(T)
         /\ \A k : k # n => Awaited(T, k) = Awaited(S, k)
         /\ Awaited(S, n) \subseteq Awaited(T, n)
         /\ Awaited(T, n) \subseteq Awaited(S, n) \cup {id}
         /\ \A y \in New : Live(y.p) => id \in Awaited(T, n)
  <1>1. \A x \in S : ~About(x.p, n, id)
    BY DEF Awaited
  <1>2. ASSUME NEW x \in T, NEW y \in T, Live(x.p), Live(y.p),
               Requester(x.p) = Requester(y.p), x.p.id = y.p.id
        PROVE  x = y
    BY <1>1, <1>2 DEF SingleIn, About, Sends
  <1>3. SingleIn(T)
    BY <1>2 DEF SingleIn, Sends
  <1>4. \A k, i : (\E x \in T : About(x.p, k, i)) <=>
                    \/ \E x \in S : About(x.p, k, i)
                    \/ k = n /\ i = id /\ \E y \in New : Live(y.p)
    BY DEF About, Sends
  <1> QED
    BY <1>3, <1>4 DEF Awaited

-----------------------------------------------------------------------------
(* The lines of packets, and what the steps outside Send do to the spots.  *)

LEMMA LineValues ==
  ASSUME NEW S, NEW q \in Seq(S), NEW f, NEW r, NEW k \in Nat
  PROVE  /\ Len(q) \in Nat
         /\ InQueue(f, q, r, 0) = f
         /\ InQueue(f, q, r, Len(q) + 1) = r
         /\ k > Len(q) + 1 => InQueue(f, q, r, k) = NoPacket
         /\ \A g, t : k # 0 /\ k # Len(q) + 1
              => InQueue(f, q, r, k) = InQueue(g, q, t, k)
         /\ \A t : k # Len(q) + 1 => InQueue(f, q, r, k) = InQueue(f, q, t, k)
  BY LenProperties DEF InQueue, Place

LEMMA LineAppend ==
  ASSUME NEW S, NEW q \in Seq(S), NEW e \in S, NEW f, NEW k \in Nat
  PROVE  InQueue(f, Append(q, e), NoPacket, k) = InQueue(f, q, e, k)
  BY PlaceAppend DEF InQueue

LEMMA LineTail ==
  ASSUME NEW S, NEW q \in Seq(S), q # <<>>
  PROVE  \A f, g, r :
           /\ InQueue(g, q, r, 1) = Head(q)
           /\ \A k \in Nat \ {0} :
                InQueue(f, Tail(q), r, k) = InQueue(g, q, r, k + 1)
  <1>1. ASSUME NEW f, NEW g, NEW r, NEW k \in Nat \ {0}
        PROVE  InQueue(f, Tail(q), r, k) = InQueue(g, q, r, k + 1)
    BY PlaceTail DEF InQueue
  <1>2. Len(q) \in Nat \ {0} /\ Head(q) = q[1]
    BY HeadTailProperties, EmptySeq, LenProperties
  <1>3. \A g, r : InQueue(g, q, r, 1) = q[1]
    BY <1>2 DEF InQueue, Place
  <1> QED
    BY <1>1, <1>2, <1>3

LEMMA LineTypes ==
  ASSUME TypeInv, NEW m \in Nodes
  PROVE  /\ AckQueue[m] \in Seq(Replies) /\ DataQueue[m] \in Seq(Requests)
         /\ received[m] \in Packet \cup {NoPacket}
         /\ \A p \in Replies : p \in Packet /\ IsReply(p)
         /\ \A p \in Requests : p \in Packet /\ ~IsReply(p)
  BY DEF TypeInv, TypeOK, Replies, Requests, IsReply, AckTypes, DataTypes

LEMMA SpotsStay ==
  ASSUME UNCHANGED air,
         \A m \in Nodes, k \in Nat : /\ DataLine(m, k)' = DataLine(m, k)
                                     /\ AckLine(m, k)' = AckLine(m, k)
  PROVE  Standing' = Standing
  <1>1. \A x \in Spots : x.m \in Nodes /\ x.k \in Nat
    BY DEF Spots
  <1>2. \A x \in Spots : Stands(x)' <=> Stands(x)
    BY <1>1 DEF Stands, IsReply
  <1> QED
    BY <1>2 DEF Standing

LEMMA NothingMoves ==
  ASSUME UNCHANGED <<air, received, AckQueue, DataQueue>>,
         \A m \in Nodes : handler'[m].p = handler[m].p
  PROVE  Standing' = Standing
  <1>1. \A m \in Nodes, k \in Nat : /\ DataLine(m, k)' = DataLine(m, k)
                                    /\ AckLine(m, k)' = AckLine(m, k)
    BY DEF DataLine, AckLine, InQueue, Place
  <1> QED
    BY <1>1, SpotsStay

(* Receiver takes a packet out of the air and has it at the end of the     *)
(* line it is to join.                                                     *)
LEMMA ReceiveMoves ==
  ASSUME TypeInv, Single, ~Duplicates, NEW n \in Nodes, Receive(n)
  PROVE  Single' /\ \A m : Outstanding(m)' = Outstanding(m)
  <1>1. PICK p \in air : /\ p.to = n
                         /\ received' = [received EXCEPT ![n] = p]
                         /\ air' = air \ {p}
    BY DEF Receive
  <1>2. /\ received[n] = NoPacket /\ UNCHANGED <<DataQueue, AckQueue, handler>>
        /\ p \in Packet
    BY DEF Receive, handlerVars, TypeInv, TypeOK
  <1>3. \A m \in Nodes : received'[m] = IF m = n THEN p ELSE received[m]
    BY <1>1 DEF TypeInv, TypeOK
  <1> DEFINE d == Len(DataQueue[n]) + 1
             a == Len(AckQueue[n]) + 1
             x == Spot("air", n, 0, p)
             y == Spot(IF IsReply(p) THEN "ack" ELSE "data", n,
                       IF IsReply(p) THEN a ELSE d, p)
  <1>4. d \in Nat /\ a \in Nat
    BY LineTypes, LineValues
  <1>5. ASSUME NEW m \in Nodes, NEW k \in Nat
        PROVE  /\ DataLine(m, k)' = IF m = n /\ k = d THEN p ELSE DataLine(m, k)
               /\ AckLine(m, k)' = IF m = n /\ k = a THEN p ELSE AckLine(m, k)
    <2>1. /\ DataLine(m, k)' = InQueue(handler[m].p, DataQueue[m], received'[m], k)
          /\ AckLine(m, k)' = InQueue(NoPacket, AckQueue[m], received'[m], k)
      BY <1>2 DEF DataLine, AckLine, InQueue, Place
    <2>2. AckQueue[m] \in Seq(Replies) /\ DataQueue[m] \in Seq(Requests)
      BY LineTypes
    <2>3. CASE m = n /\ k = d
      BY <1>3, <2>1, <2>2, <2>3, LineValues DEF AckLine, d, a
    <2> QED
      BY <1>3, <2>1, <2>2, LineValues DEF DataLine, AckLine, d, a
  <1>6. DataLine(n, d) = NoPacket /\ AckLine(n, a) = NoPacket
    BY <1>2, LineTypes, LineValues DEF DataLine, AckLine, d, a
  <1>7. x \in Spots /\ y \in Spots
    BY <1>2, <1>4, SpotType
  <1>8. /\ x.q = "air" /\ x.m = n /\ x.k = 0 /\ x.p = p
        /\ y.q = (IF IsReply(p) THEN "ack" ELSE "data") /\ y.m = n /\ y.p = p
        /\ y.k = IF IsReply(p) THEN a ELSE d
    BY DEF Spot
  <1> HIDE DEF d, a, x, y
  <1>9. ASSUME NEW z \in Spots
        PROVE  Stands(z)' <=> (Stands(z) /\ z # x) \/ z = y
    <2>1. /\ z.m \in Nodes /\ z.k \in Nat /\ z.p \in Packet /\ z.p # NoPacket
          /\ z.q \in {"air", "data", "ack"}
      BY NoPacketAssumption DEF Spots
    <2>2. z = x <=> z.q = "air" /\ z.m = n /\ z.k = 0 /\ z.p = p
      BY <1>8, SpotType DEF x
    <2>3. z = y <=> /\ z.q = IF IsReply(p) THEN "ack" ELSE "data"
                    /\ z.m = n /\ z.p = p /\ z.k = IF IsReply(p) THEN a ELSE d
      BY <1>8, SpotType DEF y
    <2>4. CASE z.q = "air"
      BY <1>1, <2>2, <2>3, <2>4 DEF Stands
    <2>5. CASE z.q = "data"
      BY <1>5, <1>6, <2>1, <2>2, <2>3, <2>5 DEF Stands, IsReply
    <2>6. CASE z.q = "ack"
      BY <1>5, <1>6, <2>1, <2>2, <2>3, <2>6 DEF Stands, IsReply
    <2> QED
      BY <2>1, <2>4, <2>5, <2>6
  <1>10. Standing' = (Standing \ {x}) \cup {y}
    BY <1>7, <1>9 DEF Standing
  <1>11. x \in Standing /\ Follows(y, x)
    BY <1>1, <1>7, <1>8 DEF Standing, Stands, Follows
  <1>12. SingleIn(Standing') /\ \A m : Awaited(Standing', m) = Awaited(Standing, m)
    BY <1>10, <1>11, OneMoves DEF Single
  <1> QED
    BY <1>12 DEF Single, Outstanding, SingleIn, Awaited

(* A packet keeps its place in the line when Receiver hands it over. *)
LEMMA EnqueueMoves ==
  ASSUME TypeInv, NEW n \in Nodes, Enqueue(n)
  PROVE  Standing' = Standing
  <1> DEFINE r == received[n]
  <1>1. UNCHANGED <<handler, air>> /\ r \in Packet
    BY DEF Enqueue, handlerVars, TypeInv, TypeOK
  <1>2. \A m \in Nodes :
          /\ received'[m] = IF m = n THEN NoPacket ELSE received[m]
          /\ AckQueue'[m] = IF m = n /\ IsReply(r) THEN Append(AckQueue[m], r)
                            ELSE AckQueue[m]
          /\ DataQueue'[m] = IF m = n /\ ~IsReply(r) THEN Append(DataQueue[m], r)
                             ELSE DataQueue[m]
    BY DEF Enqueue, TypeInv, TypeOK
  <1>3. /\ IsReply(r) => r \in Replies
        /\ ~IsReply(r) => r \in Requests
    BY <1>1 DEF Replies, Requests, IsReply, Packet
  <1>4. ASSUME NEW m \in Nodes, NEW k \in Nat
        PROVE  /\ DataLine(m, k)' # DataLine(m, k) =>
                    DataLine(m, k)' = NoPacket /\ DataLine(m, k) = r /\ IsReply(r)
               /\ AckLine(m, k)' # AckLine(m, k) =>
                    AckLine(m, k)' = NoPacket /\ AckLine(m, k) = r /\ ~IsReply(r)
    <2>1. /\ DataLine(m, k)' = InQueue(handler[m].p, DataQueue'[m], received'[m], k)
          /\ AckLine(m, k)' = InQueue(NoPacket, AckQueue'[m], received'[m], k)
      BY <1>1 DEF DataLine, AckLine, InQueue, Place
    <2>2. AckQueue[m] \in Seq(Replies) /\ DataQueue[m] \in Seq(Requests)
      BY LineTypes
    <2>3. CASE m # n
      BY <1>2, <2>1, <2>3 DEF DataLine, AckLine
    <2>4. CASE m = n /\ IsReply(r)
      <3>1. AckLine(m, k)' = AckLine(m, k)
        BY <1>2, <1>3, <2>1, <2>2, <2>4, LineAppend DEF AckLine
      <3>2. /\ DataLine(m, k)' = InQueue(handler[n].p, DataQueue[n], NoPacket, k)
            /\ DataLine(m, k) = InQueue(handler[n].p, DataQueue[n], r, k)
        BY <1>2, <2>1, <2>4 DEF DataLine
      <3> QED
        BY <2>2, <2>4, <3>1, <3>2, LineValues
    <2>5. CASE m = n /\ ~IsReply(r)
      <3>1. DataLine(m, k)' = DataLine(m, k)
        BY <1>2, <1>3, <2>1, <2>2, <2>5, LineAppend DEF DataLine
      <3>2. /\ AckLine(m, k)' = InQueue(NoPacket, AckQueue[n], NoPacket, k)
            /\ AckLine(m, k) = InQueue(NoPacket, AckQueue[n], r, k)
        BY <1>2, <2>1, <2>5 DEF AckLine
      <3> QED
        BY <2>2, <2>5, <3>1, <3>2, LineValues
    <2> QED
      BY <2>3, <2>4, <2>5
  <1> HIDE DEF r
  <1>5. ASSUME NEW z \in Spots
        PROVE  Stands(z)' <=> Stands(z)
    <2>1. z.m \in Nodes /\ z.k \in Nat /\ z.p # NoPacket
      BY NoPacketAssumption DEF Spots
    <2>2. \A p : IsReply(p)' <=> IsReply(p)
      BY DEF IsReply
    <2> QED
      BY <1>1, <1>4, <2>1, <2>2 DEF Stands, IsReply
  <1> QED
    BY <1>5 DEF Standing

(* PacketHandler takes the next packet; the others move up.  It drops only *)
(* an ADDR_REQ that no reply was to come to.                               *)
LEMMA TakeDataMoves ==
  ASSUME TypeInv, PacketsGood, Single, NEW n \in Nodes, TakeData(n)
  PROVE  Single' /\ \A m : Outstanding(m)' = Outstanding(m)
  <1> DEFINE q == DataQueue[n]
             p == Head(q)
             gone == Spot("data", n, 0, p)
  <1>1. UNCHANGED <<received, AckQueue, air>> /\ handler[n] = Waiting
    BY DEF TakeData
  <1>2. /\ q \in Seq(Requests) /\ q # <<>>
        /\ \A m \in Nodes :
             /\ DataQueue'[m] = IF m = n THEN Tail(q) ELSE DataQueue[m]
             /\ handler'[m] = IF m = n THEN Handling(n, p) ELSE handler[m]
    BY DEF TakeData, TypeInv, TypeOK
  <1>3. p \in Packet /\ ~IsReply(p) /\ p.to = n
    <2>1. p \in Requests /\ p \in Elements(q)
      BY <1>2, QueueTail, ElementsTail
    <2>2. p \in At(n)
      BY <2>1 DEF At
    <2> QED
      BY <2>1, <2>2, LineTypes DEF PacketsGood
  <1>4. handler'[n].p = IF p.type = "ADDR_REQ" /\ p.ip # n THEN NoPacket ELSE p
    BY <1>2 DEF Handling, Waiting
  <1>5. ASSUME NEW m \in Nodes, NEW k \in Nat
        PROVE  /\ AckLine(m, k)' = AckLine(m, k)
               /\ m # n => DataLine(m, k)' = DataLine(m, k)
               /\ m = n /\ k # 0 => DataLine(m, k)' = DataLine(m, k + 1)
    <2>1. AckLine(m, k)' = AckLine(m, k)
      BY <1>1 DEF AckLine, InQueue, Place
    <2>2. DataLine(m, k)' = InQueue(handler'[m].p, DataQueue'[m], received[m], k)
      BY <1>1 DEF DataLine, InQueue, Place
    <2>3. m # n => DataLine(m, k)' = DataLine(m, k)
      BY <1>2, <2>2 DEF DataLine
    <2>4. CASE m = n /\ k # 0
      <3>1. k \in Nat \ {0}
        BY <2>4
      <3>2. InQueue(handler'[n].p, Tail(q), received[n], k)
              = InQueue(handler[n].p, q, received[n], k + 1)
        BY <1>2, <3>1, LineTail
      <3>3. DataLine(m, k)' = DataLine(m, k + 1)
        BY <1>2, <2>2, <2>4, <3>2 DEF DataLine
      <3> QED
        BY <2>1, <2>3, <3>3
    <2> QED
      BY <2>1, <2>3, <2>4
  <1>6. /\ DataLine(n, 0) = NoPacket /\ DataLine(n, 1) = p
        /\ DataLine(n, 0)' = handler'[n].p
    <2>1. DataLine(n, 0)' = handler'[n].p
      BY DEF DataLine, InQueue, Place
    <2>2. DataLine(n, 0) = NoPacket
      BY <1>1 DEF DataLine, InQueue, Place, Waiting
    <2>3. DataLine(n, 1) = p
      BY <1>2, LineTail DEF DataLine
    <2> QED
      BY <2>1, <2>2, <2>3
  <1> HIDE DEF p, q, gone
  <1>7. ASSUME NEW z \in Standing'
        PROVE  Up("data", n, z) \in Standing /\ Up("data", n, z) # gone
    <2>1. z \in Spots /\ Stands(z)'
      BY DEF Standing
    <2>2. /\ z.m \in Nodes /\ z.k \in Nat /\ z.k + 1 \in Nat /\ z.p \in Packet
          /\ z.p # NoPacket
      BY <2>1, NoPacketAssumption DEF Spots
    <2> DEFINE u == Up("data", n, z)
    <2>3. u \in Spots /\ u.p = z.p /\ u.m = z.m
      BY <2>1, UpMoves
    <2>4. u.q = z.q /\ u.k = IF z.q = "data" /\ z.m = n THEN z.k + 1 ELSE z.k
      BY SpotType DEF Up
    <2>5. u # gone
      <3>1. gone.q = "data" /\ gone.m = n /\ gone.k = 0
        BY SpotType DEF gone
      <3> QED
        BY <2>2, <2>3, <2>4, <3>1
    <2> HIDE DEF u
    <2>6. Stands(u)
      <3>1. CASE z.q = "data" /\ z.m = n
        <4>1. z.p = DataLine(n, z.k)' /\ ~IsReply(z.p)
          BY <2>1, <3>1 DEF Stands, IsReply
        <4>2. z.p = DataLine(n, z.k + 1)
          <5>1. CASE z.k = 0
            BY <1>4, <1>6, <2>2, <4>1, <5>1
          <5>2. CASE z.k # 0
            BY <1>5, <2>2, <4>1, <5>2
          <5> QED
            BY <5>1, <5>2
        <4> QED
          BY <2>3, <2>4, <3>1, <4>1, <4>2 DEF Stands
      <3>2. CASE ~(z.q = "data" /\ z.m = n)
        <4>1. u = z
          BY <3>2 DEF u, Up
        <4> QED
          BY <1>1, <1>5, <2>1, <2>2, <3>2, <4>1 DEF Stands, IsReply
      <3> QED
        BY <3>1, <3>2
    <2> QED
      BY <2>3, <2>5, <2>6 DEF Standing, u
  <1>8. ASSUME NEW y \in Standing, Live(y.p), y # gone
        PROVE  \E z \in Standing' : Up("data", n, z) = y
    <2>1. y \in Spots /\ Stands(y) /\ y = Spot(y.q, y.m, y.k, y.p)
      BY SpotType DEF Standing
    <2>2. /\ y.m \in Nodes /\ y.k \in Nat /\ y.p \in Packet /\ y.p # NoPacket
          /\ y.q \in {"air", "data", "ack"}
      BY <2>1, NoPacketAssumption DEF Spots
    <2>3. CASE y.q = "data" /\ y.m = n
      <3> DEFINE z == Spot("data", n, y.k - 1, y.p)
      <3>1. y.p = DataLine(n, y.k) /\ ~IsReply(y.p)
        BY <2>1, <2>3 DEF Stands
      <3>2. y.k # 0 /\ y.k - 1 \in Nat /\ (y.k - 1) + 1 = y.k
        BY <1>6, <2>2, <3>1
      <3>3. z \in Spots /\ z.q = "data" /\ z.m = n /\ z.k = y.k - 1 /\ z.p = y.p
        BY <2>2, <3>2, SpotType
      <3>4. y.p = DataLine(n, y.k - 1)'
        <4>1. CASE y.k = 1
          <5>1. y.p = p
            BY <1>6, <3>1, <4>1
          <5>2. handler'[n].p = p
            BY <1>3, <1>4, <1>8, <5>1 DEF Live
          <5> QED
            BY <1>6, <4>1, <5>1, <5>2
        <4>2. CASE y.k # 1
          <5>1. y.k - 1 # 0
            BY <2>2, <4>2
          <5> QED
            BY <1>5, <3>1, <3>2, <5>1
        <4> QED
          BY <4>1, <4>2
      <3>5. Up("data", n, z) = y
        BY <2>1, <2>3, <3>2, <3>3 DEF Up
      <3> HIDE DEF z
      <3>6. Stands(z)'
        BY <3>1, <3>3, <3>4 DEF Stands, IsReply
      <3> QED
        BY <3>3, <3>5, <3>6 DEF Standing
    <2>4. CASE ~(y.q = "data" /\ y.m = n)
      <3>1. Stands(y)'
        BY <1>1, <1>5, <2>1, <2>2, <2>4 DEF Stands, IsReply
      <3>2. Up("data", n, y) = y
        BY <2>4 DEF Up
      <3> QED
        BY <2>1, <3>1, <3>2 DEF Standing
    <2> QED
      BY <2>3, <2>4
  <1>9. gone \notin Standing
    <2>1. gone.q = "data" /\ gone.m = n /\ gone.k = 0 /\ gone.p = p
      BY SpotType DEF gone
    <2> QED
      BY <1>3, <1>6, <2>1, NoPacketAssumption DEF Standing, Stands
  <1>10. Standing \in SUBSET Spots /\ Standing' \in SUBSET Spots
    BY DEF Standing
  <1>11. /\ SingleIn(Standing')
         /\ \A m : Awaited(Standing', m) = Awaited(Standing, m)
    <2>1. /\ SingleIn(Standing')
          /\ \A m : Awaited(Standing', m) =
               {id \in Awaited(Standing, m) :
                  ~(gone \in Standing /\ About(gone.p, m, id))}
      <3>1. MovesUp(Standing, Standing', "data", n, gone)
        BY <1>7, <1>8 DEF MovesUp
      <3> QED
        BY <1>10, <3>1, QueueMoves DEF Single
    <2> QED
      BY <1>9, <2>1
  <1> QED
    BY <1>11 DEF Single, Outstanding, SingleIn, Awaited

(* PacketHandler answers: the reply follows the request. *)
LEMMA SendReplyMoves ==
  ASSUME TypeInv, PacketsGood, HandlerHonest, Single, UNCHANGED queueVars,
         NEW n \in Nodes, NEW type \in AckTypes, handler[n].pc \in {"addr", "ack"},
         air' = air \cup {Reply(n, type, handler[n].p)},
         handler' = [handler EXCEPT ![n] = Waiting]
  PROVE  Single' /\ \A m : Outstanding(m)' = Outstanding(m)
  <1> DEFINE p == handler[n].p
             r == Reply(n, type, p)
             x == Spot("data", n, 0, p)
             y == Spot("air", p.src, 0, r)
  <1>1. p \in Requests /\ p.to = n /\ handler[n] # Waiting
    <2>1. p \in Requests /\ handler[n] # Waiting
      BY DEF TypeInv, TypeOK, Waiting
    <2> QED
      BY <2>1 DEF PacketsGood, At
  <1>2. /\ p \in Packet /\ p # NoPacket /\ ~IsReply(p) /\ p.src \in Nodes
        /\ r \in Packet
    BY <1>1, LineTypes, ReplyType, NoPacketAssumption DEF Packet
  <1>3. /\ r.to = p.src /\ r.id = p.id /\ r.type \in AckTypes
        /\ p.type = "ADDR_REQ" => p.ip = p.to
    <2>1. p.type = "ADDR_REQ" => p.ip = n
      BY DEF HandlerHonest
    <2> QED
      BY <1>1, <2>1 DEF Reply
  <1>4. /\ \A m \in Nodes : handler'[m] = IF m = n THEN Waiting ELSE handler[m]
        /\ UNCHANGED <<received, AckQueue, DataQueue>>
    BY DEF TypeInv, TypeOK, queueVars
  <1>5. ASSUME NEW m \in Nodes, NEW k \in Nat
        PROVE  /\ DataLine(m, k)' = IF m = n /\ k = 0 THEN NoPacket ELSE DataLine(m, k)
               /\ AckLine(m, k)' = AckLine(m, k)
    BY <1>4 DEF DataLine, AckLine, InQueue, Place, Waiting
  <1>6. DataLine(n, 0) = p
    BY DEF DataLine, InQueue, Place
  <1>7. x \in Spots /\ y \in Spots
    BY <1>2, SpotType
  <1>8. /\ x.q = "data" /\ x.m = n /\ x.k = 0 /\ x.p = p
        /\ y.q = "air" /\ y.m = p.src /\ y.k = 0 /\ y.p = r
    BY SpotType
  <1>9. air' = air \cup {r}
    OBVIOUS
  <1> HIDE DEF p, r
  <1>10. ASSUME NEW z \in Spots
         PROVE  Stands(z)' <=> (Stands(z) /\ z # x) \/ z = y
    <2>1. /\ z.m \in Nodes /\ z.k \in Nat /\ z.p \in Packet /\ z.p # NoPacket
          /\ z.q \in {"air", "data", "ack"}
      BY NoPacketAssumption DEF Spots
    <2>2. /\ z = x <=> z.q = "data" /\ z.m = n /\ z.k = 0 /\ z.p = p
          /\ z = y <=> z.q = "air" /\ z.m = p.src /\ z.k = 0 /\ z.p = r
      BY <1>8, SpotType
    <2> HIDE DEF x, y
    <2>3. CASE z.q = "air"
      BY <1>3, <1>9, <2>2, <2>3 DEF Stands
    <2>4. CASE z.q = "data"
      BY <1>5, <1>6, <2>1, <2>2, <2>4 DEF Stands, IsReply
    <2>5. CASE z.q = "ack"
      BY <1>5, <2>1, <2>2, <2>5 DEF Stands, IsReply
    <2> QED
      BY <2>1, <2>3, <2>4, <2>5
  <1> HIDE DEF x, y
  <1>11. Standing' = (Standing \ {x}) \cup {y}
    BY <1>7, <1>10 DEF Standing
  <1>12. x \in Standing
    BY <1>2, <1>6, <1>7, <1>8 DEF Standing, Stands
  <1>13. Follows(y, x)
    BY <1>2, <1>3, <1>8 DEF Follows, Requester, IsReply, Live, AckTypes
  <1>14. SingleIn(Standing') /\ \A m : Awaited(Standing', m) = Awaited(Standing, m)
    BY <1>11, <1>12, <1>13, OneMoves DEF Single
  <1> QED
    BY <1>14 DEF Single, Outstanding, SingleIn, Awaited

(* WaitForAck takes a reply: its transmission is not outstanding any more. *)
LEMMA TakeAckMoves ==
  ASSUME TypeInv, PacketsGood, Single, NEW n \in Nodes, TakeAck(n),
         NEW ack, ack = Head(AckQueue[n])
  PROVE  /\ Single'
         /\ ack.id \in Outstanding(n)
         /\ Outstanding(n)' = Outstanding(n) \ {ack.id}
         /\ \A m : m # n => Outstanding(m)' = Outstanding(m)
  <1> DEFINE q == AckQueue[n]
             gone == Spot("ack", n, 1, ack)
  <1>1. UNCHANGED <<received, DataQueue, air, handler>>
    BY DEF TakeAck, handlerVars
  <1>2. /\ q \in Seq(Replies) /\ q # <<>>
        /\ \A m \in Nodes : AckQueue'[m] = IF m = n THEN Tail(q) ELSE AckQueue[m]
    BY DEF TakeAck, TypeInv, TypeOK
  <1>3. /\ ack \in Packet /\ ack # NoPacket /\ IsReply(ack) /\ ack.to = n
        /\ ack.id \in Nat
    <2>1. ack \in Replies /\ ack \in Elements(q)
      BY <1>2, QueueTail, ElementsTail
    <2>2. ack \in At(n)
      BY <2>1 DEF At
    <2> QED
      BY <2>1, <2>2, LineTypes, NoPacketAssumption DEF PacketsGood, Packet
  <1>4. ASSUME NEW m \in Nodes, NEW k \in Nat
        PROVE  /\ DataLine(m, k)' = DataLine(m, k)
               /\ m # n => AckLine(m, k)' = AckLine(m, k)
               /\ m = n /\ k # 0 => AckLine(m, k)' = AckLine(m, k + 1)
    <2>1. DataLine(m, k)' = DataLine(m, k)
      BY <1>1 DEF DataLine, InQueue, Place
    <2>2. AckLine(m, k)' = InQueue(NoPacket, AckQueue'[m], received[m], k)
      BY <1>1 DEF AckLine, InQueue, Place
    <2>3. m # n => AckLine(m, k)' = AckLine(m, k)
      BY <1>2, <2>2 DEF AckLine
    <2>4. CASE m = n /\ k # 0
      <3>1. k \in Nat \ {0}
        BY <2>4
      <3>2. InQueue(NoPacket, Tail(q), received[n], k)
              = InQueue(NoPacket, q, received[n], k + 1)
        BY <1>2, <3>1, LineTail
      <3>3. AckLine(m, k)' = AckLine(m, k + 1)
        BY <1>2, <2>2, <2>4, <3>2 DEF AckLine
      <3> QED
        BY <2>1, <2>3, <3>3
    <2> QED
      BY <2>1, <2>3, <2>4
  <1>5. /\ AckLine(n, 0) = NoPacket /\ AckLine(n, 1) = ack
        /\ AckLine(n, 0)' = NoPacket
    <2>1. AckLine(n, 0) = NoPacket /\ AckLine(n, 0)' = NoPacket
      BY DEF AckLine, InQueue, Place
    <2>2. AckLine(n, 1) = ack
      BY <1>2, LineTail DEF AckLine
    <2> QED
      BY <2>1, <2>2
  <1>6. gone \in Spots /\ gone.q = "ack" /\ gone.m = n /\ gone.k = 1 /\ gone.p = ack
    BY <1>3, SpotType
  <1> HIDE DEF q, gone
  <1>7. ASSUME NEW z \in Standing'
        PROVE  Up("ack", n, z) \in Standing /\ Up("ack", n, z) # gone
    <2>1. z \in Spots /\ Stands(z)'
      BY DEF Standing
    <2>2. /\ z.m \in Nodes /\ z.k \in Nat /\ z.k + 1 \in Nat /\ z.p \in Packet
          /\ z.p # NoPacket
      BY <2>1, NoPacketAssumption DEF Spots
    <2> DEFINE u == Up("ack", n, z)
    <2>3. u \in Spots /\ u.p = z.p /\ u.m = z.m
      BY <2>1, UpMoves
    <2>4. u.q = z.q /\ u.k = IF z.q = "ack" /\ z.m = n THEN z.k + 1 ELSE z.k
      BY SpotType DEF Up
    <2>5. CASE z.q = "ack" /\ z.m = n
      <3>1. z.p = AckLine(n, z.k)' /\ IsReply(z.p)
        BY <2>1, <2>5 DEF Stands, IsReply
      <3>2. z.k # 0
        BY <1>5, <2>2, <3>1
      <3>3. z.p = AckLine(n, z.k + 1)
        BY <1>4, <2>2, <3>1, <3>2
      <3>4. u.k # 1
        BY <2>2, <2>4, <2>5, <3>2
      <3> HIDE DEF u
      <3> QED
        BY <1>6, <2>3, <2>4, <2>5, <3>1, <3>3, <3>4 DEF Standing, Stands, u
    <2>6. CASE ~(z.q = "ack" /\ z.m = n)
      <3>1. u = z
        BY <2>6 DEF u, Up
      <3>2. Stands(z) /\ z # gone
        BY <1>1, <1>4, <1>6, <2>1, <2>2, <2>6 DEF Stands, IsReply
      <3> QED
        BY <2>1, <3>1, <3>2 DEF Standing
    <2> QED
      BY <2>5, <2>6
  <1>8. ASSUME NEW y \in Standing, y # gone
        PROVE  \E z \in Standing' : Up("ack", n, z) = y
    <2>1. y \in Spots /\ Stands(y) /\ y = Spot(y.q, y.m, y.k, y.p)
      BY SpotType DEF Standing
    <2>2. /\ y.m \in Nodes /\ y.k \in Nat /\ y.p \in Packet /\ y.p # NoPacket
          /\ y.q \in {"air", "data", "ack"}
      BY <2>1, NoPacketAssumption DEF Spots
    <2>3. CASE y.q = "ack" /\ y.m = n
      <3> DEFINE z == Spot("ack", n, y.k - 1, y.p)
      <3>1. y.p = AckLine(n, y.k) /\ IsReply(y.p)
        BY <2>1, <2>3 DEF Stands
      <3>2. y.k # 0 /\ y.k # 1
        BY <1>5, <1>8, <2>1, <2>2, <2>3, <3>1 DEF gone
      <3>3. y.k - 1 \in Nat /\ (y.k - 1) + 1 = y.k /\ y.k - 1 # 0
        BY <2>2, <3>2
      <3>4. z \in Spots /\ z.q = "ack" /\ z.m = n /\ z.k = y.k - 1 /\ z.p = y.p
        BY <2>2, <3>3, SpotType
      <3>5. y.p = AckLine(n, y.k - 1)'
        BY <1>4, <3>1, <3>3
      <3>6. Up("ack", n, z) = y
        BY <2>1, <2>3, <3>3, <3>4 DEF Up
      <3> HIDE DEF z
      <3>7. Stands(z)'
        BY <3>1, <3>4, <3>5 DEF Stands, IsReply
      <3> QED
        BY <3>4, <3>6, <3>7 DEF Standing
    <2>4. CASE ~(y.q = "ack" /\ y.m = n)
      <3>1. Stands(y)'
        BY <1>1, <1>4, <2>1, <2>2, <2>4 DEF Stands, IsReply
      <3>2. Up("ack", n, y) = y
        BY <2>4 DEF Up
      <3> QED
        BY <2>1, <3>1, <3>2 DEF Standing
    <2> QED
      BY <2>3, <2>4
  <1>9. gone \in Standing /\ About(gone.p, n, ack.id)
    BY <1>3, <1>5, <1>6 DEF Standing, Stands, About, Requester, Live, IsReply,
       AckTypes
  <1>10. Standing \in SUBSET Spots /\ Standing' \in SUBSET Spots
    BY DEF Standing
  <1>11. /\ SingleIn(Standing')
         /\ \A m : Awaited(Standing', m) =
              {id \in Awaited(Standing, m) :
                 ~(gone \in Standing /\ About(gone.p, m, id))}
    <2>1. MovesUp(Standing, Standing', "ack", n, gone)
      BY <1>7, <1>8 DEF MovesUp
    <2> QED
      BY <1>10, <2>1, QueueMoves DEF Single
  <1>12. /\ \A id : About(gone.p, n, id) <=> id = ack.id
         /\ \A m, id : m # n => ~About(gone.p, m, id)
    BY <1>6, <1>9 DEF About
  <1>13. /\ ack.id \in Awaited(Standing, n)
         /\ Awaited(Standing', n) = Awaited(Standing, n) \ {ack.id}
         /\ \A m : m # n => Awaited(Standing', m) = Awaited(Standing, m)
    <2>1. ack.id \in Awaited(Standing, n)
      BY <1>3, <1>9 DEF Awaited
    <2>2. Awaited(Standing', n) = Awaited(Standing, n) \ {ack.id}
      BY <1>9, <1>11, <1>12
    <2>3. \A m : m # n => Awaited(Standing', m) = Awaited(Standing, m)
      BY <1>9, <1>11, <1>12
    <2> QED
      BY <2>1, <2>2, <2>3
  <1> QED
    BY <1>11, <1>13 DEF Single, Outstanding, SingleIn, Awaited

(* A packet stands in the air or with the node that it is for. *)
LEMMA StandingHeld ==
  ASSUME TypeInv, PacketsGood, NEW x \in Standing
  PROVE  x.p \in Packet /\ Good(x.p) /\ x.p.to = x.m
  <1> DEFINE p == x.p
             m == x.m
             k == x.k
  <1>1. /\ x \in Spots /\ Stands(x) /\ p \in Packet /\ p # NoPacket
        /\ m \in Nodes /\ k \in Nat
    BY NoPacketAssumption DEF Standing, Spots
  <1>2. CASE x.q = "air"
    BY <1>1, <1>2 DEF Stands, PacketsGood
  <1>3. CASE x.q # "air"
    <2>1. AckQueue[m] \in Seq(Replies) /\ DataQueue[m] \in Seq(Requests)
      BY <1>1, LineTypes
    <2>2. p = DataLine(m, k) \/ p = AckLine(m, k)
      BY <1>1, <1>3 DEF Stands
    <2>3. handler[m].p = NoPacket \/ handler[m] # Waiting
      BY DEF Waiting
    <2> HIDE DEF p, m, k
    <2>4. p \in At(m)
      <3>1. CASE p = DataLine(m, k)
        BY <1>1, <2>1, <2>3, <3>1 DEF DataLine, InQueue, Place, At, Elements
      <3>2. CASE p = AckLine(m, k)
        BY <1>1, <2>1, <3>2 DEF AckLine, InQueue, Place, At, Elements
      <3> QED
        BY <2>2, <3>1, <3>2
    <2> QED
      BY <1>1, <2>4 DEF PacketsGood, p, m
  <1> QED
    BY <1>2, <1>3

(* The call of n is to send its next packet to a node that will answer. *)
Targeted(n) ==
  /\ call[n].ip \in Nodes \ {n}
  /\ IF call[n].stage = "resolve" THEN call[n].mac = BCST_MAC
     ELSE call[n].mac \in Nodes \ {n}

LEMMA TransmitMoves ==
  ASSUME TypeInv, PacketsGood, OneTarget, Single, NEW n \in Nodes, Transmit(n),
         NEW id, id = txCount[n] + 1
  PROVE  /\ Single'
         /\ id \notin Outstanding(n) /\ id \in Nat
         /\ Outstanding(n)' \subseteq Outstanding(n) \cup {id}
         /\ Outstanding(n) \subseteq Outstanding(n)'
         /\ Targeted(n) => id \in Outstanding(n)'
         /\ \A m : m # n => Outstanding(m)' = Outstanding(m)
  <1> DEFINE seq == (Seq_[n] + 1) % SeqMod
             req(m) == Request(n, m, seq, id)
             Ts == Targets(n, call[n].mac)
             New == {Spot("air", m, 0, req(m)) : m \in Ts}
  <1>1. /\ call[n] \in Call /\ txCount[n] \in Nat /\ writes[n] \in Seq(Result)
        /\ id \in Nat \ {0} /\ seq \in 0 .. SeqMod - 1
    <2>1. /\ call[n] \in Call /\ txCount[n] \in Nat /\ writes[n] \in Seq(Result)
          /\ Seq_[n] \in Int
      BY InSend DEF Transmit, TypeInv, TypeOK
    <2>2. seq \in 0 .. SeqMod - 1
      BY <2>1, NfdAssumption
    <2> QED
      BY <2>1, <2>2
  <1>2. UNCHANGED <<received, AckQueue, DataQueue, handler>>
    BY DEF Transmit, queueVars, handlerVars
  <1>3. air' = air \cup {req(m) : m \in Ts}
    BY DEF Transmit
  <1>4. /\ Ts \subseteq Nodes \ {n}
        /\ call[n].mac # BCST_MAC => Ts \subseteq {call[n].mac}
        /\ call[n].mac = BCST_MAC => Ts = Nodes \ {n}
        /\ call[n].mac \in Nodes \ {n} => call[n].mac \in Ts
    BY NfdAssumption DEF Targets, Ips
  <1> HIDE DEF seq, Ts
  <1>5. ASSUME NEW m \in Nodes
        PROVE  /\ req(m) \in Packet /\ req(m).to = m /\ req(m).src = n
               /\ req(m).id = id /\ req(m).ip = call[n].ip /\ ~IsReply(req(m))
               /\ req(m).type = "ADDR_REQ" <=> call[n].stage = "resolve"
    <2>1. req(m) \in Packet
      BY <1>1, RequestType
    <2>2. /\ TxType(call[n].stage) \in {"ADDR_REQ", "RELAY_REQ", "P2P"}
          /\ TxType(call[n].stage) = "ADDR_REQ" <=> call[n].stage = "resolve"
      BY <1>1 DEF TxType, Call, Stages
    <2> QED
      BY <2>1, <2>2 DEF Request, IsReply, AckTypes
  <1> HIDE DEF req
  <1>6. ASSUME NEW m \in Nodes
        PROVE  LET y == Spot("air", m, 0, req(m)) IN
                 /\ y \in Spots /\ y.q = "air" /\ y.m = m /\ y.k = 0 /\ y.p = req(m)
                 /\ Requester(y.p) = n /\ y.p.id = id /\ ~IsReply(y.p)
                 /\ Live(y.p) <=> (call[n].stage = "resolve" => call[n].ip = m)
    BY <1>5, SpotType DEF Requester, Live
  <1>7. ASSUME NEW z \in Spots
        PROVE  Stands(z)' <=> Stands(z) \/ z \in New
    <2>1. z = Spot(z.q, z.m, z.k, z.p)
      BY SpotType
    <2>2. /\ DataLine(z.m, z.k)' = DataLine(z.m, z.k)
          /\ AckLine(z.m, z.k)' = AckLine(z.m, z.k)
      BY <1>2 DEF DataLine, AckLine, InQueue, Place
    <2>3. z \in New => z.q = "air" /\ z.k = 0 /\ z.p.to = z.m /\ z.p \in air'
      BY <1>3, <1>4, <1>5, <1>6
    <2>4. ASSUME z.q = "air", z.k = 0, z.p.to = z.m, z.p \in {req(m) : m \in Ts}
          PROVE  z \in New
      <3>1. PICK m \in Ts : z.p = req(m)
        BY <2>4
      <3>2. z = Spot("air", m, 0, req(m))
        BY <1>4, <1>5, <2>1, <2>4, <3>1
      <3> QED
        BY <3>2
    <2> HIDE DEF New
    <2> QED
      BY <1>3, <2>2, <2>3, <2>4 DEF Stands, IsReply
  <1>8. New \subseteq Spots
    BY <1>4, <1>6
  <1>9. Sends(New, n, id)
    <2>1. \A y \in New : /\ Requester(y.p) = n /\ y.p.id = id
                         /\ y.m # n /\ ~IsReply(y.p)
      BY <1>4, <1>6
    <2>2. ASSUME NEW y \in New, NEW z \in New, Live(y.p), Live(z.p)
          PROVE  y = z
      <3>1. PICK a \in Ts : y = Spot("air", a, 0, req(a))
        OBVIOUS
      <3>2. PICK b \in Ts : z = Spot("air", b, 0, req(b))
        OBVIOUS
      <3>3. CASE call[n].stage = "resolve"
        BY <1>4, <1>6, <2>2, <3>1, <3>2, <3>3
      <3>4. CASE call[n].stage # "resolve"
        <4>1. call[n].mac # BCST_MAC
          BY <1>1, <3>4 DEF OneTarget, Call, Stages
        <4> QED
          BY <1>4, <3>1, <3>2, <4>1
      <3> QED
        BY <3>3, <3>4
    <2> HIDE DEF New
    <2> QED
      BY <2>1, <2>2 DEF Sends
  <1>10. id \notin Awaited(Standing, n)
    <2> SUFFICES ASSUME NEW x \in Standing, About(x.p, n, id) PROVE FALSE
      BY DEF Awaited
    <2>1. x.p.id <= txCount[n]
      BY StandingHeld DEF About, Good, Numbered
    <2> QED
      BY <1>1, <2>1 DEF About
  <1>11. Targeted(n) => \E y \in New : Live(y.p)
    <2> SUFFICES ASSUME Targeted(n) PROVE \E y \in New : Live(y.p)
      OBVIOUS
    <2> DEFINE m == IF call[n].stage = "resolve" THEN call[n].ip ELSE call[n].mac
    <2>1. m \in Ts /\ m \in Nodes
      BY <1>4 DEF Targeted
    <2>2. Live(Spot("air", m, 0, req(m)).p)
      BY <1>6, <2>1
    <2> HIDE DEF m
    <2> QED
      BY <2>1, <2>2
  <1>12. Standing' = Standing \cup New
    BY <1>7, <1>8 DEF Standing
  <1> HIDE DEF New
  <1>13. /\ SingleIn(Standing')
         /\ \A k : k # n => Awaited(Standing', k) = Awaited(Standing, k)
         /\ Awaited(Standing, n) \subseteq Awaited(Standing', n)
         /\ Awaited(Standing', n) \subseteq Awaited(Standing, n) \cup {id}
         /\ \A y \in New : Live(y.p) => id \in Awaited(Standing', n)
    <2>1. id \in Nat /\ SingleIn(Standing)
      BY <1>1 DEF Single
    <2> QED
      BY <1>9, <1>10, <1>12, <2>1, OneAdded
  <1> QED
    BY <1>1, <1>10, <1>11, <1>13 DEF Single, Outstanding, SingleIn, Awaited

-----------------------------------------------------------------------------
(* Where requests go: to everyone, to a neighbour other than the node      *)
(* itself, or to the node that answered.                                   *)

Directed(n, c, count) ==
  /\ c.stage = "resolve" => c.mac = BCST_MAC
  /\ c.stage = "server" => c.mac \in Nodes \ {n}
  /\ c.stage = "resolved" => c.lag < count

RoutedInv ==
  \A n \in Nodes :
    /\ \A i \in DOMAIN NodeAddrs[n] : NodeAddrs[n][i] # n
    /\ Directed(n, call[n], txCount[n])

LEMMA CallRouted ==
  ASSUME TypeInv, RoutedInv, NEW n \in Nodes, NEW c, UNCHANGED NodeAddrs,
         call' = [call EXCEPT ![n] = c], Directed(n, c, txCount'[n]),
         \A m \in Nodes \ {n} : txCount'[m] = txCount[m]
  PROVE  RoutedInv'
  <1>1. \A m \in Nodes : call'[m] = IF m = n THEN c ELSE call[m]
    BY DEF TypeInv, TypeOK
  <1> QED
    BY <1>1 DEF RoutedInv, Directed

LEMMA TxFailsRouted ==
  ASSUME TypeInv, RoutedInv, NEW n \in Nodes, TxFails(n), UNCHANGED NodeAddrs,
         \A m \in Nodes \ {n} : txCount'[m] = txCount[m]
  PROVE  RoutedInv'
  <1>1. CASE call[n].stage = "resolve" /\ NodeAddrs[n] # <<>>
    <2> DEFINE c == StartTx("relay", call[n].ip, NodeAddrs[n][1], 0)
    <2>1. call' = [call EXCEPT ![n] = c] /\ c.stage = "relay"
      BY <1>1 DEF TxFails, StartTx
    <2> QED
      BY <2>1, CallRouted DEF Directed
  <1>2. CASE ~(call[n].stage = "resolve" /\ NodeAddrs[n] # <<>>)
    <2>1. call' = [call EXCEPT ![n] = NoCall] /\ NoCall.stage = "idle"
      BY <1>2 DEF TxFails, Return, NoCall
    <2> QED
      BY <2>1, CallRouted DEF Directed
  <1> QED
    BY <1>1, <1>2

LEMMA NextRouted == TypeInv /\ RoutedInv /\ [Next]_vars => RoutedInv'
  <1> SUFFICES ASSUME TypeInv, RoutedInv, [Next]_vars PROVE RoutedInv'
    OBVIOUS
  <1> USE DEF callVars
  <1>1. ASSUME NEW n \in Nodes, NEW ip \in Ips, Write(n, ip)
        PROVE  RoutedInv'
    <2> DEFINE c == Route(n, ip)
    <2>1. call' = [call EXCEPT ![n] = c] /\ UNCHANGED <<NodeAddrs, txCount>>
      BY <1>1 DEF Write
    <2>2. ip = ServerAddr[n] => NodeAddrs[n][1] \in Nodes \ {n}
      <3> SUFFICES ASSUME ip = ServerAddr[n] PROVE NodeAddrs[n][1] \in Nodes \ {n}
        OBVIOUS
      <3>1. NodeAddrs[n] # <<>> /\ NodeAddrs[n] \in Seq(Nodes)
        BY NfdAssumption DEF TypeInv, TypeOK, ServerAddrHasNeighbour
      <3>2. 1 \in DOMAIN NodeAddrs[n] /\ NodeAddrs[n][1] \in Nodes
        BY <3>1
      <3> QED
        BY <3>2 DEF RoutedInv
    <2>3. Directed(n, c, txCount[n])
      BY <2>2 DEF Route, StartTx, Directed
    <2> HIDE DEF c
    <2> QED
      BY <2>1, <2>3, CallRouted
  <1>2. ASSUME NEW n \in Nodes, Transmit(n)
        PROVE  RoutedInv'
    <2>1. /\ call[n] \in Call /\ txCount[n] \in Nat
          /\ txCount' = [txCount EXCEPT ![n] = txCount[n] + 1]
          /\ UNCHANGED NodeAddrs
      BY <1>2, InSend DEF Transmit, TypeInv, TypeOK
    <2>2. /\ txCount'[n] = txCount[n] + 1
          /\ \A m \in Nodes \ {n} : txCount'[m] = txCount[m]
      BY <2>1 DEF TypeInv, TypeOK
    <2>3. CASE call' = [call EXCEPT ![n].at = "select"]
      <3> DEFINE c == [call[n] EXCEPT !.at = "select"]
      <3>1. call' = [call EXCEPT ![n] = c]
        BY <2>3
      <3>2. c.stage = call[n].stage /\ c.mac = call[n].mac /\ c.lag = call[n].lag
              /\ call[n].lag \in Int
        BY <2>1 DEF Call
      <3> HIDE DEF c
      <3>3. Directed(n, c, txCount'[n])
        BY <2>1, <2>2, <3>2 DEF RoutedInv, Directed
      <3> QED
        BY <2>1, <2>2, <3>1, <3>3, CallRouted
    <2>4. CASE TxFails(n)
      BY <2>1, <2>2, <2>4, TxFailsRouted
    <2> QED
      BY <1>2, <2>3, <2>4 DEF Transmit
  <1>3. ASSUME NEW n \in Nodes, TakeAck(n)
        PROVE  RoutedInv'
    <2> DEFINE ack == Head(AckQueue[n])
               lag == txCount[n] - ack.id
    <2>1. UNCHANGED <<NodeAddrs, txCount>>
      BY <1>3 DEF TakeAck
    <2>2. lag < txCount[n]
      <3>1. ack.id \in Nat \ {0} /\ txCount[n] \in Nat
        <4>1. ack \in Replies
          BY <1>3, QueueTail DEF TakeAck, TypeInv, TypeOK
        <4> HIDE DEF ack
        <4> QED
          BY <4>1 DEF Replies, Packet, TypeInv, TypeOK
      <3> QED
        BY <3>1
    <2>3. UNCHANGED call \/ TxSucceeds(n, lag)
      BY <1>3 DEF TakeAck
    <2> HIDE DEF lag
    <2>4. CASE UNCHANGED call
      BY <2>1, <2>4 DEF RoutedInv
    <2>5. CASE TxSucceeds(n, lag) /\ call[n].stage = "resolve"
      <3> DEFINE c == StartTx("resolved", call[n].ip, ADDR_LIST'[n][call[n].ip], lag)
      <3>1. call' = [call EXCEPT ![n] = c]
        BY <2>5 DEF TxSucceeds
      <3>2. c.stage = "resolved" /\ c.lag = lag
        BY DEF StartTx
      <3> HIDE DEF c
      <3> QED
        BY <2>1, <2>2, <3>1, <3>2, CallRouted DEF Directed
    <2>6. CASE TxSucceeds(n, lag) /\ call[n].stage # "resolve"
      <3>1. call' = [call EXCEPT ![n] = NoCall] /\ NoCall.stage = "idle"
        BY <2>6 DEF TxSucceeds, Return, NoCall
      <3> QED
        BY <2>1, <3>1, CallRouted DEF Directed
    <2> QED
      BY <2>3, <2>4, <2>5, <2>6
  <1>4. ASSUME NEW n \in Nodes, FallAsleep(n)
        PROVE  RoutedInv'
    <2> DEFINE c == [call[n] EXCEPT !.at = "sleep"]
    <2>1. call' = [call EXCEPT ![n] = c] /\ UNCHANGED <<NodeAddrs, txCount>>
      BY <1>4 DEF FallAsleep
    <2>2. c.stage = call[n].stage /\ c.mac = call[n].mac /\ c.lag = call[n].lag
      BY <1>4, InSend DEF FallAsleep, TypeInv, TypeOK, Call
    <2> HIDE DEF c
    <2>3. Directed(n, c, txCount'[n])
      BY <2>1, <2>2 DEF RoutedInv, Directed
    <2> QED
      BY <2>1, <2>3, CallRouted
  <1>5. ASSUME NEW n \in Nodes, Tick(n)
        PROVE  RoutedInv'
    <2>1. UNCHANGED <<NodeAddrs, txCount>> /\ call[n] \in Call
      BY <1>5, InSend DEF Tick, TypeInv, TypeOK
    <2>2. CASE call[n].count + 1 = Ticks
      <3>1. TxFails(n)
        BY <1>5, <2>2 DEF Tick
      <3> QED
        BY <2>1, <3>1, TxFailsRouted
    <2>3. CASE call[n].count + 1 # Ticks
      <3> DEFINE c == [call[n] EXCEPT
                         !.count = call[n].count + 1,
                         !.at = IF AckQueue[n] = <<>> THEN "sleep" ELSE "select"]
      <3>1. call' = [call EXCEPT ![n] = c]
        BY <1>5, <2>3 DEF Tick
      <3>2. c.stage = call[n].stage /\ c.mac = call[n].mac /\ c.lag = call[n].lag
        BY <2>1 DEF Call
      <3> HIDE DEF c
      <3>3. Directed(n, c, txCount'[n])
        BY <2>1, <3>2 DEF RoutedInv, Directed
      <3> QED
        BY <2>1, <3>1, <3>3, CallRouted
    <2> QED
      BY <2>2, <2>3
  <1>6. ASSUME NEW n \in Nodes, DetectNodes(n)
        PROVE  RoutedInv'
    <2>1. PICK found \in Discoveries(n) :
            NodeAddrs' = [NodeAddrs EXCEPT ![n] = found]
      BY <1>6 DEF DetectNodes
    <2>2. \A i \in DOMAIN found : found[i] # n
      BY DEF Discoveries
    <2>3. \A m \in Nodes : NodeAddrs'[m] = IF m = n THEN found ELSE NodeAddrs[m]
      BY <2>1 DEF TypeInv, TypeOK
    <2> QED
      BY <1>6, <2>2, <2>3 DEF RoutedInv, DetectNodes
  <1>7. CASE UNCHANGED <<call, txCount, NodeAddrs>>
    BY <1>7 DEF RoutedInv
  <1> QED
    BY <1>1, <1>2, <1>3, <1>4, <1>5, <1>6, <1>7
    DEF Next, vars, WriteRefused, Receive, Enqueue, TakeData, SendAddrResp,
        Deliver, SendAck, Read

LEMMA RoutedInvariant == Spec => [](TypeInv /\ RoutedInv)
  <1>1. Init => RoutedInv
    <2>1. NoCall.stage = "idle"
      BY DEF NoCall
    <2> SUFFICES ASSUME Init, NEW n \in Nodes
                 PROVE  /\ \A i \in DOMAIN NodeAddrs[n] : NodeAddrs[n][i] # n
                        /\ Directed(n, call[n], txCount[n])
      BY Zenon DEF RoutedInv
    <2>2. NodeAddrs[n] = <<>> /\ call[n] = NoCall
      BY DEF Init
    <2>3. DOMAIN NodeAddrs[n] = {}
      BY <2>2
    <2> QED
      BY <2>1, <2>2, <2>3 DEF Directed
  <1> QED
    BY <1>1, NextRouted, TypeInvariant, PTL DEF Spec

-----------------------------------------------------------------------------
(* What the calls rest on. *)

(* The Writes that may have left transmissions without an answer behind. *)
Rough(n) ==
  {w \in DOMAIN writes[n] : writes[n][w].ip \in Nodes \ {n} => hindered[n][w]}

(* Transmissions that call c may still wait for, or has waited for in vain. *)
Load(c) ==
  IF c = NoCall THEN 0
  ELSE (IF c.stage = "relay" THEN 1 ELSE 0) + (IF c.at = "send" THEN 0 ELSE 1)

Bounded(n) ==
  /\ IsFiniteSet(Outstanding(n))
  /\ Cardinality(Outstanding(n)) <= 2 * Cardinality(Rough(n)) + Load(call[n])

(* The Write of n goes to another node, and nothing has hindered it. *)
Clear(n) ==
  /\ call[n] # NoCall /\ call[n].ip \in Nodes \ {n}
  /\ ~hindered[n][Len(writes[n]) + 1]

(* A wake-up for a reply that WaitForAck has not looked at yet. *)
Woken(n) == IF call[n].at = "select" /\ AckQueue[n] # <<>> THEN 1 ELSE 0

(* The answer to a clear Write is on its way, and every time the Write was *)
(* woken for nothing, one reply fewer is outstanding.                      *)
Awaits(n) ==
  Clear(n) =>
    /\ call[n].stage # "relay"
    /\ call[n].at = "send" => call[n].count = 0
    /\ InWait(n) =>
         /\ txCount[n] \in Outstanding(n)
         /\ call[n].count + Cardinality(Outstanding(n))
              <= 2 * Cardinality(Rough(n)) + 1 + Woken(n)

Unhindered(n) ==
  \A w \in DOMAIN writes[n] :
    writes[n][w].ip \in Nodes \ {n} /\ ~writes[n][w].ok => hindered[n][w]

NodeOK(n) == Bounded(n) /\ Awaits(n) /\ Unhindered(n)

HinderedOK == \A n \in Nodes : hindered[n] \in [1 .. MaxWrites[n] -> BOOLEAN]

WaitInv == HinderedOK /\ Single /\ \A n \in Nodes : NodeOK(n)

(* What RecordHindrance does at node n. *)
Recorded(n) ==
  /\ \A w \in DOMAIN writes[n] : hindered'[n][w] = hindered[n][w]
  /\ ~Mutex3Free(n) /\ (hindered[n][Len(writes[n]) + 1] \/ Hindrance(n))
       => hindered'[n][Len(writes[n]) + 1]

LEMMA WritesType ==
  ASSUME TypeInv, NEW n \in Nodes
  PROVE  /\ writes[n] \in Seq(Result) /\ Len(writes[n]) \in Nat
         /\ DOMAIN writes[n] = 1 .. Len(writes[n])
  BY LenProperties DEF TypeInv, TypeOK

LEMMA Hindering ==
  ASSUME TypeInv, CountInv, HinderedOK, RecordHindrance
  PROVE  HinderedOK' /\ \A n \in Nodes : Recorded(n)
  <1> SUFFICES ASSUME NEW n \in Nodes
               PROVE  /\ hindered'[n] \in [1 .. MaxWrites[n] -> BOOLEAN]
                      /\ Recorded(n)
    BY DEF HinderedOK
  <1> DEFINE l == Len(writes[n]) + 1
             h == hindered[n][l] \/ Hindrance(n)
  <1>1. /\ DOMAIN writes[n] = 1 .. l - 1 /\ l \in Nat \ {0}
        /\ MaxWrites[n] \in Nat
        /\ hindered[n] \in [1 .. MaxWrites[n] -> BOOLEAN]
    BY WritesType, NfdAssumption DEF HinderedOK
  <1>2. hindered'[n] = IF ~Mutex3Free(n) THEN [hindered[n] EXCEPT ![l] = h]
                       ELSE hindered[n]
    BY DEF RecordHindrance
  <1>3. h \in BOOLEAN
    OBVIOUS
  <1>4. ~Mutex3Free(n) => l \in 1 .. MaxWrites[n]
    <2>1. ~Mutex3Free(n) => Len(writes[n]) < MaxWrites[n]
      BY DEF CountInv, Counts
    <2> QED
      BY <1>1, <2>1
  <1>5. (hindered[n][l] \/ Hindrance(n)) => h
    OBVIOUS
  <1> HIDE DEF h, l
  <1>6. CASE Mutex3Free(n)
    BY <1>1, <1>2, <1>6 DEF Recorded
  <1>7. CASE ~Mutex3Free(n)
    <2>1. hindered'[n] = [hindered[n] EXCEPT ![l] = h]
      BY <1>2, <1>7
    <2>2. hindered'[n][l] = h
      BY <1>1, <1>4, <1>7, <2>1
    <2>3. \A w \in DOMAIN writes[n] : hindered'[n][w] = hindered[n][w]
      BY <1>1, <2>1
    <2>4. hindered'[n] \in [1 .. MaxWrites[n] -> BOOLEAN]
      BY <1>1, <1>3, <2>1
    <2> QED
      BY <1>5, <2>2, <2>3, <2>4 DEF Recorded, l
  <1> QED
    BY <1>6, <1>7

(* Finished Writes stay rough or not; one more returns. *)
LEMMA RoughFinite ==
  ASSUME TypeInv, NEW n \in Nodes
  PROVE  IsFiniteSet(Rough(n)) /\ Cardinality(Rough(n)) \in Nat
  <1>1. IsFiniteSet(1 .. Len(writes[n])) /\ Rough(n) \subseteq 1 .. Len(writes[n])
    <2>1. Len(writes[n]) \in Nat /\ DOMAIN writes[n] = 1 .. Len(writes[n])
      BY WritesType
    <2>2. IsFiniteSet(1 .. Len(writes[n]))
      BY <2>1, FS_Interval
    <2> QED
      BY <2>1, <2>2 DEF Rough
  <1> QED
    BY <1>1, FS_Subset, FS_CardinalityType

LEMMA RoughKept ==
  ASSUME TypeInv, NEW n \in Nodes, Recorded(n), writes'[n] = writes[n]
  PROVE  Rough(n)' = Rough(n)
  BY DEF Rough, Recorded

LEMMA RoughAppend ==
  ASSUME TypeInv, TypeInv', NEW n \in Nodes, Recorded(n), NEW r \in Result,
         writes'[n] = Append(writes[n], r), NEW w, w = Len(writes[n]) + 1
  PROVE  /\ Cardinality(Rough(n)) \in Nat /\ Cardinality(Rough(n)') \in Nat
         /\ Cardinality(Rough(n)) <= Cardinality(Rough(n)')
         /\ (r.ip \in Nodes \ {n} => hindered'[n][w])
              => Cardinality(Rough(n)') = Cardinality(Rough(n)) + 1
  <1>1. /\ writes[n] \in Seq(Result) /\ Len(writes[n]) \in Nat
        /\ DOMAIN writes[n] = 1 .. w - 1 /\ w \in Nat
    BY WritesType
  <1>2. /\ Len(writes'[n]) = w /\ DOMAIN writes'[n] = 1 .. w
        /\ \A i \in 1 .. w - 1 : writes'[n][i] = writes[n][i]
        /\ writes'[n][w] = r
    <2>1. /\ writes'[n] \in Seq(Result) /\ Len(writes'[n]) = Len(writes[n]) + 1
          /\ \A i \in 1 .. Len(writes[n]) : writes'[n][i] = writes[n][i]
          /\ writes'[n][Len(writes[n]) + 1] = r
      BY <1>1, AppendProperties
    <2> QED
      BY <1>1, <2>1, LenProperties
  <1>3. /\ Rough(n)' = IF r.ip \in Nodes \ {n} => hindered'[n][w]
                       THEN Rough(n) \cup {w} ELSE Rough(n)
        /\ w \notin Rough(n)
    <2>1. \A i : i \in 1 .. w <=> i \in 1 .. w - 1 \/ i = w
      BY <1>1
    <2>2. w \notin 1 .. w - 1
      BY <1>1
    <2>3. \A i \in 1 .. w - 1 : i \in Rough(n)' <=> i \in Rough(n)
      BY <1>1, <1>2, <2>1 DEF Rough, Recorded
    <2>4. w \in Rough(n)' <=> (r.ip \in Nodes \ {n} => hindered'[n][w])
      BY <1>2, <2>1 DEF Rough
    <2>5. Rough(n) \subseteq 1 .. w - 1 /\ Rough(n)' \subseteq 1 .. w
      BY <1>1, <1>2 DEF Rough
    <2> DEFINE R == Rough(n)
               R1 == Rough(n)'
               in == r.ip \in Nodes \ {n} => hindered'[n][w]
    <2> HIDE DEF R, R1, in
    <2>6. /\ \A i \in 1 .. w - 1 : i \in R1 <=> i \in R
          /\ w \in R1 <=> in
          /\ R \subseteq 1 .. w - 1 /\ R1 \subseteq 1 .. w
      BY <2>3, <2>4, <2>5 DEF R, R1, in
    <2>7. /\ in => R1 = R \cup {w}
          /\ ~in => R1 = R
          /\ w \notin R
      BY <2>1, <2>2, <2>6
    <2>8. R1 = (IF in THEN R \cup {w} ELSE R) /\ w \notin R
      BY <2>7
    <2> QED
      BY <2>8 DEF R, R1, in
  <1>4. IsFiniteSet(Rough(n)) /\ Cardinality(Rough(n)) \in Nat
    BY RoughFinite
  <1>5. Cardinality(Rough(n) \cup {w}) = Cardinality(Rough(n)) + 1
    BY <1>3, <1>4, FS_AddElement
  <1> QED
    BY <1>3, <1>4, <1>5

-----------------------------------------------------------------------------
(* While the answer to a call is still to come, some node can go on. *)

(* PacketHandler has something to do at m. *)
LEMMA HandlerGoesOn ==
  ASSUME TypeInv, NEW m \in Nodes, handler[m] # Waiting \/ DataQueue[m] # <<>>,
         handler[m].pc = "addr" => Mutex3Free(m)
  PROVE  CanStep(m)
  <1>1. /\ handler[m] = Waiting \/ handler[m].pc \in {"addr", "data", "ack"}
        /\ Len(RxData[m]) <= RxCap /\ RxCap \in Nat \ {0}
        /\ RxData[m] \in Seq([src: Nodes, w: Nat])
    BY NfdAssumption DEF TypeInv, TypeOK
  <1>2. CASE handler[m] = Waiting
    BY <1>2 DEF CanStep
  <1>3. CASE handler[m].pc = "addr"
    BY <1>3 DEF CanStep
  <1>4. CASE handler[m].pc = "data"
    <2>1. CASE RxData[m] = <<>>
      <3>1. Len(RxData[m]) = 0
        BY <2>1, EmptySeq
      <3> QED
        BY <1>1, <1>4, <3>1 DEF CanStep
    <2>2. CASE RxData[m] # <<>>
      BY <2>2 DEF CanStep
    <2> QED
      BY <2>1, <2>2
  <1>5. CASE handler[m].pc = "ack"
    BY <1>5 DEF CanStep
  <1> QED
    BY <1>1, <1>2, <1>3, <1>4, <1>5

(* Receiver holds a packet at m. *)
LEMMA ReceiverGoesOn ==
  ASSUME TypeInv, NEW m \in Nodes, received[m] # NoPacket, ~CanStep(m)
  PROVE  IF IsReply(received[m])
         THEN received[m].type \in AckTypes /\ Len(AckQueue[m]) = AckCap
              /\ AckQueue[m] # <<>>
         ELSE received[m].type \in DataTypes /\ Len(DataQueue[m]) = DataCap
              /\ DataQueue[m] # <<>>
  <1>1. /\ received[m] \in Packet
        /\ Len(AckQueue[m]) <= AckCap /\ Len(DataQueue[m]) <= DataCap
        /\ AckCap \in Nat \ {0} /\ DataCap \in Nat \ {0}
        /\ AckQueue[m] \in Seq(Replies) /\ DataQueue[m] \in Seq(Requests)
    BY NfdAssumption DEF TypeInv, TypeOK
  <1>2. /\ AckQueue[m] = <<>> => Len(AckQueue[m]) = 0
        /\ DataQueue[m] = <<>> => Len(DataQueue[m]) = 0
    BY EmptySeq
  <1>3. Len(AckQueue[m]) \in Nat /\ Len(DataQueue[m]) \in Nat
    BY <1>1, LenProperties
  <1>4. received[m].type \in AckTypes \cup DataTypes
    BY <1>1 DEF Packet
  <1>5. CASE IsReply(received[m])
    <2>1. ~(Len(AckQueue[m]) < AckCap)
      BY <1>5 DEF CanStep
    <2>2. Len(AckQueue[m]) = AckCap
      BY <1>1, <1>3, <2>1
    <2> QED
      BY <1>1, <1>2, <1>5, <2>2 DEF IsReply
  <1>6. CASE ~IsReply(received[m])
    <2>1. ~(Len(DataQueue[m]) < DataCap)
      BY <1>6 DEF CanStep
    <2>2. Len(DataQueue[m]) = DataCap
      BY <1>1, <1>3, <2>1
    <2> QED
      BY <1>1, <1>2, <1>4, <1>6, <2>2 DEF IsReply
  <1> QED
    BY <1>5, <1>6

LEMMA Quiescence ==
  ASSUME TypeInv, PacketsGood, Single, NEW n \in Nodes, call[n].at = "sleep",
         NEW id \in Outstanding(n), ~Hindrance(n)
  PROVE  Busy
  <1> SUFFICES ASSUME ~Busy PROVE FALSE
    OBVIOUS
  <1>1. /\ \A m \in Nodes : ~CanStep(m)
        /\ AckQueue[n] = <<>>
    BY DEF Busy, WakesUp
  <1>2. PICK x \in Standing : About(x.p, n, id)
    BY DEF Outstanding, Awaited
  <1> DEFINE p == x.p
             m == x.m
  <1>3. /\ x \in Spots /\ Stands(x) /\ m \in Nodes /\ x.k \in Nat
        /\ p \in Packet /\ p # NoPacket
    BY NoPacketAssumption DEF Standing, Spots
  <1>4. /\ p.to = m
        /\ IsReply(p) => m = n
        /\ ~IsReply(p) => m # n
    BY <1>2, StandingHeld DEF About, Requester, Single, SingleIn
  <1>5. \A k \in Nodes \ {n} : Mutex3Free(k) /\ ~Deaf(k)
    BY DEF Hindrance
  <1>6. ~Clogged(n)
    BY DEF Hindrance
  <1> HIDE DEF p, m
  (* No node's handler is stuck with a request. *)
  <1>7. ASSUME m # n PROVE handler[m] = Waiting /\ DataQueue[m] = <<>>
    BY <1>1, <1>3, <1>5, <1>7, HandlerGoesOn
  <1>8. CASE received[m] # NoPacket
    <2>1. CASE IsReply(received[m])
      <3>1. /\ received[m].type \in AckTypes /\ Len(AckQueue[m]) = AckCap
            /\ AckQueue[m] # <<>>
        BY <1>1, <1>3, <1>8, <2>1, ReceiverGoesOn
      <3>2. m # n
        BY <1>1, <3>1
      <3> QED
        BY <1>3, <1>5, <1>8, <3>1, <3>2 DEF Deaf
    <2>2. CASE ~IsReply(received[m])
      <3>1. /\ received[m].type \in DataTypes /\ Len(DataQueue[m]) = DataCap
            /\ DataQueue[m] # <<>>
        BY <1>1, <1>3, <1>8, <2>2, ReceiverGoesOn
      <3>2. m = n
        BY <1>7, <3>1
      <3>3. handler[n].pc # "addr"
        BY <1>6, <1>8, <3>1, <3>2 DEF Clogged
      <3> QED
        BY <1>1, <3>1, <3>2, <3>3, HandlerGoesOn
    <2> QED
      BY <2>1, <2>2
  <1>9. CASE received[m] = NoPacket
    <2>1. ~(\E r \in air : r.to = m)
      BY <1>1, <1>3, <1>9 DEF CanStep
    <2>2. CASE x.q = "air"
      BY <1>3, <1>4, <2>1, <2>2 DEF Stands, p, m
    <2>3. CASE x.q = "ack"
      <3>1. /\ IsReply(p) /\ m = n
            /\ p = Place([pc |-> "data", p |-> NoPacket], AckQueue[m],
                         received[m], x.k)
        BY <1>3, <1>4, <2>3 DEF Stands, AckLine, InQueue, p, m
      <3>2. AckQueue[m] = <<>> /\ Len(AckQueue[m]) = 0
        BY <1>1, <3>1, EmptySeq
      <3> QED
        BY <1>3, <1>9, <3>1, <3>2 DEF Place
    <2>4. CASE x.q = "data"
      <3>1. /\ ~IsReply(p) /\ m # n
            /\ p = Place([pc |-> "data", p |-> handler[m].p], DataQueue[m],
                         received[m], x.k)
        BY <1>3, <1>4, <2>4 DEF Stands, DataLine, InQueue, p, m
      <3>2. DataQueue[m] = <<>> /\ Len(DataQueue[m]) = 0 /\ handler[m].p = NoPacket
        BY <1>7, <3>1, EmptySeq DEF Waiting
      <3> QED
        BY <1>3, <1>9, <3>1, <3>2 DEF Place
    <2> QED
      BY <1>3, <2>2, <2>3, <2>4 DEF Stands
  <1> QED
    BY <1>8, <1>9

-----------------------------------------------------------------------------
(* A step of one node, as it looks from there and from the other nodes. *)

LEMMA ClearKept ==
  ASSUME NEW n \in Nodes, Recorded(n), ~Mutex3Free(n), writes'[n] = writes[n],
         call'[n].ip = call[n].ip, Clear(n)'
  PROVE  Clear(n) /\ ~Hindrance(n)
  BY DEF Clear, Recorded, Mutex3Free

LEMMA UnhinderedKept ==
  ASSUME NEW n \in Nodes, Recorded(n), writes'[n] = writes[n], Unhindered(n)
  PROVE  Unhindered(n)'
  BY DEF Unhindered, Recorded

(* The numbers that Bounded and Awaits are about. *)
LEMMA Sizes ==
  ASSUME TypeInv, NEW n \in Nodes, NodeOK(n)
  PROVE  /\ IsFiniteSet(Outstanding(n)) /\ IsFiniteSet(Rough(n))
         /\ Cardinality(Outstanding(n)) \in Nat
         /\ Cardinality(Rough(n)) \in Nat
         /\ Load(call[n]) \in 0 .. 2
         /\ Cardinality(Outstanding(n)) <= 2 * Cardinality(Rough(n)) + Load(call[n])
         /\ Woken(n) \in 0 .. 1
  <1>1. IsFiniteSet(Outstanding(n)) /\ Cardinality(Outstanding(n)) \in Nat
    BY FS_CardinalityType DEF NodeOK, Bounded
  <1>2. Load(call[n]) \in 0 .. 2 /\ Woken(n) \in 0 .. 1
    BY DEF Load, Woken
  <1> QED
    BY <1>1, <1>2, RoughFinite DEF NodeOK, Bounded

(* A step elsewhere, at most with one more reply in AckQueue. *)
LEMMA Bystander ==
  ASSUME TypeInv, NEW n \in Nodes, NodeOK(n), Recorded(n),
         call'[n] = call[n], writes'[n] = writes[n], txCount'[n] = txCount[n],
         Outstanding(n)' = Outstanding(n),
         AckQueue'[n] = <<>> => AckQueue[n] = <<>>
  PROVE  NodeOK(n)'
  <1>1. Rough(n)' = Rough(n)
    BY RoughKept
  <1>2. Bounded(n)'
    BY <1>1 DEF NodeOK, Bounded
  <1>3. Awaits(n)'
    <2> DEFINE o == Cardinality(Outstanding(n))
               r == Cardinality(Rough(n))
    <2>1. /\ o \in Nat /\ r \in Nat
          /\ Woken(n) \in 0 .. 1 /\ Woken(n)' \in 0 .. 1 /\ Woken(n) <= Woken(n)'
      <3>1. Woken(n) \in 0 .. 1 /\ Woken(n)' \in 0 .. 1 /\ Woken(n) <= Woken(n)'
        BY DEF Woken
      <3> QED
        BY <3>1, Sizes
    <2> SUFFICES ASSUME Clear(n)'
                 PROVE  /\ call'[n].stage # "relay"
                        /\ call'[n].at = "send" => call'[n].count = 0
                        /\ InWait(n)' =>
                             /\ txCount'[n] \in Outstanding(n)'
                             /\ call'[n].count + Cardinality(Outstanding(n)')
                                  <= 2 * Cardinality(Rough(n)') + 1 + Woken(n)'
      BY DEF Awaits
    <2>2. Clear(n)
      BY ClearKept DEF Clear, Mutex3Free
    <2>3. /\ call[n].stage # "relay"
          /\ call[n].at = "send" => call[n].count = 0
          /\ InWait(n) => /\ txCount[n] \in Outstanding(n)
                          /\ call[n].count + o <= 2 * r + 1 + Woken(n)
      BY <2>2 DEF NodeOK, Awaits
    <2>4. InWait(n)' <=> InWait(n)
      BY DEF InWait
    <2>5. InWait(n) => call[n].count \in Nat
      BY NfdAssumption, InSend DEF InWait, Call, TypeInv, TypeOK
    <2> HIDE DEF o, r
    <2>6. InWait(n) => call[n].count + o <= 2 * r + 1 + Woken(n)'
      BY <2>1, <2>3, <2>5
    <2> QED
      BY <1>1, <2>3, <2>4, <2>6 DEF o, r
  <1> QED
    BY <1>2, <1>3, UnhinderedKept DEF NodeOK

(* A Write returns. *)
LEMMA ReturnOK ==
  ASSUME TypeInv, TypeInv', NEW n \in Nodes, NodeOK(n), Recorded(n),
         call[n] \in Call, call'[n] = NoCall, NEW r \in Result,
         r.ip = call[n].ip, writes'[n] = Append(writes[n], r),
         IsFiniteSet(Outstanding(n)'),
         IF r.ok THEN Cardinality(Outstanding(n)') < Cardinality(Outstanding(n))
         ELSE /\ Cardinality(Outstanding(n)') <= Cardinality(Outstanding(n))
              /\ r.ip \in Nodes \ {n} => hindered'[n][Len(writes[n]) + 1]
  PROVE  NodeOK(n)'
  <1> DEFINE w == Len(writes[n]) + 1
             o == Cardinality(Outstanding(n))
             o1 == Cardinality(Outstanding(n)')
             R == Cardinality(Rough(n))
             R1 == Cardinality(Rough(n)')
             hid == r.ip \in Nodes \ {n} => hindered'[n][w]
  <1>1. ~Mutex3Free(n)
    BY DEF Mutex3Free, NoCall, Call, Stages
  <1>2. /\ o \in Nat /\ R \in Nat /\ Load(call[n]) \in 0 .. 2
        /\ o <= 2 * R + Load(call[n])
    BY Sizes
  <1>3. o1 \in Nat
    BY FS_CardinalityType
  <1>4. R1 \in Nat /\ R <= R1 /\ (hid => R1 = R + 1)
    BY RoughAppend
  <1>5. ~hid => Load(call[n]) <= 1
    <2> SUFFICES ASSUME ~hid PROVE Load(call[n]) <= 1
      OBVIOUS
    <2>1. Clear(n)
      BY <1>1 DEF Recorded, Clear, Mutex3Free
    <2>2. call[n].stage # "relay"
      BY <2>1 DEF NodeOK, Awaits
    <2> QED
      BY <2>2 DEF Load
  <1>6. (r.ok => o1 < o) /\ o1 <= o /\ (~r.ok => hid)
    BY <1>2, <1>3
  <1> HIDE DEF o, o1, R, R1, hid
  <1>7. o1 <= 2 * R1
    <2>1. CASE hid
      BY <1>2, <1>3, <1>4, <1>6, <2>1
    <2>2. CASE ~hid
      BY <1>2, <1>3, <1>4, <1>5, <1>6, <2>2
    <2> QED
      BY <2>1, <2>2
  <1>8. Bounded(n)'
    <2>1. Load(call[n])' = 0
      BY DEF Load
    <2>2. 2 * R1 \in Nat
      BY <1>4
    <2>3. o1 <= 2 * R1 + 0
      BY <1>7, <2>2
    <2> QED
      BY <2>1, <2>3 DEF Bounded, o1, R1
  <1>9. Awaits(n)'
    BY DEF Awaits, Clear
  <1>10. Unhindered(n)'
    <2>1. /\ writes[n] \in Seq(Result) /\ Len(writes[n]) \in Nat
          /\ DOMAIN writes[n] = 1 .. Len(writes[n])
      BY WritesType
    <2>2. /\ writes'[n] \in Seq(Result) /\ Len(writes'[n]) = w
          /\ \A i \in 1 .. Len(writes[n]) : writes'[n][i] = writes[n][i]
          /\ writes'[n][w] = r
      BY <2>1, AppendProperties
    <2> SUFFICES ASSUME NEW i \in DOMAIN writes'[n],
                        writes'[n][i].ip \in Nodes \ {n}, ~writes'[n][i].ok
                 PROVE  hindered'[n][i]
      BY DEF Unhindered
    <2>3. i \in 1 .. Len(writes[n]) \/ i = w
      BY <2>1, <2>2
    <2>4. CASE i \in 1 .. Len(writes[n])
      BY <2>1, <2>2, <2>4 DEF NodeOK, Unhindered, Recorded
    <2>5. CASE i = w
      BY <1>6, <2>2, <2>5 DEF hid
    <2> QED
      BY <2>3, <2>4, <2>5
  <1> QED
    BY <1>8, <1>9, <1>10 DEF NodeOK

-----------------------------------------------------------------------------
(* The steps of a call, at its node. *)

(* The wait of a call moves on, or a new Tx begins. *)
LEMMA CallGoesOn ==
  ASSUME TypeInv, NEW n \in Nodes, NodeOK(n), Recorded(n),
         call[n] \in Call, NEW c \in Call, call'[n] = c,
         writes'[n] = writes[n], IsFiniteSet(Outstanding(n)'),
         Cardinality(Outstanding(n)') <= 2 * Cardinality(Rough(n)) + Load(c),
         (Clear(n) /\ ~Hindrance(n) /\ c.ip = call[n].ip) => Awaits(n)',
         c.ip = call[n].ip
  PROVE  NodeOK(n)'
  <1>1. ~Mutex3Free(n)
    BY DEF Mutex3Free, NoCall, Call, Stages
  <1>2. Rough(n)' = Rough(n)
    BY RoughKept
  <1>3. Bounded(n)'
    BY <1>2 DEF Bounded
  <1>4. Awaits(n)'
    <2>1. CASE Clear(n)'
      BY <1>1, <2>1, ClearKept
    <2>2. CASE ~Clear(n)'
      BY <2>2 DEF Awaits
    <2> QED
      BY <2>1, <2>2
  <1> QED
    BY <1>3, <1>4, UnhinderedKept DEF NodeOK

LEMMA WriteOK ==
  ASSUME TypeInv, NEW n \in Nodes, NEW ip \in Ips, Write(n, ip),
         NodeOK(n), Recorded(n)
  PROVE  NodeOK(n)' /\ Standing' = Standing
  <1> DEFINE c == Route(n, ip)
             o == Cardinality(Outstanding(n))
  <1>1. /\ call[n] = NoCall /\ call'[n] = c /\ writes' = writes
        /\ Standing' = Standing
    <2>1. call' = [call EXCEPT ![n] = c] /\ call[n] = NoCall
      BY DEF Write, Mutex3Free
    <2>2. UNCHANGED <<writes, air, received, AckQueue, DataQueue, handler>>
      BY DEF Write, queueVars, handlerVars
    <2> HIDE DEF c
    <2>3. call'[n] = c
      BY <2>1 DEF TypeInv, TypeOK
    <2> QED
      BY <2>1, <2>2, <2>3, NothingMoves
  <1>2. Outstanding(n)' = Outstanding(n) /\ Rough(n)' = Rough(n)
    BY <1>1, RoughKept DEF Outstanding
  <1>3. c # NoCall /\ c.at = "send" /\ c.count = 0 /\ c.stage # "relay"
    BY DEF Route, StartTx, NoCall
  <1>4. Load(call[n]) = 0 /\ Load(c) = 0
    BY <1>1, <1>3 DEF Load
  <1> HIDE DEF c
  <1>5. Bounded(n)'
    BY <1>1, <1>2, <1>4 DEF NodeOK, Bounded
  <1>6. Awaits(n)'
    BY <1>1, <1>3 DEF Awaits, InWait
  <1> QED
    BY <1>1, <1>5, <1>6, UnhinderedKept DEF NodeOK

LEMMA FallAsleepOK ==
  ASSUME TypeInv, NEW n \in Nodes, FallAsleep(n), NodeOK(n), Recorded(n)
  PROVE  NodeOK(n)' /\ Standing' = Standing
  <1> DEFINE c == [call[n] EXCEPT !.at = "sleep"]
  <1>1. /\ call[n] \in Call /\ call[n].at = "select" /\ AckQueue[n] = <<>>
        /\ call' = [call EXCEPT ![n] = c]
        /\ UNCHANGED <<writes, air, received, AckQueue, DataQueue, handler, txCount>>
    BY InSend DEF FallAsleep, queueVars, handlerVars, TypeInv, TypeOK
  <1>2. /\ c \in Call /\ c.stage = call[n].stage /\ c.ip = call[n].ip
        /\ c.count = call[n].count /\ c.at = "sleep"
    BY <1>1 DEF Call
  <1> HIDE DEF c
  <1>3. call'[n] = c /\ Standing' = Standing
    BY <1>1, NothingMoves DEF TypeInv, TypeOK
  <1>4. Outstanding(n)' = Outstanding(n) /\ Rough(n)' = Rough(n)
    BY <1>1, <1>3, RoughKept DEF Outstanding
  <1>5. Load(c) = Load(call[n])
    <2>1. c # NoCall /\ call[n] # NoCall
      BY <1>1, <1>2 DEF NoCall, Call, Stages
    <2> QED
      BY <1>1, <1>2, <2>1 DEF Load
  <1>6. Woken(n)' = 0 /\ Woken(n) = 0
    BY <1>1, <1>2, <1>3 DEF Woken
  <1>7. Clear(n) => Awaits(n)'
    BY <1>1, <1>2, <1>3, <1>4, <1>6 DEF NodeOK, Awaits, InWait
  <1>8. IsFiniteSet(Outstanding(n)')
        /\ Cardinality(Outstanding(n)') <= 2 * Cardinality(Rough(n)) + Load(c)
    BY <1>4, <1>5, Sizes
  <1>9. writes'[n] = writes[n]
    BY <1>1
  <1>10. NodeOK(n)'
    BY <1>1, <1>2, <1>3, <1>7, <1>8, <1>9, CallGoesOn
  <1> QED
    BY <1>3, <1>10

LEMMA TransmitOK ==
  ASSUME TypeInv, PacketsGood, AddressesRight, ResolvedHasMac, OneTarget,
         RoutedInv, Single, ~Lossy, NEW n \in Nodes, Transmit(n),
         NodeOK(n), Recorded(n),
         call[n].stage = "resolved" => call[n].lag < SeqMod
  PROVE  /\ NodeOK(n)' /\ Single'
         /\ \A m : m # n => Outstanding(m)' = Outstanding(m)
  <1> DEFINE c == [call[n] EXCEPT !.at = "select"]
             id == txCount[n] + 1
             o == Cardinality(Outstanding(n))
             o1 == Cardinality(Outstanding(n)')
             R == Cardinality(Rough(n))
  <1>1. /\ call[n] \in Call /\ call[n].at = "send"
        /\ call' = [call EXCEPT ![n] = c]
        /\ txCount' = [txCount EXCEPT ![n] = id] /\ writes' = writes
    BY InSend DEF Transmit, TypeInv, TypeOK
  <1>2. /\ c \in Call /\ c.stage = call[n].stage /\ c.ip = call[n].ip
        /\ c.count = call[n].count /\ c.at = "select" /\ c.count \in Nat
    BY <1>1, NfdAssumption DEF Call
  <1> HIDE DEF c
  <1>3. call'[n] = c /\ txCount'[n] = id /\ writes'[n] = writes[n]
    BY <1>1 DEF TypeInv, TypeOK
  <1>4. /\ Single' /\ \A m : m # n => Outstanding(m)' = Outstanding(m)
        /\ id \notin Outstanding(n)
        /\ Outstanding(n)' \subseteq Outstanding(n) \cup {id}
        /\ Targeted(n) => id \in Outstanding(n)'
    BY TransmitMoves
  <1>5. IsFiniteSet(Outstanding(n)') /\ o1 \in Nat /\ o \in Nat /\ o1 <= o + 1
    <2>1. IsFiniteSet(Outstanding(n)) /\ o \in Nat
      BY Sizes
    <2>2. /\ IsFiniteSet(Outstanding(n) \cup {id})
          /\ Cardinality(Outstanding(n) \cup {id}) = o + 1
      BY <1>4, <2>1, FS_AddElement
    <2>3. /\ IsFiniteSet(Outstanding(n)')
          /\ Cardinality(Outstanding(n)') <= Cardinality(Outstanding(n) \cup {id})
      BY <1>4, <2>2, FS_Subset
    <2>4. o1 \in Nat
      BY <2>3, FS_CardinalityType
    <2> QED
      BY <2>1, <2>2, <2>3, <2>4
  <1>6. Load(c) = Load(call[n]) + 1
    <2>1. c # NoCall /\ call[n] # NoCall
      BY <1>1, <1>2 DEF NoCall, Call, Stages
    <2> QED
      BY <1>1, <1>2, <2>1 DEF Load
  <1>7. R \in Nat /\ o <= 2 * R + Load(call[n]) /\ Load(call[n]) \in 0 .. 2
    BY Sizes
  <1>8. o1 <= 2 * R + Load(c)
    <2> HIDE DEF o, o1, R
    <2> QED
      BY <1>5, <1>6, <1>7
  <1>9. ASSUME Clear(n)
        PROVE  Awaits(n)'
    <2>1. call[n].stage # "relay" /\ call[n].count = 0 /\ call[n].ip \in Nodes \ {n}
      BY <1>1, <1>9 DEF NodeOK, Awaits, Clear
    <2>2. Targeted(n)
      <3>1. call[n].stage \in {"direct", "server", "resolve", "resolved"}
        BY <1>1, <2>1 DEF Call, Stages
      <3>2. CASE call[n].stage = "direct"
        BY <2>1, <3>2 DEF Targeted, AddressesRight
      <3>3. CASE call[n].stage = "server"
        BY <2>1, <3>3 DEF Targeted, RoutedInv, Directed
      <3>4. CASE call[n].stage = "resolve"
        BY <2>1, <3>4 DEF Targeted, RoutedInv, Directed
      <3>5. CASE call[n].stage = "resolved"
        <4>1. call[n].lag \in Int /\ SeqMod \in Nat
          BY <1>1, NfdAssumption DEF Call
        <4>2. call[n].mac = call[n].ip
          BY <3>5, <4>1 DEF ResolvedHasMac
        <4> QED
          BY <2>1, <3>5, <4>2 DEF Targeted
      <3> QED
        BY <3>1, <3>2, <3>3, <3>4, <3>5
    <2>3. id \in Outstanding(n)'
      BY <1>4, <2>2
    <2>4. Load(call[n]) = 0
      BY <1>1, <2>1 DEF Load
    <2>5. Rough(n)' = Rough(n)
      BY <1>3, RoughKept
    <2>6. Woken(n)' \in 0 .. 1
      BY DEF Woken
    <2>7. c.count + o1 <= 2 * R + 1 + Woken(n)'
      <3>1. o1 <= 2 * R + 1 /\ c.count = 0
        <4> HIDE DEF o, o1, R
        <4> QED
          BY <1>2, <1>5, <1>7, <2>1, <2>4
      <3> HIDE DEF o1, R
      <3> QED
        BY <1>5, <1>7, <2>6, <3>1
    <2> QED
      BY <1>2, <1>3, <2>1, <2>3, <2>5, <2>7 DEF Awaits
  <1>10. NodeOK(n)'
    BY <1>1, <1>2, <1>3, <1>5, <1>8, <1>9, CallGoesOn
  <1> QED
    BY <1>4, <1>10

(* The last wake-up of a wait is not that of a clear Write. *)
LEMMA NoLastTick ==
  ASSUME TypeInv, PacketsGood, Single, NEW n \in Nodes, Tick(n),
         WakesUp(n) \/ ~Busy, NodeOK(n), Clear(n), ~Hindrance(n),
         2 * Cardinality(Rough(n)) + 2 <= Ticks
  PROVE  call[n].count + 1 < Ticks /\ AckQueue[n] # <<>>
  <1> DEFINE o == Cardinality(Outstanding(n))
             R == Cardinality(Rough(n))
  <1>1. call[n].at = "sleep" /\ call[n] \in Call
    BY InSend DEF Tick, TypeInv, TypeOK
  <1>2. Woken(n) = 0 /\ InWait(n)
    BY <1>1 DEF Woken, InWait
  <1>3. txCount[n] \in Outstanding(n) /\ call[n].count + o <= 2 * R + 1 + Woken(n)
    BY <1>2 DEF NodeOK, Awaits
  <1>4. AckQueue[n] # <<>>
    <2>1. Busy
      BY <1>1, <1>3, Quiescence
    <2> QED
      BY <2>1 DEF WakesUp
  <1>5. o \in Nat /\ R \in Nat /\ IsFiniteSet(Outstanding(n))
    BY Sizes
  <1>6. o # 0
    BY <1>3, <1>5, FS_EmptySet
  <1>7. call[n].count \in Nat /\ Ticks \in Nat
    BY <1>1, NfdAssumption DEF Call
  <1> HIDE DEF o
  <1>8. 2 * R + 2 <= Ticks
    OBVIOUS
  <1> HIDE DEF R
  <1>9. call[n].count + 1 < Ticks
    BY <1>2, <1>3, <1>5, <1>6, <1>7, <1>8
  <1> QED
    BY <1>4, <1>9

LEMMA TickOK ==
  ASSUME TypeInv, TypeInv', PacketsGood, Single, NEW n \in Nodes, Tick(n),
         WakesUp(n) \/ ~Busy, NodeOK(n), Recorded(n),
         2 * Cardinality(Rough(n)) + 2 <= Ticks
  PROVE  NodeOK(n)' /\ Standing' = Standing
  <1> DEFINE o == Cardinality(Outstanding(n))
             R == Cardinality(Rough(n))
  <1>1. /\ call[n].at = "sleep" /\ call[n] \in Call
        /\ UNCHANGED <<air, received, AckQueue, DataQueue, handler, txCount>>
    BY InSend DEF Tick, queueVars, handlerVars, TypeInv, TypeOK
  <1>2. Standing' = Standing /\ Outstanding(n)' = Outstanding(n)
    BY <1>1, NothingMoves DEF Outstanding
  <1>3. /\ o \in Nat /\ R \in Nat /\ IsFiniteSet(Outstanding(n))
        /\ Load(call[n]) \in 0 .. 2 /\ o <= 2 * R + Load(call[n])
    BY Sizes
  <1>4. call[n] # NoCall /\ ~Mutex3Free(n)
    BY <1>1 DEF NoCall, Call, Stages, Mutex3Free
  <1>5. CASE call[n].count + 1 = Ticks
    <2>1. ~(Clear(n) /\ ~Hindrance(n))
      <3>1. Ticks \in Nat
        BY NfdAssumption
      <3> QED
        BY <1>5, <3>1, NoLastTick
    <2>2. TxFails(n)
      BY <1>5 DEF Tick
    <2>3. CASE call[n].stage = "resolve" /\ NodeAddrs[n] # <<>>
      <3> DEFINE c == StartTx("relay", call[n].ip, NodeAddrs[n][1], 0)
      <3>1. call' = [call EXCEPT ![n] = c] /\ writes' = writes
        BY <2>2, <2>3 DEF TxFails
      <3>2. c # NoCall /\ c.stage = "relay" /\ c.at = "send" /\ c.ip = call[n].ip
        BY DEF StartTx, NoCall
      <3> HIDE DEF c
      <3>3. call'[n] = c
        BY <3>1 DEF TypeInv, TypeOK
      <3>4. c \in Call
        BY <3>2, <3>3 DEF TypeInv, TypeOK
      <3>5. Load(c) = 1 /\ Load(call[n]) = 1
        BY <1>1, <1>4, <2>3, <3>2 DEF Load
      <3>6. Cardinality(Outstanding(n)') <= 2 * Cardinality(Rough(n)) + Load(c)
        BY <1>2, <1>3, <3>5
      <3>7. NodeOK(n)'
        BY <1>1, <1>2, <1>3, <2>1, <3>1, <3>2, <3>3, <3>4, <3>6, CallGoesOn
      <3> QED
        BY <1>2, <3>7
    <2>4. CASE ~(call[n].stage = "resolve" /\ NodeAddrs[n] # <<>>)
      <3> DEFINE r == [ip |-> call[n].ip, ok |-> FALSE, lag |-> 0]
      <3>1. /\ call' = [call EXCEPT ![n] = NoCall]
            /\ writes' = [writes EXCEPT ![n] = Append(@, r)]
        BY <2>2, <2>4 DEF TxFails, Return
      <3>2. r \in Result /\ r.ip = call[n].ip /\ r.ok = FALSE
        BY <1>1 DEF Result, Call
      <3> HIDE DEF r
      <3>3. call'[n] = NoCall /\ writes'[n] = Append(writes[n], r)
        BY <3>1 DEF TypeInv, TypeOK
      <3>4. r.ip \in Nodes \ {n} => hindered'[n][Len(writes[n]) + 1]
        BY <1>4, <2>1, <3>2 DEF Recorded, Clear
      <3>5. Cardinality(Outstanding(n)') <= Cardinality(Outstanding(n))
        BY <1>2, <1>3
      <3>6. NodeOK(n)'
        BY <1>1, <1>2, <1>3, <3>2, <3>3, <3>4, <3>5, ReturnOK
      <3> QED
        BY <1>2, <3>6
    <2> QED
      BY <2>3, <2>4
  <1>6. CASE call[n].count + 1 # Ticks
    <2> DEFINE c == [call[n] EXCEPT
                       !.count = call[n].count + 1,
                       !.at = IF AckQueue[n] = <<>> THEN "sleep" ELSE "select"]
    <2>1. call' = [call EXCEPT ![n] = c] /\ writes' = writes
      BY <1>6 DEF Tick
    <2>2. /\ c.stage = call[n].stage /\ c.ip = call[n].ip
          /\ c.count = call[n].count + 1 /\ c.at # "send" /\ c # NoCall
          /\ c.at = IF AckQueue[n] = <<>> THEN "sleep" ELSE "select"
          /\ call[n].count \in Nat
      <3>1. call[n].stage \in Stages /\ NoCall.stage \notin Stages
        BY <1>1 DEF Call, NoCall, Stages
      <3>2. Ticks \in Nat /\ call[n].count \in Nat
        BY <1>1, NfdAssumption DEF Call
      <3>3. /\ c.stage = call[n].stage /\ c.ip = call[n].ip
            /\ c.count = call[n].count + 1
            /\ c.at = IF AckQueue[n] = <<>> THEN "sleep" ELSE "select"
        BY <1>1 DEF Call
      <3> HIDE DEF c
      <3>4. c # NoCall
        BY <3>1, <3>3
      <3> QED
        BY <3>2, <3>3, <3>4
    <2> HIDE DEF c
    <2>3. call'[n] = c /\ writes'[n] = writes[n]
      BY <2>1 DEF TypeInv, TypeOK
    <2>4. c \in Call
      BY <2>2, <2>3 DEF TypeInv, TypeOK
    <2>5. Load(c) = Load(call[n])
      BY <1>1, <1>4, <2>2 DEF Load
    <2>6. ASSUME Clear(n), ~Hindrance(n)
          PROVE  Awaits(n)'
      <3>1. AckQueue[n] # <<>>
        BY <2>6, NoLastTick
      <3>2. Woken(n)' = 1 /\ Woken(n) = 0
        BY <1>1, <2>2, <2>3, <3>1 DEF Woken
      <3>3. InWait(n)
        BY <1>1 DEF InWait
      <3>4. /\ call[n].stage # "relay" /\ txCount[n] \in Outstanding(n)
            /\ call[n].count + o <= 2 * R + 1 + Woken(n)
        BY <2>6, <3>3 DEF NodeOK, Awaits
      <3>5. Rough(n)' = Rough(n)
        BY <2>3, RoughKept
      <3>6. c.count + o <= 2 * R + 1 + Woken(n)'
        <4>1. call[n].count + o <= 2 * R + 1 /\ call[n].count \in Nat
              /\ o \in Nat /\ R \in Nat
          BY <1>3, <2>2, <3>2, <3>4
        <4> HIDE DEF o, R
        <4>2. (call[n].count + 1) + o <= 2 * R + 1 + 1
          BY <4>1
        <4> QED
          BY <2>2, <3>2, <4>2
      <3> QED
        BY <1>1, <1>2, <2>2, <2>3, <3>4, <3>5, <3>6 DEF Awaits
    <2>7. Cardinality(Outstanding(n)') <= 2 * Cardinality(Rough(n)) + Load(c)
      BY <1>2, <1>3, <2>5
    <2>8. NodeOK(n)'
      BY <1>1, <1>2, <1>3, <2>2, <2>3, <2>4, <2>6, <2>7, CallGoesOn
    <2> QED
      BY <1>2, <2>8
  <1> QED
    BY <1>5, <1>6

LEMMA TakeAckOK ==
  ASSUME TypeInv, TypeInv', PacketsGood, Counted, Single,
         NEW n \in Nodes, TakeAck(n), NodeOK(n), Recorded(n)
  PROVE  /\ NodeOK(n)' /\ Single'
         /\ \A m : m # n => Outstanding(m)' = Outstanding(m)
  <1> DEFINE ack == Head(AckQueue[n])
             lag == txCount[n] - ack.id
             o == Cardinality(Outstanding(n))
             o1 == Cardinality(Outstanding(n)')
             R == Cardinality(Rough(n))
  <1>1. /\ call[n] \in Call /\ call[n].at = "select" /\ AckQueue[n] # <<>>
        /\ UNCHANGED txCount /\ InWait(n)
    BY InSend DEF TakeAck, InWait, TypeInv, TypeOK
  <1>2. ack \in Replies /\ ack \in At(n) /\ IsReply(ack) /\ ack # NoPacket
    <2>1. AckQueue[n] \in Seq(Replies)
      BY DEF TypeInv, TypeOK
    <2>2. ack \in Replies /\ ack = AckQueue[n][1] /\ 1 \in DOMAIN AckQueue[n]
      BY <1>1, <2>1, HeadTailProperties, EmptySeq, LenProperties
    <2>3. ack \in Elements(AckQueue[n])
      BY <2>2 DEF Elements
    <2> QED
      BY <2>2, <2>3, NoPacketAssumption DEF At, Replies, IsReply
  <1>3. /\ ack.id \in Outstanding(n) /\ Outstanding(n)' = Outstanding(n) \ {ack.id}
        /\ Single' /\ \A m : m # n => Outstanding(m)' = Outstanding(m)
    BY TakeAckMoves
  <1>4. ack.id = txCount[n] => Answers(n, ack)
    <2>1. ack.to = n /\ Numbered(ack)
      BY <1>2 DEF PacketsGood, Good
    <2>2. Requester(ack) = n
      BY <1>2, <2>1 DEF Requester
    <2>3. Seq_[n] = (txCount[n] - 1) % SeqMod
      <3>1. txCount[n] # 0 /\ Seq_[n] = IF txCount[n] = 0 THEN -1
                                        ELSE (txCount[n] - 1) % SeqMod
        BY <1>1 DEF Counted, TypeInv, TypeOK
      <3> QED
        BY <3>1
    <2> QED
      BY <2>1, <2>2, <2>3 DEF Numbered, Answers
  <1>5. lag \in Int
    <2>1. ack.id \in Nat /\ txCount[n] \in Nat
      BY <1>2 DEF Replies, Packet, TypeInv, TypeOK
    <2> QED
      BY <2>1
  <1>6. TakeAck(n) => IF Answers(n, ack) THEN TxSucceeds(n, lag)
                      ELSE UNCHANGED <<call, writes>>
    BY DEF TakeAck
  <1> HIDE DEF ack, lag
  <1>7. /\ IsFiniteSet(Outstanding(n)') /\ o1 = o - 1 /\ o \in Nat \ {0}
        /\ R \in Nat /\ o <= 2 * R + Load(call[n]) /\ Load(call[n]) \in 0 .. 2
    <2>1. IsFiniteSet(Outstanding(n)) /\ o \in Nat
      BY Sizes
    <2>2. IsFiniteSet(Outstanding(n)') /\ o1 = o - 1
      <3> DEFINE O == Outstanding(n)
      <3> HIDE DEF O
      <3>1. IsFiniteSet(O) /\ ack.id \in O
        BY <1>3, <2>1 DEF O
      <3>2. IsFiniteSet(O \ {ack.id})
            /\ Cardinality(O \ {ack.id}) = Cardinality(O) - 1
        BY <3>1, FS_RemoveElement
      <3> QED
        BY <1>3, <3>2 DEF O
    <2>3. o # 0
      BY <1>3, <2>1, FS_EmptySet
    <2> QED
      BY <2>1, <2>2, <2>3, Sizes
  <1>8. call[n] # NoCall
    BY <1>1 DEF NoCall, Call, Stages
  <1>9. CASE ~Answers(n, ack)
    <2>1. UNCHANGED <<call, writes>> /\ call'[n] = call[n] /\ writes'[n] = writes[n]
      BY <1>6, <1>9
    <2>2. ASSUME Clear(n)
          PROVE  Awaits(n)'
      <3>1. Woken(n) = 1 /\ Woken(n)' \in 0 .. 1
        BY <1>1 DEF Woken
      <3>2. /\ call[n].stage # "relay" /\ txCount[n] \in Outstanding(n)
            /\ call[n].count + o <= 2 * R + 1 + Woken(n)
        BY <1>1, <2>2 DEF NodeOK, Awaits
      <3>3. Rough(n)' = Rough(n)
        BY <2>1, RoughKept
      <3>4. txCount[n] \in Outstanding(n)'
        BY <1>3, <1>4, <1>9, <3>2
      <3>5. call[n].count \in Nat
        BY <1>1, NfdAssumption DEF Call
      <3>6. call[n].count + o1 <= 2 * R + 1 + Woken(n)'
        <4> HIDE DEF o, o1, R
        <4> QED
          BY <1>7, <3>1, <3>2, <3>5
      <3> QED
        BY <1>1, <2>1, <3>2, <3>3, <3>4, <3>6 DEF Awaits
    <2>3. o1 <= 2 * R + Load(call[n])
      <3> HIDE DEF o, o1, R
      <3> QED
        BY <1>7
    <2>4. NodeOK(n)'
      BY <1>1, <1>7, <2>1, <2>2, <2>3, CallGoesOn
    <2> QED
      BY <1>3, <2>4
  <1>10. CASE Answers(n, ack) /\ call[n].stage = "resolve"
    <2> DEFINE c == StartTx("resolved", call[n].ip, ADDR_LIST'[n][call[n].ip], lag)
    <2>1. call' = [call EXCEPT ![n] = c] /\ UNCHANGED writes
      BY <1>6, <1>10 DEF TxSucceeds
    <2>2. /\ c # NoCall /\ c.stage = "resolved" /\ c.at = "send"
          /\ c.ip = call[n].ip /\ c.count = 0
      BY DEF StartTx, NoCall
    <2> HIDE DEF c
    <2>3. call'[n] = c /\ writes'[n] = writes[n]
      BY <2>1 DEF TypeInv, TypeOK
    <2>4. c \in Call
      BY <2>2, <2>3 DEF TypeInv, TypeOK
    <2>5. Load(c) = 0 /\ Load(call[n]) = 1
      BY <1>1, <1>8, <1>10, <2>2 DEF Load
    <2>6. o1 <= 2 * R + Load(c)
      <3> HIDE DEF o, o1, R
      <3> QED
        BY <1>7, <2>5
    <2>7. Awaits(n)'
      BY <2>2, <2>3 DEF Awaits, InWait
    <2>8. NodeOK(n)'
      BY <1>1, <1>7, <2>2, <2>3, <2>4, <2>6, <2>7, CallGoesOn
    <2> QED
      BY <1>3, <2>8
  <1>11. CASE Answers(n, ack) /\ call[n].stage # "resolve"
    <2> DEFINE r == [ip |-> call[n].ip, ok |-> TRUE, lag |-> lag]
    <2>1. /\ call' = [call EXCEPT ![n] = NoCall]
          /\ writes' = [writes EXCEPT ![n] = Append(@, r)]
      BY <1>6, <1>11 DEF TxSucceeds, Return
    <2>2. r \in Result /\ r.ip = call[n].ip /\ r.ok = TRUE
      BY <1>1, <1>5 DEF Result, Call
    <2> HIDE DEF r
    <2>3. call'[n] = NoCall /\ writes'[n] = Append(writes[n], r)
      BY <2>1 DEF TypeInv, TypeOK
    <2>4. o1 < o
      <3> HIDE DEF o, o1
      <3> QED
        BY <1>7
    <2>5. NodeOK(n)'
      BY <1>1, <1>7, <2>2, <2>3, <2>4, ReturnOK
    <2> QED
      BY <1>3, <2>5
  <1> QED
    BY <1>9, <1>10, <1>11

-----------------------------------------------------------------------------
(* Every step, and the theorem. *)

(* The moments the theorem is about: no call goes on with an address that  *)
(* an answer a full turn of the numbers old left behind, and no call has   *)
(* more earlier ones to clear up after than its sleeps allow for.          *)
Patience ==
  \A n \in Nodes : ~Mutex3Free(n) =>
    /\ call[n].stage = "resolved" => call[n].lag < SeqMod
    /\ 2 * Cardinality(Rough(n)) + 2 <= Ticks

(* What is known of every behaviour of Nfd over such a medium. *)
NfdInv ==
  /\ TypeInv /\ DeliveryInv /\ OneTarget /\ CountInv /\ RoutedInv

(* The transmissions stay as they are: only node n may notice the step. *)
LEMMA OthersOK ==
  ASSUME TypeInv, WaitInv, HinderedOK', \A m \in Nodes : Recorded(m),
         NEW n \in Nodes, Single', NodeOK(n)',
         \A m \in Nodes \ {n} :
           /\ call'[m] = call[m] /\ writes'[m] = writes[m]
           /\ txCount'[m] = txCount[m] /\ AckQueue'[m] = AckQueue[m]
           /\ Outstanding(m)' = Outstanding(m)
  PROVE  WaitInv'
  <1>1. \A m \in Nodes \ {n} : NodeOK(m)'
    BY Bystander DEF WaitInv
  <1> QED
    BY <1>1 DEF WaitInv

(* No call notices the step. *)
LEMMA AllOK ==
  ASSUME TypeInv, WaitInv, HinderedOK', \A m \in Nodes : Recorded(m), Single',
         UNCHANGED callVars,
         \A m \in Nodes : /\ Outstanding(m)' = Outstanding(m)
                          /\ AckQueue'[m] = <<>> => AckQueue[m] = <<>>
  PROVE  WaitInv'
  <1>1. \A m \in Nodes : NodeOK(m)'
    BY Bystander DEF WaitInv, callVars
  <1> QED
    BY <1>1 DEF WaitInv

LEMMA TxFailsLocal ==
  ASSUME TypeInv, NEW n \in Nodes, TxFails(n), NEW m \in Nodes \ {n}
  PROVE  call'[m] = call[m] /\ writes'[m] = writes[m]
  BY DEF TxFails, Return, TypeInv, TypeOK
LEMMA TxSucceedsLocal ==
  ASSUME TypeInv, NEW n \in Nodes, NEW lag, TxSucceeds(n, lag),
         NEW m \in Nodes \ {n}
  PROVE  call'[m] = call[m] /\ writes'[m] = writes[m]
  BY DEF TxSucceeds, Return, TypeInv, TypeOK

LEMMA SendStepOK ==
  ASSUME NfdInv, TypeInv', WaitInv, HinderedOK', \A m \in Nodes : Recorded(m),
         Patience, ~Lossy, NEW n \in Nodes,
         Transmit(n) \/ TakeAck(n) \/ FallAsleep(n) \/ PatientTick(n)
  PROVE  WaitInv'
  <1>1. /\ TypeInv /\ PacketsGood /\ Counted /\ AddressesRight /\ ResolvedHasMac
        /\ OneTarget /\ RoutedInv /\ Single /\ NodeOK(n) /\ Recorded(n)
    BY DEF NfdInv, DeliveryInv, WaitInv
  <1>2. call[n].at \in {"send", "select", "sleep"} => ~Mutex3Free(n)
    BY DEF Mutex3Free, NoCall
  <1>3. CASE Transmit(n)
    <2>1. call[n].stage = "resolved" => call[n].lag < SeqMod
      BY <1>2, <1>3 DEF Transmit, Patience
    <2>2. /\ NodeOK(n)' /\ Single'
          /\ \A m : m # n => Outstanding(m)' = Outstanding(m)
      BY <1>1, <1>3, <2>1, TransmitOK
    <2>3. /\ call' = [call EXCEPT ![n].at = "select"] /\ UNCHANGED <<writes, AckQueue>>
          /\ txCount' = [txCount EXCEPT ![n] = txCount[n] + 1]
      BY <1>3 DEF Transmit, queueVars
    <2>4. \A m \in Nodes \ {n} : call'[m] = call[m] /\ txCount'[m] = txCount[m]
      BY <1>1, <2>3 DEF TypeInv, TypeOK
    <2> QED
      BY <1>1, <2>2, <2>3, <2>4, OthersOK
  <1>4. CASE TakeAck(n)
    <2> DEFINE lag == txCount[n] - Head(AckQueue[n]).id
    <2>1. /\ NodeOK(n)' /\ Single'
          /\ \A m : m # n => Outstanding(m)' = Outstanding(m)
      BY <1>1, <1>4, TakeAckOK
    <2>2. /\ UNCHANGED txCount
          /\ AckQueue' = [AckQueue EXCEPT ![n] = Tail(AckQueue[n])]
          /\ UNCHANGED <<call, writes>> \/ TxSucceeds(n, lag)
      BY <1>4 DEF TakeAck
    <2> HIDE DEF lag
    <2>3. \A m \in Nodes \ {n} : /\ call'[m] = call[m] /\ writes'[m] = writes[m]
                                 /\ AckQueue'[m] = AckQueue[m]
      BY <1>1, <2>2, TxSucceedsLocal DEF TypeInv, TypeOK
    <2> QED
      BY <1>1, <2>1, <2>2, <2>3, OthersOK
  <1>5. CASE FallAsleep(n)
    <2>1. NodeOK(n)' /\ Standing' = Standing
      BY <1>1, <1>5, FallAsleepOK
    <2>2. Single' /\ \A m : Outstanding(m)' = Outstanding(m)
      BY <1>1, <2>1 DEF Single, Outstanding
    <2>3. /\ call' = [call EXCEPT ![n].at = "sleep"]
          /\ UNCHANGED <<writes, AckQueue, txCount>>
      BY <1>5 DEF FallAsleep, queueVars
    <2>4. \A m \in Nodes \ {n} : call'[m] = call[m]
      BY <1>1, <2>3 DEF TypeInv, TypeOK
    <2> QED
      BY <1>1, <2>1, <2>2, <2>3, <2>4, OthersOK
  <1>6. CASE PatientTick(n)
    <2>1. Tick(n) /\ (WakesUp(n) \/ ~Busy)
      BY <1>6 DEF PatientTick
    <2>2. 2 * Cardinality(Rough(n)) + 2 <= Ticks
      BY <1>2, <2>1 DEF Tick, Patience
    <2>3. NodeOK(n)' /\ Standing' = Standing
      BY <1>1, <2>1, <2>2, TickOK
    <2>4. Single' /\ \A m : Outstanding(m)' = Outstanding(m)
      BY <1>1, <2>3 DEF Single, Outstanding
    <2>5. UNCHANGED <<AckQueue, txCount>>
      BY <2>1 DEF Tick, queueVars
    <2>6. \A m \in Nodes \ {n} : call'[m] = call[m] /\ writes'[m] = writes[m]
      <3>1. CASE call[n].count + 1 = Ticks
        BY <1>1, <2>1, <3>1, TxFailsLocal DEF Tick
      <3>2. CASE call[n].count + 1 # Ticks
        BY <1>1, <2>1, <3>2 DEF Tick, TypeInv, TypeOK
      <3> QED
        BY <3>1, <3>2
    <2> QED
      BY <1>1, <2>3, <2>4, <2>5, <2>6, OthersOK
  <1> QED
    BY <1>3, <1>4, <1>5, <1>6

LEMMA PacketStepOK ==
  ASSUME NfdInv, WaitInv, HinderedOK', \A m \in Nodes : Recorded(m),
         ~Duplicates, NEW n \in Nodes,
         \/ Receive(n) \/ Enqueue(n) \/ TakeData(n) \/ SendAddrResp(n)
         \/ Deliver(n) \/ SendAck(n) \/ DetectNodes(n) \/ Read(n)
  PROVE  WaitInv'
  <1>1. TypeInv /\ PacketsGood /\ HandlerHonest /\ Single
    BY DEF NfdInv, DeliveryInv, WaitInv
  <1>2. UNCHANGED callVars
    BY DEF Receive, Enqueue, TakeData, SendAddrResp, Deliver, SendAck,
           DetectNodes, Read
  <1>3. \A m \in Nodes : AckQueue'[m] = <<>> => AckQueue[m] = <<>>
    <2>1. CASE UNCHANGED AckQueue
      BY <2>1
    <2>2. CASE Enqueue(n)
      <3>1. /\ AckQueue[n] \in Seq(Replies)
            /\ IsReply(received[n]) => received[n] \in Replies
        BY <2>2 DEF Enqueue, TypeInv, TypeOK, Replies, IsReply, NfdInv
      <3>2. \A m \in Nodes : \/ AckQueue'[m] = AckQueue[m]
                             \/ /\ AckQueue'[m] = Append(AckQueue[n], received[n])
                                /\ received[n] \in Replies
        BY <2>2, <3>1 DEF Enqueue, TypeInv, TypeOK, NfdInv
      <3>3. received[n] \in Replies => Append(AckQueue[n], received[n]) # <<>>
        BY <3>1, AppendProperties
      <3> QED
        BY <3>2, <3>3
    <2> QED
      BY <2>1, <2>2 DEF Receive, TakeData, SendAddrResp, Deliver, SendAck,
                        DetectNodes, Read, queueVars
  <1>4. Single' /\ \A m : Outstanding(m)' = Outstanding(m)
    <2>1. CASE Standing' = Standing
      BY <1>1, <2>1 DEF Single, Outstanding
    <2>2. CASE Receive(n)
      BY <1>1, <2>2, ReceiveMoves
    <2>3. CASE Enqueue(n)
      BY <1>1, <2>1, <2>3, EnqueueMoves
    <2>4. CASE TakeData(n)
      BY <1>1, <2>4, TakeDataMoves
    <2>5. CASE SendAddrResp(n)
      BY <1>1, <2>5, SendReplyMoves DEF SendAddrResp, AckTypes
    <2>6. CASE SendAck(n)
      BY <1>1, <2>6, SendReplyMoves DEF SendAck, AckTypes
    <2>7. CASE Deliver(n)
      <3>1. /\ UNCHANGED <<air, received, AckQueue, DataQueue>>
            /\ handler' = [handler EXCEPT ![n] = [pc |-> "ack", p |-> handler[n].p]]
        BY <2>7 DEF Deliver, queueVars
      <3>2. \A m \in Nodes : handler'[m].p = handler[m].p
        BY <1>1, <3>1 DEF TypeInv, TypeOK
      <3> QED
        BY <2>1, <3>1, <3>2, NothingMoves
    <2>8. CASE DetectNodes(n) \/ Read(n)
      <3>1. UNCHANGED <<air, received, AckQueue, DataQueue, handler>>
        BY <2>8 DEF DetectNodes, Read, queueVars, handlerVars
      <3> QED
        BY <2>1, <3>1, NothingMoves
    <2> QED
      BY <2>2, <2>3, <2>4, <2>5, <2>6, <2>7, <2>8
  <1> QED
    BY <1>1, <1>2, <1>3, <1>4, AllOK

LEMMA NextWait ==
  ASSUME ~Lossy, ~Duplicates
  PROVE  NfdInv /\ TypeInv' /\ WaitInv /\ Patience /\ [PatientNext]_patientVars
           => WaitInv'
  <1> SUFFICES ASSUME NfdInv, TypeInv', WaitInv, Patience,
                      [PatientNext]_patientVars
               PROVE  WaitInv'
    OBVIOUS
  <1>1. TypeInv /\ CountInv /\ HinderedOK
    BY DEF NfdInv, WaitInv
  <1>2. CASE UNCHANGED patientVars
    <2>1. /\ UNCHANGED <<air, received, AckQueue, DataQueue, handler, hindered>>
          /\ UNCHANGED <<call, writes, txCount>>
      BY <1>2 DEF patientVars, vars, callVars, queueVars, handlerVars
    <2>2. Standing' = Standing
      BY <2>1, NothingMoves
    <2>3. HinderedOK' /\ Single'
      BY <2>1, <2>2 DEF WaitInv, HinderedOK, Single
    <2>4. ASSUME NEW n \in Nodes
          PROVE  NodeOK(n)'
      <3>1. Outstanding(n)' = Outstanding(n) /\ Rough(n)' = Rough(n)
        BY <2>1, <2>2 DEF Outstanding, Rough
      <3>2. NodeOK(n)
        BY DEF WaitInv
      <3> QED
        BY <2>1, <3>1, <3>2
        DEF NodeOK, Bounded, Awaits, Unhindered, Clear, InWait, Woken
    <2> QED
      BY <2>3, <2>4 DEF WaitInv
  <1>3. CASE PatientNext
    <2>1. HinderedOK' /\ \A m \in Nodes : Recorded(m)
      BY <1>1, <1>3, Hindering DEF PatientNext
    <2>2. ASSUME NEW n \in Nodes, NEW ip \in Ips, Write(n, ip)
          PROVE  WaitInv'
      <3>1. NodeOK(n) /\ Recorded(n) /\ Single
        BY <2>1 DEF WaitInv
      <3>2. NodeOK(n)' /\ Standing' = Standing
        BY <1>1, <2>2, <3>1, WriteOK
      <3>3. Single' /\ \A m : Outstanding(m)' = Outstanding(m)
        BY <3>1, <3>2 DEF Single, Outstanding
      <3> DEFINE c == Route(n, ip)
      <3>4. /\ call' = [call EXCEPT ![n] = c]
            /\ UNCHANGED <<writes, AckQueue, txCount>>
        BY <2>2 DEF Write, queueVars
      <3> HIDE DEF c
      <3>5. \A m \in Nodes \ {n} : call'[m] = call[m]
        BY <1>1, <3>4 DEF TypeInv, TypeOK
      <3> QED
        BY <1>1, <2>1, <3>2, <3>3, <3>4, <3>5, OthersOK
    <2>3. ASSUME NEW n \in Nodes,
                 Transmit(n) \/ TakeAck(n) \/ FallAsleep(n) \/ PatientTick(n)
          PROVE  WaitInv'
      BY <2>1, <2>3, SendStepOK
    <2>4. ASSUME NEW n \in Nodes,
                 \/ Receive(n) \/ Enqueue(n) \/ TakeData(n) \/ SendAddrResp(n)
                 \/ Deliver(n) \/ SendAck(n) \/ DetectNodes(n) \/ Read(n)
          PROVE  WaitInv'
      BY <2>1, <2>4, PacketStepOK
    <2> QED
      BY <1>3, <2>2, <2>3, <2>4 DEF PatientNext
  <1> QED
    BY <1>2, <1>3

LEMMA InitWait == PatientInit => WaitInv
  <1> SUFFICES ASSUME PatientInit PROVE WaitInv
    OBVIOUS
  <1>1. TypeInv
    BY InitTypeInv DEF PatientInit
  <1>2. ASSUME NEW n \in Nodes
        PROVE  /\ hindered[n] \in [1 .. MaxWrites[n] -> BOOLEAN]
               /\ call[n] = NoCall /\ writes[n] = <<>> /\ handler[n].p = NoPacket
               /\ AckQueue[n] = <<>> /\ DataQueue[n] = <<>>
               /\ received[n] = NoPacket
    BY DEF PatientInit, Init, Waiting
  <1>3. Standing = {}
    <2> SUFFICES ASSUME NEW x \in Spots, Stands(x) PROVE FALSE
      BY DEF Standing
    <2>1. x.m \in Nodes /\ x.p \in Packet /\ x.k \in Nat /\ x.p # NoPacket
      BY NoPacketAssumption DEF Spots
    <2>2. air = {}
      BY DEF PatientInit, Init
    <2>3. /\ AckQueue[x.m] = <<>> /\ DataQueue[x.m] = <<>>
          /\ received[x.m] = NoPacket /\ handler[x.m].p = NoPacket
      BY <1>2, <2>1
    <2>4. Len(<<>>) = 0
      BY EmptySeq
    <2>5. DataLine(x.m, x.k) = NoPacket /\ AckLine(x.m, x.k) = NoPacket
      BY <2>1, <2>3, <2>4 DEF DataLine, AckLine, InQueue, Place
    <2> QED
      BY <2>1, <2>2, <2>5 DEF Stands
  <1>4. Single
    BY <1>3 DEF Single, SingleIn
  <1>5. ASSUME NEW n \in Nodes
        PROVE  NodeOK(n)
    <2>1. call[n] = NoCall /\ DOMAIN writes[n] = {}
      BY <1>2
    <2>2. Outstanding(n) = {}
      BY <1>3 DEF Outstanding, Awaited
    <2>3. IsFiniteSet(Outstanding(n)) /\ Cardinality(Outstanding(n)) = 0
      BY <2>2, FS_EmptySet
    <2>4. Load(call[n]) = 0
      BY <2>1 DEF Load
    <2>5. Cardinality(Rough(n)) \in Nat
      BY <1>1, RoughFinite
    <2>6. Bounded(n)
      BY <2>3, <2>4, <2>5 DEF Bounded
    <2> QED
      BY <2>1, <2>6 DEF NodeOK, Awaits, Clear, Unhindered
  <1> QED
    BY <1>2, <1>4, <1>5 DEF WaitInv, HinderedOK

LEMMA PatientStep == [PatientNext]_patientVars => [Next]_vars
  BY DEF PatientNext, PatientTick, Next, patientVars

LEMMA PatientIsNfd == PatientSpec => Spec
  <1>1. PatientInit => Init
    BY DEF PatientInit
  <1> QED
    BY <1>1, PatientStep, PTL DEF PatientSpec, Spec

LEMMA NfdInvariant ==
  ASSUME ~Duplicates
  PROVE  Spec => []NfdInv
  <1>1. (TypeInv /\ DeliveryInv /\ Once) /\ (TypeInv /\ CountInv)
          /\ (TypeInv /\ RoutedInv) => NfdInv
    BY DEF NfdInv, Once, OnceInv
  <1> QED
    BY <1>1, OnceInvariant, CountInvariant, RoutedInvariant, PTL

(* Over a medium that loses and repeats nothing, and with waits that run   *)
(* out only when nothing else is under way, a Write to another node fails  *)
(* only if it was hindered: no reply that is still to come to an earlier   *)
(* Write makes it give up (nfd.go:343-374), as long as no more than half   *)
(* of the sleeps of WaitForAck can be wasted on them.                      *)
THEOREM PatientWritesSucceed ==
  ASSUME ~Lossy, ~Duplicates
  PROVE  PatientSpec /\ []Patience => []LoneWriteSucceeds
  <1>1. WaitInv => LoneWriteSucceeds
    BY DEF WaitInv, NodeOK, Unhindered, LoneWriteSucceeds
  <1>2. NfdInv /\ NfdInv' /\ WaitInv /\ Patience /\ [PatientNext]_patientVars
          => WaitInv'
    BY NextWait DEF NfdInv
  <1>3. Spec => []NfdInv
    BY NfdInvariant
  <1> QED
    BY <1>1, <1>2, <1>3, InitWait, PatientIsNfd, PTL DEF PatientSpec

(* There are no more of them while a node's Writes number half of the      *)
(* sleeps or fewer, and of the sequence numbers: with the 50 sleeps and    *)
(* the 256 numbers of the program, the first 25 Writes of every node.      *)
THEOREM FirstWritesSucceed ==
  ASSUME ~Lossy, ~Duplicates,
         \A n \in Nodes : 2 * MaxWrites[n] <= Ticks /\ 2 * MaxWrites[n] <= SeqMod
  PROVE  PatientSpec => []LoneWriteSucceeds
  <1>1. NfdInv => Patience
    <2> SUFFICES ASSUME NfdInv, NEW n \in Nodes, ~Mutex3Free(n)
                 PROVE  /\ call[n].stage = "resolved" => call[n].lag < SeqMod
                        /\ 2 * Cardinality(Rough(n)) + 2 <= Ticks
      BY DEF Patience
    <2> DEFINE l == Len(writes[n])
               R == Cardinality(Rough(n))
               made == Made(call[n])
    <2>1. /\ l \in Nat /\ MaxWrites[n] \in Nat /\ Ticks \in Nat /\ SeqMod \in Nat
          /\ call[n] \in Call /\ call[n].lag \in Int /\ txCount[n] \in Nat
          /\ made \in 0 .. 2
      <3>1. call[n] \in Call /\ l \in Nat /\ txCount[n] \in Nat
        BY DEF NfdInv, TypeInv, TypeOK, Mutex3Free
      <3>2. call[n].lag \in Int
        BY <3>1 DEF Call
      <3>3. MaxWrites[n] \in Nat /\ Ticks \in Nat /\ SeqMod \in Nat
        BY NfdAssumption
      <3> QED
        BY <3>1, <3>2, <3>3, MadeType
    <2>2. l < MaxWrites[n] /\ txCount[n] <= 2 * l + made
      BY DEF NfdInv, CountInv, Counts
    <2>3. R \in Nat /\ R <= l
      <3>1. /\ IsFiniteSet(1 .. l) /\ Cardinality(1 .. l) = l
            /\ Rough(n) \subseteq 1 .. l
        <4>1. DOMAIN writes[n] = 1 .. l
          BY WritesType DEF NfdInv
        <4>2. l \in Nat
          BY <2>1
        <4> HIDE DEF l
        <4>3. IsFiniteSet(1 .. l)
              /\ Cardinality(1 .. l) = (IF 1 > l THEN 0 ELSE l - 1 + 1)
          BY <4>2, FS_Interval
        <4>4. Cardinality(1 .. l) = l
          BY <4>2, <4>3
        <4> QED
          BY <4>1, <4>3, <4>4 DEF Rough
      <3> QED
        BY <3>1, RoughFinite, FS_Subset DEF NfdInv
    <2>4. call[n].stage = "resolved" => call[n].lag < txCount[n]
      BY DEF NfdInv, RoutedInv, Directed
    <2>5. 2 * MaxWrites[n] <= Ticks /\ 2 * MaxWrites[n] <= SeqMod
      OBVIOUS
    <2> HIDE DEF l, R, made
    <2>6. txCount[n] <= SeqMod
      BY <2>1, <2>2, <2>5
    <2>7. 2 * R + 2 <= Ticks
      BY <2>1, <2>2, <2>3, <2>5
    <2>8. call[n].stage = "resolved" => call[n].lag < SeqMod
      BY <2>1, <2>4, <2>6
    <2> QED
      BY <2>7, <2>8 DEF R
  <1>2. Spec => []NfdInv
    BY NfdInvariant
  <1>3. PatientSpec /\ []Patience => []LoneWriteSucceeds
    BY PatientWritesSucceed
  <1> QED
    BY <1>1, <1>2, <1>3, PatientIsNfd, PTL
=============================================================================
