------------------------------- MODULE NfdOnce -------------------------------
(***************************************************************************)
(* Proofs that the data of a Write arrives at most once, and that Nfd      *)
(* implements ConfirmedWrite, if the medium repeats nothing.  The argument *)
(* follows the one copy of the data of each Write: from the air, along the *)
(* line of packets that a node has yet to deliver, into RxData.            *)
(***************************************************************************)
EXTENDS NfdProofs

(* The line of node m: what PacketHandler is about to deliver, DataQueue,  *)
(* and what Receiver holds.  A packet keeps its place when Receiver hands  *)
(* it over, and the line moves up when PacketHandler takes its next one.   *)
Place(h, q, last, k) ==
  IF k = 0 THEN IF h.pc = "data" THEN h.p ELSE NoPacket
  ELSE IF k <= Len(q) THEN q[k]
  ELSE IF k = Len(q) + 1 THEN last
  ELSE NoPacket

Slot(m, k) == Place(handler[m], DataQueue[m], received[m], k)

(* p carries the data of Write number w of node n. *)
Carries(p, n, w) ==
  /\ p \in Packet /\ p.type \in {"P2P", "RELAY_REQ"}
  /\ p.src = n /\ p.w = w

OnAir(n, w) == \E p \in air : Carries(p, n, w)
InLine(n, w) == \E m \in Nodes, k \in Nat : Carries(Slot(m, k), n, w)
HasArrived(n, w) == \E m \in Nodes : <<n, w, m>> \in arrived
Sent(n, w) == OnAir(n, w) \/ InLine(n, w) \/ HasArrived(n, w)

(* There is one copy of the data of a Write at most. *)
OneCopy ==
  \A n \in Nodes, w \in Nat :
    /\ \A p, q \in air : Carries(p, n, w) /\ Carries(q, n, w) => p = q
    /\ \A m1, m2 \in Nodes, k1, k2 \in Nat :
         Carries(Slot(m1, k1), n, w) /\ Carries(Slot(m2, k2), n, w)
           => m1 = m2 /\ k1 = k2
    /\ ~(OnAir(n, w) /\ InLine(n, w))
    /\ ~(OnAir(n, w) /\ HasArrived(n, w))
    /\ ~(InLine(n, w) /\ HasArrived(n, w))

(* Data is sent by a Write that has returned, or that waits for the answer *)
(* to what carries it.                                                     *)
SentByWrite ==
  \A n \in Nodes, w \in Nat :
    Sent(n, w) =>
      \/ w \in 1 .. Len(writes[n])
      \/ w = Len(writes[n]) + 1 /\ InWait(n) /\ call[n].stage # "resolve"

(* Data is never broadcast. *)
OneTarget ==
  \A n \in Nodes :
    call[n].stage \notin {"idle", "resolve"} => call[n].mac # BCST_MAC

OnceInv == OneCopy /\ SentByWrite /\ OneTarget

-----------------------------------------------------------------------------
(* The line. *)

(* Enqueue keeps the place of the packet that Receiver holds. *)
LEMMA PlaceAppend ==
  ASSUME NEW S, NEW q \in Seq(S), NEW e \in S, NEW h, NEW k \in Nat
  PROVE  Place(h, Append(q, e), NoPacket, k) = Place(h, q, e, k)
  <1>1. /\ Len(Append(q, e)) = Len(q) + 1 /\ Len(q) \in Nat
        /\ \A j \in 1 .. Len(q) : Append(q, e)[j] = q[j]
        /\ Append(q, e)[Len(q) + 1] = e
    BY AppendProperties
  <1> DEFINE l == Len(q)
             a == Append(q, e)
  <1> HIDE DEF l, a
  <1>2. /\ Len(a) = l + 1 /\ l \in Nat /\ l = Len(q)
        /\ \A j \in 1 .. l : a[j] = q[j]
        /\ a[l + 1] = e
    BY <1>1 DEF l, a
  <1>3. Place(h, a, NoPacket, k) = Place(h, q, e, k)
    BY <1>2 DEF Place
  <1> QED
    BY <1>3 DEF a

(* When PacketHandler takes a packet, every other moves up by one. *)
LEMMA PlaceTail ==
  ASSUME NEW S, NEW q \in Seq(S), q # <<>>, NEW h, NEW g, NEW r,
         NEW k \in Nat \ {0}
  PROVE  Place(h, Tail(q), r, k) = Place(g, q, r, k + 1)
  <1>1. /\ Len(Tail(q)) = Len(q) - 1 /\ Len(q) \in Nat \ {0}
        /\ \A j \in 1 .. Len(Tail(q)) : Tail(q)[j] = q[j + 1]
    BY HeadTailProperties, EmptySeq
  <1> DEFINE l == Len(q)
             t == Tail(q)
  <1> HIDE DEF l, t
  <1>2. /\ Len(t) = l - 1 /\ l \in Nat \ {0} /\ l = Len(q)
        /\ \A j \in 1 .. l - 1 : t[j] = q[j + 1]
    BY <1>1 DEF l, t
  <1>3. Place(h, t, r, k) = Place(g, q, r, k + 1)
    BY <1>2 DEF Place
  <1> QED
    BY <1>3 DEF t

-----------------------------------------------------------------------------
(* What a step does to the copies of the data. *)

(* Nothing new is sent: a line may move up, and packets may be lost. *)
LEMMA NothingSent ==
  ASSUME OneCopy, arrived' = arrived, NEW up \in [Nodes -> Nat],
         \A n \in Nodes, w \in Nat :
           /\ \A p \in air' : Carries(p, n, w) => p \in air
           /\ \A m \in Nodes, k \in Nat :
                Carries(Slot(m, k)', n, w) => Carries(Slot(m, k + up[m]), n, w)
  PROVE  /\ OneCopy'
         /\ \A n \in Nodes, w \in Nat : Sent(n, w)' => Sent(n, w)
  <1>1. \A n \in Nodes, w \in Nat : \A p : Carries(p, n, w)' <=> Carries(p, n, w)
    BY DEF Carries
  <1>2. ASSUME NEW n \in Nodes, NEW w \in Nat
        PROVE  /\ OnAir(n, w)' => OnAir(n, w)
               /\ InLine(n, w)' => InLine(n, w)
               /\ HasArrived(n, w)' => HasArrived(n, w)
    <2>1. OnAir(n, w)' => OnAir(n, w)
      BY <1>1 DEF OnAir
    <2>2. ASSUME NEW m \in Nodes, NEW k \in Nat, Carries(Slot(m, k), n, w)'
          PROVE  InLine(n, w)
      <3>1. Carries(Slot(m, k)', n, w)
        BY <2>2 DEF Carries
      <3>2. k + up[m] \in Nat
        OBVIOUS
      <3> QED
        BY <3>1, <3>2 DEF InLine
    <2> QED
      BY <2>1, <2>2 DEF InLine, HasArrived
  <1>3. ASSUME NEW n \in Nodes, NEW w \in Nat,
               NEW m1 \in Nodes, NEW m2 \in Nodes, NEW k1 \in Nat, NEW k2 \in Nat,
               Carries(Slot(m1, k1), n, w)', Carries(Slot(m2, k2), n, w)'
        PROVE  m1 = m2 /\ k1 = k2
    <2>1. Carries(Slot(m1, k1)', n, w) /\ Carries(Slot(m2, k2)', n, w)
      BY <1>3 DEF Carries
    <2>2. /\ k1 + up[m1] \in Nat /\ k2 + up[m2] \in Nat
          /\ up[m1] \in Nat /\ up[m2] \in Nat
      OBVIOUS
    <2>3. m1 = m2 /\ k1 + up[m1] = k2 + up[m2]
      BY <2>1, <2>2 DEF OneCopy
    <2> QED
      BY <2>2, <2>3
  <1>4. OneCopy'
    BY <1>1, <1>2, <1>3 DEF OneCopy
  <1> QED
    BY <1>2, <1>4 DEF Sent

(* The lines stay as they are, or only their packets without data change. *)
LEMMA LinesStay ==
  ASSUME OneCopy, arrived' = arrived,
         \A n \in Nodes, w \in Nat :
           /\ \A p \in air' : Carries(p, n, w) => p \in air
           /\ \A m \in Nodes, k \in Nat :
                Carries(Slot(m, k)', n, w) => Carries(Slot(m, k), n, w)
  PROVE  /\ OneCopy'
         /\ \A n \in Nodes, w \in Nat : Sent(n, w)' => Sent(n, w)
  <1> DEFINE up == [m \in Nodes |-> 0]
  <1>1. up \in [Nodes -> Nat]
    OBVIOUS
  <1>2. \A m \in Nodes, k \in Nat : k + up[m] = k
    OBVIOUS
  <1> HIDE DEF up
  <1> QED
    BY <1>1, <1>2, NothingSent

(* The lines depend on three variables. *)
LEMMA SameSlots ==
  ASSUME UNCHANGED <<received, DataQueue, handler>>
  PROVE  \A m \in Nodes, k \in Nat : Slot(m, k)' = Slot(m, k)
  BY DEF Slot, Place

(* The Writes go on, and nothing new is sent. *)
LEMMA SentKept ==
  ASSUME TypeInv, SentByWrite,
         \A n \in Nodes, w \in Nat : Sent(n, w)' => Sent(n, w),
         \A n \in Nodes :
           \/ Len(writes'[n]) = Len(writes[n]) + 1
           \/ /\ Len(writes'[n]) = Len(writes[n])
              /\ InWait(n) /\ call[n].stage # "resolve"
                   => InWait(n)' /\ call'[n].stage # "resolve"
  PROVE  SentByWrite'
  <1> SUFFICES ASSUME NEW n \in Nodes, NEW w \in Nat, Sent(n, w)'
               PROVE  \/ w \in 1 .. Len(writes'[n])
                      \/ /\ w = Len(writes'[n]) + 1
                         /\ InWait(n)' /\ call'[n].stage # "resolve"
    BY DEF SentByWrite
  <1>1. Len(writes[n]) \in Nat
    BY DEF TypeInv, TypeOK
  <1>2. \/ w \in 1 .. Len(writes[n])
        \/ w = Len(writes[n]) + 1 /\ InWait(n) /\ call[n].stage # "resolve"
    BY DEF SentByWrite
  <1> QED
    BY <1>1, <1>2

-----------------------------------------------------------------------------
(* The initial state, and the steps outside Send. *)

LEMMA InitOnce == Init => OnceInv
  <1> SUFFICES ASSUME Init PROVE OnceInv
    OBVIOUS
  <1>1. \A m \in Nodes, k \in Nat : Slot(m, k) = NoPacket
    BY DEF Init, Slot, Place, Waiting
  <1>2. \A n \in Nodes, w \in Nat : ~Carries(NoPacket, n, w)
    BY NoPacketAssumption DEF Carries
  <1>3. \A n \in Nodes, w \in Nat : ~Sent(n, w)
    BY <1>1, <1>2 DEF Init, Sent, OnAir, InLine, HasArrived
  <1>4. OneCopy
    BY <1>1, <1>2, <1>3 DEF Init, OneCopy, Sent
  <1>5. OneTarget
    BY DEF Init, OneTarget, NoCall
  <1> QED
    BY <1>3, <1>4, <1>5 DEF OnceInv, SentByWrite

(* Receiver takes the copy out of the air and puts it at the end of the    *)
(* line.                                                                   *)
LEMMA ReceiveOnce ==
  ASSUME TypeInv, OnceInv, ~Duplicates, NEW n \in Nodes, Receive(n)
  PROVE  OnceInv'
  <1>1. PICK p \in air :
          /\ received' = [received EXCEPT ![n] = p]
          /\ air' = air \ {p}
    BY DEF Receive
  <1>2. /\ received[n] = NoPacket /\ UNCHANGED <<DataQueue, handler, arrived>>
        /\ UNCHANGED <<call, writes>>
    BY DEF Receive, handlerVars, callVars
  <1> DEFINE e == Len(DataQueue[n]) + 1
  <1>3. e \in Nat \ {0} /\ received \in [Nodes -> Packet \cup {NoPacket}]
    BY DEF TypeInv, TypeOK
  <1>4. \A m \in Nodes, k \in Nat :
          Slot(m, k)' = IF m = n /\ k = e THEN p ELSE Slot(m, k)
    BY <1>1, <1>2, <1>3 DEF Slot, Place
  <1>5. ~\E i \in Nodes, w \in Nat : Carries(Slot(n, e), i, w)
    BY <1>2, <1>3, NoPacketAssumption DEF Slot, Place, Carries
  <1> HIDE DEF e
  <1>6. \A i \in Nodes, w \in Nat : \A q : Carries(q, i, w)' <=> Carries(q, i, w)
    BY DEF Carries
  <1>7. ASSUME NEW i \in Nodes, NEW w \in Nat
        PROVE  /\ OnAir(i, w)' => OnAir(i, w) /\ ~Carries(p, i, w)
               /\ InLine(i, w)' => InLine(i, w) \/ Carries(p, i, w)
               /\ HasArrived(i, w)' <=> HasArrived(i, w)
               /\ Carries(p, i, w) => OnAir(i, w) /\ ~InLine(i, w) /\ ~HasArrived(i, w)
    <2>1. HasArrived(i, w)' <=> HasArrived(i, w)
      BY <1>2 DEF HasArrived
    <2>2. Carries(p, i, w) => OnAir(i, w)
      BY DEF OnAir
    <2>3. OnAir(i, w)' => OnAir(i, w) /\ ~Carries(p, i, w)
      BY <1>1, <1>6 DEF OnAir, OnceInv, OneCopy
    <2>4. ASSUME NEW m \in Nodes, NEW k \in Nat, Carries(Slot(m, k)', i, w)
          PROVE  InLine(i, w) \/ Carries(p, i, w)
      BY <1>4, <2>4 DEF InLine
    <2>5. InLine(i, w)' => InLine(i, w) \/ Carries(p, i, w)
      BY <1>6, <2>4 DEF InLine
    <2> QED
      BY <2>1, <2>2, <2>3, <2>5 DEF OnceInv, OneCopy
  <1>8. \A i \in Nodes, w \in Nat : Sent(i, w)' => Sent(i, w)
    BY <1>7 DEF Sent
  <1>9. ASSUME NEW i \in Nodes, NEW w \in Nat,
               NEW m1 \in Nodes, NEW m2 \in Nodes, NEW k1 \in Nat, NEW k2 \in Nat,
               Carries(Slot(m1, k1)', i, w), Carries(Slot(m2, k2)', i, w)
        PROVE  m1 = m2 /\ k1 = k2
    <2>1. CASE Carries(p, i, w)
      <3>1. ~Carries(Slot(m1, k1), i, w) /\ ~Carries(Slot(m2, k2), i, w)
        BY <1>7, <2>1 DEF InLine
      <3> QED
        BY <1>4, <1>9, <3>1
    <2>2. CASE ~Carries(p, i, w)
      BY <1>4, <1>9, <2>2 DEF OnceInv, OneCopy
    <2> QED
      BY <2>1, <2>2
  <1>10. OneCopy'
    <2>1. \A i \in Nodes, w \in Nat : \A q, r \in air' :
            Carries(q, i, w)' /\ Carries(r, i, w)' => q = r
      BY <1>1, <1>6 DEF OnceInv, OneCopy
    <2>2. \A i \in Nodes, w \in Nat : \A m1, m2 \in Nodes, k1, k2 \in Nat :
            Carries(Slot(m1, k1), i, w)' /\ Carries(Slot(m2, k2), i, w)'
              => m1 = m2 /\ k1 = k2
      BY <1>6, <1>9
    <2>3. \A i \in Nodes, w \in Nat :
            /\ ~(OnAir(i, w)' /\ InLine(i, w)')
            /\ ~(OnAir(i, w)' /\ HasArrived(i, w)')
            /\ ~(InLine(i, w)' /\ HasArrived(i, w)')
      BY <1>7 DEF OnceInv, OneCopy
    <2> QED
      BY <2>1, <2>2, <2>3 DEF OneCopy
  <1>11. SentByWrite'
    BY <1>2, <1>8, SentKept DEF OnceInv, InWait
  <1>12. OneTarget'
    BY <1>2 DEF OnceInv, OneTarget
  <1> QED
    BY <1>10, <1>11, <1>12 DEF OnceInv

(* The copy keeps its place in the line. *)
LEMMA EnqueueOnce ==
  ASSUME TypeInv, OnceInv, NEW n \in Nodes, Enqueue(n)
  PROVE  OnceInv'
  <1>1. UNCHANGED <<handler, arrived, air, call, writes>>
    BY DEF Enqueue, handlerVars, callVars
  <1>2. /\ DataQueue \in [Nodes -> Seq(Requests)]
        /\ received \in [Nodes -> Packet \cup {NoPacket}]
        /\ \A m \in Nodes : received'[m] = IF m = n THEN NoPacket ELSE received[m]
    BY DEF Enqueue, TypeInv, TypeOK
  <1>3. ASSUME NEW i \in Nodes, NEW w \in Nat, NEW m \in Nodes, NEW k \in Nat,
               Carries(Slot(m, k)', i, w)
        PROVE  Carries(Slot(m, k), i, w)
    <2>1. Slot(m, k)' # NoPacket
      BY <1>3, NoPacketAssumption DEF Carries
    <2>2. CASE IsReply(received[n])
      <3>1. DataQueue' = DataQueue
        BY <2>2 DEF Enqueue
      <3>2. Slot(m, k)' = Slot(m, k)
        BY <1>1, <1>2, <2>1, <3>1 DEF Slot, Place
      <3> QED
        BY <1>3, <3>2
    <2>3. CASE ~IsReply(received[n])
      <3> DEFINE q == DataQueue[n]
      <3>1. received[n] \in Requests
        BY <1>2, <2>3 DEF Enqueue, IsReply, Requests, Packet
      <3>2. q \in Seq(Requests) /\ \A j \in Nodes :
              DataQueue'[j] = IF j = n THEN Append(q, received[n]) ELSE DataQueue[j]
        BY <1>2, <2>3 DEF Enqueue
      <3>4. Slot(m, k)' = Slot(m, k)
        <4>1. CASE m = n
          <5>1. Slot(n, k)' = Place(handler[n], Append(q, received[n]), NoPacket, k)
            BY <1>1, <1>2, <3>2 DEF Slot
          <5> QED
            BY <3>1, <3>2, <4>1, <5>1, PlaceAppend DEF Slot
        <4>2. CASE m # n
          BY <1>1, <1>2, <3>2, <4>2 DEF Slot, Place
        <4> QED
          BY <4>1, <4>2
      <3> QED
        BY <1>3, <3>4
    <2> QED
      BY <2>2, <2>3
  <1>4. OneCopy' /\ \A i \in Nodes, w \in Nat : Sent(i, w)' => Sent(i, w)
    BY <1>1, <1>3, LinesStay DEF OnceInv
  <1>5. SentByWrite'
    BY <1>1, <1>4, SentKept DEF OnceInv, InWait
  <1>6. OneTarget'
    BY <1>1 DEF OnceInv, OneTarget
  <1> QED
    BY <1>4, <1>5, <1>6 DEF OnceInv

(* The line moves up. *)
LEMMA TakeDataOnce ==
  ASSUME TypeInv, OnceInv, NEW n \in Nodes, TakeData(n)
  PROVE  OnceInv'
  <1>1. UNCHANGED <<received, arrived, air, call, writes>>
    BY DEF TakeData, callVars
  <1> DEFINE q == DataQueue[n]
             up == [m \in Nodes |-> IF m = n THEN 1 ELSE 0]
  <1>2. /\ q \in Seq(Requests) /\ q # <<>>
        /\ \A m \in Nodes :
             /\ DataQueue'[m] = IF m = n THEN Tail(q) ELSE DataQueue[m]
             /\ handler'[m] = IF m = n THEN Handling(n, Head(q)) ELSE handler[m]
    BY DEF TakeData, TypeInv, TypeOK
  <1>3. /\ Head(q) = q[1] /\ Len(Tail(q)) = Len(q) - 1 /\ Len(q) \in Nat \ {0}
        /\ \A j \in 1 .. Len(Tail(q)) : Tail(q)[j] = q[j + 1]
    BY <1>2, HeadTailProperties, EmptySeq
  <1>4. ASSUME NEW i \in Nodes, NEW w \in Nat, NEW m \in Nodes, NEW k \in Nat,
               Carries(Slot(m, k)', i, w)
        PROVE  Carries(Slot(m, k + up[m]), i, w)
    <2>1. Slot(m, k)' # NoPacket
      BY <1>4, NoPacketAssumption DEF Carries
    <2>2. CASE m = n /\ k = 0
      <3>1. handler'[n].pc = "data"
        BY <1>2, <2>1, <2>2 DEF Slot, Place
      <3>2. handler'[n].p = q[1]
        BY <1>2, <1>3, <3>1 DEF Handling, Waiting
      <3>3. Slot(n, 1) = q[1]
        BY <1>3 DEF Slot, Place
      <3>4. Slot(n, 0)' = q[1]
        BY <3>1, <3>2 DEF Slot, Place
      <3> QED
        BY <1>4, <2>2, <3>3, <3>4
    <2>3. CASE m = n /\ k # 0
      <3>1. /\ Slot(n, k)' = Place(handler'[n], Tail(q), received[n], k)
            /\ Slot(n, k + 1) = Place(handler[n], q, received[n], k + 1)
        BY <1>1, <1>2 DEF Slot, q
      <3>2. Slot(n, k)' = Slot(n, k + 1)
        BY <1>2, <2>3, <3>1, PlaceTail
      <3> QED
        BY <1>4, <2>3, <3>2
    <2>4. CASE m # n
      <3>1. Slot(m, k)' = Slot(m, k)
        BY <1>1, <1>2, <2>4 DEF Slot, Place
      <3> QED
        BY <1>4, <2>4, <3>1
    <2> QED
      BY <2>2, <2>3, <2>4
  <1>5. up \in [Nodes -> Nat]
    OBVIOUS
  <1> HIDE DEF up, q
  <1>6. OneCopy' /\ \A i \in Nodes, w \in Nat : Sent(i, w)' => Sent(i, w)
    BY <1>1, <1>4, <1>5, NothingSent DEF OnceInv
  <1>7. SentByWrite'
    BY <1>1, <1>6, SentKept DEF OnceInv, InWait
  <1>8. OneTarget'
    BY <1>1 DEF OnceInv, OneTarget
  <1> QED
    BY <1>6, <1>7, <1>8 DEF OnceInv

(* Replies carry no data. *)
LEMMA SendReplyOnce ==
  ASSUME TypeInv, OnceInv, UNCHANGED <<callVars, queueVars, arrived>>,
         NEW n \in Nodes, NEW type \in AckTypes, handler[n].pc # "data",
         air' = air \cup {Reply(n, type, handler[n].p)},
         handler' = [handler EXCEPT ![n] = Waiting]
  PROVE  OnceInv'
  <1>1. \A i \in Nodes, w \in Nat : \A p \in air' : Carries(p, i, w) => p \in air
    BY DEF Carries, Reply, AckTypes
  <1>2. \A m \in Nodes :
          /\ handler'[m].pc = "data" <=> handler[m].pc = "data"
          /\ handler'[m].pc = "data" => handler'[m] = handler[m]
    BY DEF TypeInv, TypeOK, Waiting
  <1>3. \A m \in Nodes, k \in Nat : Slot(m, k)' = Slot(m, k)
    BY <1>2 DEF Slot, Place, queueVars
  <1>4. OneCopy' /\ \A i \in Nodes, w \in Nat : Sent(i, w)' => Sent(i, w)
    BY <1>1, <1>3, LinesStay DEF OnceInv
  <1>5. SentByWrite'
    BY <1>4, SentKept DEF OnceInv, InWait, callVars
  <1>6. OneTarget'
    BY DEF OnceInv, OneTarget, callVars
  <1> QED
    BY <1>4, <1>5, <1>6 DEF OnceInv

(* The copy leaves the line for RxData. *)
LEMMA DeliverOnce ==
  ASSUME TypeInv, HandlerHonest, OnceInv, NEW n \in Nodes, Deliver(n)
  PROVE  OnceInv'
  <1> DEFINE p == handler[n].p
  <1>1. /\ p \in Packet /\ p.type \in {"P2P", "RELAY_REQ"}
        /\ p.src \in Nodes /\ p.w \in Nat
    <2>1. handler[n].pc = "data" /\ p.type # "ADDR_REQ"
      BY DEF Deliver, HandlerHonest
    <2>2. p \in Requests
      BY <2>1 DEF TypeInv, TypeOK, Waiting
    <2> HIDE DEF p
    <2>3. p \in Packet /\ p.type \in {"P2P", "RELAY_REQ"}
      BY <2>1, <2>2 DEF Requests, DataTypes
    <2> QED
      BY <2>3 DEF Packet
  <1>2. /\ Slot(n, 0) = p /\ arrived' = arrived \cup {<<p.src, p.w, n>>}
        /\ UNCHANGED <<received, DataQueue, air, call, writes>>
    BY DEF Deliver, Slot, Place, callVars, queueVars
  <1>3. \A m \in Nodes : handler'[m] = IF m = n THEN [pc |-> "ack", p |-> p] ELSE handler[m]
    BY DEF Deliver, TypeInv, TypeOK
  <1> HIDE DEF p
  <1>4. \A m \in Nodes, k \in Nat :
          Slot(m, k)' = IF m = n /\ k = 0 THEN NoPacket ELSE Slot(m, k)
    BY <1>2, <1>3 DEF Slot, Place
  <1>5. \A i \in Nodes, w \in Nat : \A q : Carries(q, i, w)' <=> Carries(q, i, w)
    BY DEF Carries
  <1>6. \A i \in Nodes, w \in Nat : ~Carries(NoPacket, i, w)
    BY NoPacketAssumption DEF Carries
  <1>7. ASSUME NEW i \in Nodes, NEW w \in Nat
        PROVE  /\ OnAir(i, w)' <=> OnAir(i, w)
               /\ InLine(i, w)' => InLine(i, w) /\ ~(p.src = i /\ p.w = w)
               /\ HasArrived(i, w)' => HasArrived(i, w) \/ (p.src = i /\ p.w = w)
               /\ p.src = i /\ p.w = w => InLine(i, w)
    <2>1. OnAir(i, w)' <=> OnAir(i, w)
      BY <1>2, <1>5 DEF OnAir
    <2>2. p.src = i /\ p.w = w => Carries(Slot(n, 0), i, w)
      BY <1>1, <1>2 DEF Carries
    <2>3. p.src = i /\ p.w = w => InLine(i, w)
      BY <2>2 DEF InLine
    <2>4. HasArrived(i, w)' => HasArrived(i, w) \/ (p.src = i /\ p.w = w)
      BY <1>2 DEF HasArrived
    <2>5. ASSUME NEW m \in Nodes, NEW k \in Nat, Carries(Slot(m, k)', i, w)
          PROVE  InLine(i, w) /\ ~(p.src = i /\ p.w = w)
      <3>1. ~(m = n /\ k = 0) /\ Carries(Slot(m, k), i, w)
        BY <1>4, <1>6, <2>5
      <3>2. ~Carries(Slot(n, 0), i, w)
        BY <3>1 DEF OnceInv, OneCopy
      <3> QED
        BY <2>2, <3>1, <3>2 DEF InLine
    <2>6. InLine(i, w)' => InLine(i, w) /\ ~(p.src = i /\ p.w = w)
      BY <1>5, <2>5 DEF InLine
    <2> QED
      BY <2>1, <2>3, <2>4, <2>6
  <1>8. \A i \in Nodes, w \in Nat : Sent(i, w)' => Sent(i, w)
    BY <1>7 DEF Sent
  <1>9. OneCopy'
    <2>1. \A i \in Nodes, w \in Nat : \A q, r \in air' :
            Carries(q, i, w)' /\ Carries(r, i, w)' => q = r
      BY <1>2, <1>5 DEF OnceInv, OneCopy
    <2>2. \A i \in Nodes, w \in Nat : \A m1, m2 \in Nodes, k1, k2 \in Nat :
            Carries(Slot(m1, k1), i, w)' /\ Carries(Slot(m2, k2), i, w)'
              => m1 = m2 /\ k1 = k2
      BY <1>4, <1>5, <1>6 DEF OnceInv, OneCopy
    <2>3. \A i \in Nodes, w \in Nat :
            /\ ~(OnAir(i, w)' /\ InLine(i, w)')
            /\ ~(OnAir(i, w)' /\ HasArrived(i, w)')
            /\ ~(InLine(i, w)' /\ HasArrived(i, w)')
      BY <1>7 DEF OnceInv, OneCopy
    <2> QED
      BY <2>1, <2>2, <2>3 DEF OneCopy
  <1>10. SentByWrite'
    BY <1>2, <1>8, SentKept DEF OnceInv, InWait
  <1>11. OneTarget'
    BY <1>2 DEF OnceInv, OneTarget
  <1> QED
    BY <1>9, <1>10, <1>11 DEF OnceInv

(* NodeDetector and Read touch nothing that the invariant is about. *)
LEMMA OtherOnce ==
  ASSUME TypeInv, OnceInv, UNCHANGED <<callVars, queueVars, handler, arrived, air>>
  PROVE  OnceInv'
  <1>1. \A m \in Nodes, k \in Nat : Slot(m, k)' = Slot(m, k)
    BY SameSlots DEF queueVars
  <1>2. OneCopy' /\ \A i \in Nodes, w \in Nat : Sent(i, w)' => Sent(i, w)
    BY <1>1, LinesStay DEF OnceInv
  <1>3. SentByWrite'
    BY <1>2, SentKept DEF OnceInv, InWait, callVars
  <1>4. OneTarget'
    BY DEF OnceInv, OneTarget, callVars
  <1> QED
    BY <1>2, <1>3, <1>4 DEF OnceInv

-----------------------------------------------------------------------------
(* The steps of Send that transmit nothing. *)

(* A step of Send that transmits nothing keeps OnceInv. *)
LEMMA QuietOnce ==
  ASSUME TypeInv, OnceInv, UNCHANGED <<received, DataQueue, handlerVars, air>>,
         OneTarget',
         \A n \in Nodes :
           \/ Len(writes'[n]) = Len(writes[n]) + 1
           \/ /\ Len(writes'[n]) = Len(writes[n])
              /\ InWait(n) /\ call[n].stage # "resolve"
                   => InWait(n)' /\ call'[n].stage # "resolve"
  PROVE  OnceInv'
  <1>1. \A m \in Nodes, k \in Nat : Slot(m, k)' = Slot(m, k)
    BY SameSlots DEF handlerVars
  <1>2. OneCopy' /\ \A i \in Nodes, w \in Nat : Sent(i, w)' => Sent(i, w)
    BY <1>1, LinesStay DEF OnceInv, handlerVars
  <1>3. SentByWrite'
    BY <1>2, SentKept DEF OnceInv
  <1> QED
    BY <1>2, <1>3 DEF OnceInv

(* A call of n moves to c. *)
LEMMA TargetKept ==
  ASSUME TypeInv, OneTarget, NEW n \in Nodes, NEW c,
         call' = [call EXCEPT ![n] = c],
         c.stage \notin {"idle", "resolve"} => c.mac # BCST_MAC
  PROVE  /\ OneTarget'
         /\ \A m \in Nodes : call'[m] = IF m = n THEN c ELSE call[m]
  <1>1. \A m \in Nodes : call'[m] = IF m = n THEN c ELSE call[m]
    BY DEF TypeInv, TypeOK
  <1> QED
    BY <1>1 DEF OneTarget

(* A Write returns. *)
LEMMA ReturnsOnce ==
  ASSUME TypeInv, OneTarget, NEW n \in Nodes, NEW r \in Result,
         call' = [call EXCEPT ![n] = NoCall],
         writes' = [writes EXCEPT ![n] = Append(@, r)]
  PROVE  /\ OneTarget'
         /\ call'[n] = NoCall /\ Len(writes'[n]) = Len(writes[n]) + 1
         /\ \A m \in Nodes \ {n} : call'[m] = call[m] /\ writes'[m] = writes[m]
  <1>2. writes \in [Nodes -> Seq(Result)]
    BY DEF TypeInv, TypeOK
  <1>3. NoCall.stage = "idle"
    BY DEF NoCall
  <1>4. /\ OneTarget'
        /\ \A m \in Nodes : call'[m] = IF m = n THEN NoCall ELSE call[m]
    BY <1>3, TargetKept
  <1>5. /\ writes'[n] = Append(writes[n], r)
        /\ \A m \in Nodes \ {n} : writes'[m] = writes[m]
    BY <1>2
  <1>6. Len(writes'[n]) = Len(writes[n]) + 1
    BY <1>2, <1>5, AppendProperties
  <1> QED
    BY <1>4, <1>5, <1>6

(* A Tx that fails leaves Send at the relay, if nothing was sent yet, or   *)
(* the Write with an error.                                                *)
LEMMA TxFailsOnce ==
  ASSUME TypeInv, OneTarget, NEW n \in Nodes, call[n] \in Call, TxFails(n)
  PROVE  /\ OneTarget'
         /\ \A m \in Nodes \ {n} : call'[m] = call[m] /\ writes'[m] = writes[m]
         /\ \/ Len(writes'[n]) = Len(writes[n]) + 1 /\ call'[n] = NoCall
            \/ /\ writes' = writes /\ call[n].stage = "resolve"
               /\ call'[n].stage = "relay" /\ call'[n].at = "send"
  <1>1. CASE call[n].stage = "resolve" /\ NodeAddrs[n] # <<>>
    <2> DEFINE c == StartTx("relay", call[n].ip, NodeAddrs[n][1], 0)
    <2>1. call' = [call EXCEPT ![n] = c] /\ UNCHANGED writes
      BY <1>1 DEF TxFails
    <2>2. NodeAddrs[n][1] \in Nodes
      <3>1. NodeAddrs[n] \in Seq(Nodes)
        BY DEF TypeInv, TypeOK
      <3> QED
        BY <1>1, <3>1
    <2>3. c.stage = "relay" /\ c.at = "send" /\ c.mac # BCST_MAC
      BY <2>2, NfdAssumption DEF StartTx, Ips
    <2> HIDE DEF c
    <2>4. /\ OneTarget'
          /\ \A m \in Nodes : call'[m] = IF m = n THEN c ELSE call[m]
      BY <2>1, <2>3, TargetKept
    <2> QED
      BY <1>1, <2>1, <2>3, <2>4
  <1>2. CASE ~(call[n].stage = "resolve" /\ NodeAddrs[n] # <<>>)
    <2> DEFINE r == [ip |-> call[n].ip, ok |-> FALSE, lag |-> 0]
    <2>1. /\ call' = [call EXCEPT ![n] = NoCall]
          /\ writes' = [writes EXCEPT ![n] = Append(@, r)]
          /\ r \in Result
      BY <1>2 DEF TxFails, Return, Result, Call
    <2> HIDE DEF r
    <2>2. /\ OneTarget'
          /\ call'[n] = NoCall /\ Len(writes'[n]) = Len(writes[n]) + 1
          /\ \A m \in Nodes \ {n} : call'[m] = call[m] /\ writes'[m] = writes[m]
      BY <2>1, ReturnsOnce
    <2> QED
      BY <2>2
  <1> QED
    BY <1>1, <1>2

LEMMA WriteOnce ==
  ASSUME TypeInv, AddressesRight, OnceInv, NEW n \in Nodes, NEW ip \in Ips,
         Write(n, ip)
  PROVE  OnceInv'
  <1> DEFINE c == Route(n, ip)
  <1>1. call' = [call EXCEPT ![n] = c]
    BY DEF Write
  <1>2. c.stage # "resolve" => c.mac # BCST_MAC
    <2>1. ADDR_LIST[n][ip] \in {ip, NoMac} /\ ip # BCST_MAC
      BY NfdAssumption DEF AddressesRight
    <2>2. ip = ServerAddr[n] => NodeAddrs[n][1] \in Nodes
      <3>1. NodeAddrs[n] \in Seq(Nodes)
        BY DEF TypeInv, TypeOK
      <3>2. ip # NoIp
        BY NfdAssumption
      <3> QED
        BY <3>1, <3>2 DEF TypeInv, ServerAddrHasNeighbour
    <2>3. BCST_MAC \notin Nodes
      BY NfdAssumption DEF Ips
    <2> QED
      BY <2>1, <2>2, <2>3 DEF Route, StartTx
  <1> HIDE DEF c
  <1>3. /\ OneTarget'
        /\ \A m \in Nodes : call'[m] = IF m = n THEN c ELSE call[m]
    BY <1>1, <1>2, TargetKept DEF OnceInv
  <1>4. ~InWait(n) /\ UNCHANGED <<received, DataQueue, handlerVars, air, writes>>
    BY DEF Write, Mutex3Free, NoCall, InWait, queueVars
  <1> QED
    BY <1>3, <1>4, QuietOnce DEF InWait

LEMMA WriteRefusedOnce ==
  ASSUME TypeInv, OnceInv, NEW n \in Nodes, WriteRefused(n)
  PROVE  OnceInv'
  <1> DEFINE r == [ip |-> BCST_IPv4, ok |-> FALSE, lag |-> 0]
  <1>1. r \in Result /\ writes \in [Nodes -> Seq(Result)]
    <2>1. r \in Result
      BY DEF Result
    <2> QED
      BY <2>1 DEF TypeInv, TypeOK
  <1>2. writes' = [writes EXCEPT ![n] = Append(@, r)]
    BY DEF WriteRefused
  <1> HIDE DEF r
  <1>3. /\ writes'[n] = Append(writes[n], r)
        /\ \A m \in Nodes \ {n} : writes'[m] = writes[m]
    BY <1>1, <1>2
  <1>4. Len(writes'[n]) = Len(writes[n]) + 1
    BY <1>1, <1>3, AppendProperties
  <1>5. UNCHANGED <<received, DataQueue, handlerVars, air, call>>
    BY DEF WriteRefused, queueVars
  <1>6. OneTarget'
    BY <1>5 DEF OnceInv, OneTarget
  <1> QED
    BY <1>3, <1>4, <1>5, <1>6, QuietOnce DEF InWait

LEMMA FallAsleepOnce ==
  ASSUME TypeInv, OnceInv, NEW n \in Nodes, FallAsleep(n)
  PROVE  OnceInv'
  <1> DEFINE c == [call[n] EXCEPT !.at = "sleep"]
  <1>1. /\ call[n] \in Call /\ call' = [call EXCEPT ![n] = c]
        /\ UNCHANGED <<received, DataQueue, handlerVars, air, writes>>
    BY InSend DEF FallAsleep, TypeInv, TypeOK, queueVars
  <1>2. c.stage = call[n].stage /\ c.mac = call[n].mac /\ c.at = "sleep"
    BY <1>1 DEF Call
  <1> HIDE DEF c
  <1>3. /\ OneTarget'
        /\ \A m \in Nodes : call'[m] = IF m = n THEN c ELSE call[m]
    BY <1>1, <1>2, TargetKept DEF OnceInv, OneTarget
  <1> QED
    BY <1>1, <1>2, <1>3, QuietOnce DEF InWait

LEMMA TickOnce ==
  ASSUME TypeInv, OnceInv, NEW n \in Nodes, Tick(n)
  PROVE  OnceInv'
  <1>1. call[n] \in Call /\ UNCHANGED <<received, DataQueue, handlerVars, air>>
    BY InSend DEF Tick, TypeInv, TypeOK, queueVars
  <1>2. CASE call[n].count + 1 = Ticks
    <2>1. TxFails(n)
      BY <1>2 DEF Tick
    <2> QED
      BY <1>1, <2>1, TxFailsOnce, QuietOnce DEF OnceInv, InWait
  <1>3. CASE call[n].count + 1 # Ticks
    <2> DEFINE c == [call[n] EXCEPT
                       !.count = call[n].count + 1,
                       !.at = IF AckQueue[n] = <<>> THEN "sleep" ELSE "select"]
    <2>1. call' = [call EXCEPT ![n] = c] /\ writes' = writes
      BY <1>3 DEF Tick
    <2>2. /\ c.stage = call[n].stage /\ c.mac = call[n].mac
          /\ c.at \in {"sleep", "select"}
      BY <1>1 DEF Call
    <2> HIDE DEF c
    <2>3. /\ OneTarget'
          /\ \A m \in Nodes : call'[m] = IF m = n THEN c ELSE call[m]
      BY <2>1, <2>2, TargetKept DEF OnceInv, OneTarget
    <2> QED
      BY <1>1, <2>1, <2>2, <2>3, QuietOnce DEF InWait
  <1> QED
    BY <1>2, <1>3

LEMMA TakeAckOnce ==
  ASSUME TypeInv, TypeInv', OnceInv, NEW n \in Nodes, TakeAck(n)
  PROVE  OnceInv'
  <1> DEFINE ack == Head(AckQueue[n])
             lag == txCount[n] - ack.id
  <1>1. /\ call[n] \in Call /\ UNCHANGED <<received, DataQueue, handlerVars, air>>
        /\ AckQueue[n] # <<>>
    BY InSend DEF TakeAck, TypeInv, TypeOK
  <1>2. CASE ~Answers(n, ack)
    <2>1. UNCHANGED <<call, writes>>
      BY <1>2 DEF TakeAck
    <2> QED
      BY <1>1, <2>1, QuietOnce DEF OnceInv, OneTarget, InWait
  <1>3. CASE Answers(n, ack) /\ call[n].stage = "resolve"
    <2> DEFINE c == StartTx("resolved", call[n].ip, ADDR_LIST'[n][call[n].ip], lag)
    <2>1. call' = [call EXCEPT ![n] = c] /\ writes' = writes
      BY <1>3 DEF TakeAck, TxSucceeds
    <2>2. ADDR_LIST'[n][call[n].ip] \in Nodes \cup {NoMac}
      BY <1>1 DEF TypeInv, TypeOK, Call
    <2>3. c.mac # BCST_MAC
      BY <2>2, NfdAssumption DEF StartTx, Ips
    <2> HIDE DEF c
    <2>4. /\ OneTarget'
          /\ \A m \in Nodes : call'[m] = IF m = n THEN c ELSE call[m]
      BY <2>1, <2>3, TargetKept DEF OnceInv
    <2> QED
      BY <1>1, <1>3, <2>1, <2>4, QuietOnce DEF InWait
  <1>4. CASE Answers(n, ack) /\ call[n].stage # "resolve"
    <2> DEFINE r == [ip |-> call[n].ip, ok |-> TRUE, lag |-> lag]
    <2>1. /\ call' = [call EXCEPT ![n] = NoCall]
          /\ writes' = [writes EXCEPT ![n] = Append(@, r)]
      BY <1>4 DEF TakeAck, TxSucceeds, Return
    <2>2. lag \in Int
      <3>1. AckQueue[n] \in Seq(Replies) /\ txCount[n] \in Nat
        BY DEF TypeInv, TypeOK
      <3>2. ack \in Packet
        BY <1>1, <3>1, QueueTail DEF Replies
      <3> QED
        BY <3>1, <3>2 DEF Packet
    <2> HIDE DEF lag, ack
    <2>3. r \in Result
      BY <1>1, <2>2 DEF Result, Call
    <2> HIDE DEF r
    <2> QED
      BY <1>1, <2>1, <2>3, ReturnsOnce, QuietOnce DEF OnceInv, InWait
  <1> QED
    BY <1>2, <1>3, <1>4

-----------------------------------------------------------------------------
(* A transmission puts the data of the Write on the air, to one node. *)

(* Only a transmission of a Write past the search carries data, and it has *)
(* one receiver.                                                           *)
LEMMA NewCopy ==
  ASSUME TypeInv, OneTarget, NEW n \in Nodes, call[n] \in Call,
         NEW seq, NEW id, NEW i \in Nodes, NEW w \in Nat,
         NEW m1 \in Targets(n, call[n].mac), NEW p, p = Request(n, m1, seq, id),
         Carries(p, i, w)
  PROVE  /\ i = n /\ w = Len(writes[n]) + 1 /\ call[n].stage # "resolve"
         /\ \A m2 \in Targets(n, call[n].mac) : m1 = m2
  <1>1. /\ p.type = TxType(call[n].stage) /\ p.src = n
        /\ p.w = IF call[n].stage = "resolve" THEN 0 ELSE Len(writes[n]) + 1
    BY DEF Request
  <1>2. call[n].stage # "resolve"
    BY <1>1 DEF Carries, TxType
  <1>3. call[n].mac # BCST_MAC
    BY <1>2 DEF OneTarget, Call, Stages
  <1> QED
    BY <1>1, <1>2, <1>3 DEF Carries, Targets

LEMMA TransmitOnce ==
  ASSUME TypeInv, OnceInv, NEW n \in Nodes, Transmit(n)
  PROVE  OnceInv'
  <1> DEFINE seq == (Seq_[n] + 1) % SeqMod
             id == txCount[n] + 1
             w0 == Len(writes[n]) + 1
             New == {Request(n, m, seq, id) : m \in Targets(n, call[n].mac)}
  <1>1. /\ call[n] \in Call /\ ~InWait(n) /\ air' = air \cup New
        /\ UNCHANGED <<received, DataQueue, handler, arrived>>
    BY InSend DEF Transmit, TypeInv, TypeOK, InWait, queueVars, handlerVars
  <1>2. w0 \in Nat /\ Len(writes[n]) \in Nat
    BY DEF TypeInv, TypeOK
  <1>3. /\ OneTarget'
        /\ \A m \in Nodes \ {n} : call'[m] = call[m] /\ writes'[m] = writes[m]
        /\ \/ Len(writes'[n]) = Len(writes[n]) + 1
           \/ /\ writes' = writes
              /\ call[n].stage # "resolve" => /\ call'[n].stage # "resolve"
                                              /\ InWait(n)'
    <2>1. CASE call' = [call EXCEPT ![n].at = "select"] /\ writes' = writes
      <3> DEFINE c == [call[n] EXCEPT !.at = "select"]
      <3>1. call' = [call EXCEPT ![n] = c]
        BY <2>1
      <3>2. c.stage = call[n].stage /\ c.mac = call[n].mac /\ c.at = "select"
        BY <1>1 DEF Call
      <3> HIDE DEF c
      <3>3. /\ OneTarget'
            /\ \A m \in Nodes : call'[m] = IF m = n THEN c ELSE call[m]
        BY <3>1, <3>2, TargetKept DEF OnceInv, OneTarget
      <3> QED
        BY <2>1, <3>2, <3>3 DEF InWait
    <2>2. CASE TxFails(n)
      BY <1>1, <2>2, TxFailsOnce DEF OnceInv
    <2> QED
      BY <2>1, <2>2 DEF Transmit
  <1>4. ASSUME NEW i \in Nodes, NEW w \in Nat, NEW p \in New, Carries(p, i, w)
        PROVE  /\ i = n /\ w = w0 /\ call[n].stage # "resolve"
               /\ \A q \in New : p = q
    <2>1. PICK m1 \in Targets(n, call[n].mac) : p = Request(n, m1, seq, id)
      OBVIOUS
    <2> HIDE DEF seq, id
    <2>2. /\ i = n /\ w = w0 /\ call[n].stage # "resolve"
          /\ \A m2 \in Targets(n, call[n].mac) : m1 = m2
      BY <1>1, <1>4, <2>1, NewCopy DEF OnceInv
    <2> QED
      BY <2>1, <2>2
  <1>5. ~Sent(n, w0)
    BY <1>1, <1>2 DEF OnceInv, SentByWrite
  <1> HIDE DEF w0, New
  <1>6. \A i \in Nodes, w \in Nat : \A q : Carries(q, i, w)' <=> Carries(q, i, w)
    BY DEF Carries
  <1>7. \A m \in Nodes, k \in Nat : Slot(m, k)' = Slot(m, k)
    BY <1>1, SameSlots
  <1>8. ASSUME NEW i \in Nodes, NEW w \in Nat
        PROVE  /\ OnAir(i, w)' => \/ OnAir(i, w)
                                  \/ i = n /\ w = w0 /\ call[n].stage # "resolve"
               /\ InLine(i, w)' <=> InLine(i, w)
               /\ HasArrived(i, w)' <=> HasArrived(i, w)
    <2>1. OnAir(i, w)' => \/ OnAir(i, w)
                          \/ i = n /\ w = w0 /\ call[n].stage # "resolve"
      BY <1>1, <1>4, <1>6 DEF OnAir
    <2>2. InLine(i, w)' <=> InLine(i, w)
      BY <1>6, <1>7 DEF InLine
    <2>3. HasArrived(i, w)' <=> HasArrived(i, w)
      BY <1>1 DEF HasArrived
    <2> QED
      BY <2>1, <2>2, <2>3
  <1>9. OneCopy'
    <2>1. ASSUME NEW i \in Nodes, NEW w \in Nat, NEW q \in air', NEW r \in air',
                 Carries(q, i, w), Carries(r, i, w)
          PROVE  q = r
      <3>1. CASE i = n /\ w = w0
        <4>1. q \in New /\ r \in New
          BY <1>1, <1>5, <2>1, <3>1 DEF Sent, OnAir
        <4> QED
          BY <1>4, <2>1, <4>1
      <3>2. CASE ~(i = n /\ w = w0)
        <4>1. q \in air /\ r \in air
          BY <1>1, <1>4, <2>1, <3>2
        <4> QED
          BY <2>1, <4>1 DEF OnceInv, OneCopy
      <3> QED
        BY <3>1, <3>2
    <2>2. \A i \in Nodes, w \in Nat : \A q, r \in air' :
            Carries(q, i, w)' /\ Carries(r, i, w)' => q = r
      BY <1>6, <2>1
    <2>3. \A i \in Nodes, w \in Nat : \A m1, m2 \in Nodes, k1, k2 \in Nat :
            Carries(Slot(m1, k1), i, w)' /\ Carries(Slot(m2, k2), i, w)'
              => m1 = m2 /\ k1 = k2
      BY <1>6, <1>7 DEF OnceInv, OneCopy
    <2>4. \A i \in Nodes, w \in Nat :
            /\ ~(OnAir(i, w)' /\ InLine(i, w)')
            /\ ~(OnAir(i, w)' /\ HasArrived(i, w)')
            /\ ~(InLine(i, w)' /\ HasArrived(i, w)')
      BY <1>5, <1>8 DEF Sent, OnceInv, OneCopy
    <2> QED
      BY <2>2, <2>3, <2>4 DEF OneCopy
  <1>10. SentByWrite'
    <2> SUFFICES ASSUME NEW i \in Nodes, NEW w \in Nat, Sent(i, w)'
                 PROVE  \/ w \in 1 .. Len(writes'[i])
                        \/ /\ w = Len(writes'[i]) + 1
                           /\ InWait(i)' /\ call'[i].stage # "resolve"
      BY DEF SentByWrite
    <2>1. \/ Sent(i, w)
          \/ i = n /\ w = w0 /\ call[n].stage # "resolve"
      BY <1>8 DEF Sent
    <2>2. CASE Sent(i, w)
      <3>1. \/ w \in 1 .. Len(writes[i])
            \/ w = Len(writes[i]) + 1 /\ InWait(i) /\ call[i].stage # "resolve"
        BY <2>2 DEF OnceInv, SentByWrite
      <3> QED
        BY <1>1, <1>2, <1>3, <3>1 DEF InWait
    <2>3. CASE i = n /\ w = w0 /\ call[n].stage # "resolve"
      BY <1>2, <1>3, <2>3 DEF w0
    <2> QED
      BY <2>1, <2>2, <2>3
  <1> QED
    BY <1>3, <1>9, <1>10 DEF OnceInv

-----------------------------------------------------------------------------
(* What a Write delivers, it delivers once. *)

Once == ~Duplicates => OnceInv

LEMMA NextOnce == TypeInv /\ DeliveryInv /\ Once /\ [Next]_vars => Once'
  <1> SUFFICES ASSUME TypeInv, DeliveryInv, ~Duplicates, OnceInv, [Next]_vars
               PROVE  OnceInv'
    BY DEF Once
  <1>1. TypeInv'
    BY NextTypeInv
  <1>2. CASE UNCHANGED vars
    BY <1>2, OtherOnce DEF vars, handlerVars
  <1>3. ASSUME NEW n \in Nodes, SendAddrResp(n)
        PROVE  OnceInv'
    BY <1>3, SendReplyOnce DEF SendAddrResp, AckTypes
  <1>4. ASSUME NEW n \in Nodes, SendAck(n)
        PROVE  OnceInv'
    BY <1>4, SendReplyOnce DEF SendAck, AckTypes
  <1>5. ASSUME NEW n \in Nodes, DetectNodes(n) \/ Read(n)
        PROVE  OnceInv'
    BY <1>5, OtherOnce DEF DetectNodes, Read, handlerVars
  <1>6. ASSUME NEW n \in Nodes, NEW ip \in Ips, Write(n, ip)
        PROVE  OnceInv'
    BY <1>6, WriteOnce DEF DeliveryInv
  <1>7. ASSUME NEW n \in Nodes, Deliver(n)
        PROVE  OnceInv'
    BY <1>7, DeliverOnce DEF DeliveryInv
  <1> QED
    BY <1>1, <1>2, <1>3, <1>4, <1>5, <1>6, <1>7, WriteRefusedOnce,
       TransmitOnce, TakeAckOnce, FallAsleepOnce, TickOnce,
       ReceiveOnce, EnqueueOnce, TakeDataOnce
    DEF Next

LEMMA OnceInvariant == Spec => [](TypeInv /\ DeliveryInv /\ Once)
  <1>1. Init => Once
    BY InitOnce DEF Once
  <1>2. TypeInv /\ DeliveryInv /\ Once /\ [Next]_vars => Once'
    BY NextOnce
  <1> QED
    BY <1>1, <1>2, DeliveryInvariant, PTL DEF Spec

(* A step that adds to a buffer is the delivery of a packet. *)
LEMMA OnlyDeliverAdds ==
  ASSUME TypeInv, [Next]_vars, NEW n \in Nodes, Len(RxData'[n]) > Len(RxData[n])
  PROVE  Deliver(n)
  <1>1. RxData \in [Nodes -> Seq([src: Nodes, w: Nat])] /\ Len(RxData[n]) \in Nat
    <2> DEFINE Data == [src: Nodes, w: Nat]
    <2>1. RxData \in [Nodes -> Seq(Data)]
      BY DEF TypeInv, TypeOK
    <2> HIDE DEF Data
    <2>2. Len(RxData[n]) \in Nat
      BY <2>1
    <2> QED
      BY <2>1, <2>2 DEF Data
  <1>2. ASSUME NEW m \in Nodes, Read(m)
        PROVE  FALSE
    <2>1. RxData'[n] = IF m = n THEN Tail(RxData[n]) ELSE RxData[n]
      BY <1>1, <1>2 DEF Read
    <2>2. m = n => Len(Tail(RxData[n])) < Len(RxData[n])
      BY <1>1, <1>2, QueueTail DEF Read
    <2> QED
      BY <1>1, <2>1, <2>2, QueueTail DEF Read
  <1>3. RxData' # RxData
    BY <1>1
  <1>4. PICK m \in Nodes : Deliver(m)
    BY <1>2, <1>3 DEF Next, vars, handlerVars, Write, WriteRefused, Transmit,
       TakeAck, FallAsleep, Tick, Receive, Enqueue, TakeData, SendAddrResp,
       SendAck, DetectNodes
  <1>5. RxData'[n] = RxData[n] \/ m = n
    BY <1>1, <1>4 DEF Deliver
  <1> QED
    BY <1>1, <1>4, <1>5

(* The data of one Write is put into RxData at most once in all, whatever  *)
(* times out and is answered late, if the medium repeats nothing: Send has *)
(* three ways to transmit it and takes one of them (nfd.go:308-333).       *)
THEOREM DataArrivesOnce == Spec => NeverTwice
  <1>1. ASSUME TypeInv, DeliveryInv, Once, [Next]_vars, ~Duplicates,
               NEW n \in Nodes, Len(RxData'[n]) > Len(RxData[n]),
               NEW m \in Nodes
        PROVE  LET d == RxData'[n][Len(RxData'[n])] IN
                 <<d.src, d.w, m>> \notin arrived
    <2> DEFINE p == handler[n].p
    <2>1. Deliver(n)
      BY <1>1, OnlyDeliverAdds
    <2>2. p \in Packet /\ p.type \in {"P2P", "RELAY_REQ"}
      <3>1. handler[n].pc = "data" /\ p.type # "ADDR_REQ"
        BY <1>1, <2>1 DEF Deliver, DeliveryInv, HandlerHonest
      <3>2. p \in Requests
        BY <1>1, <3>1 DEF TypeInv, TypeOK, Waiting
      <3> HIDE DEF p
      <3> QED
        BY <3>1, <3>2 DEF Requests, DataTypes
    <2>3. p.src \in Nodes /\ p.w \in Nat
      BY <2>2 DEF Packet
    <2>4. Slot(n, 0) = p
      BY <2>1 DEF Deliver, Slot, Place
    <2> DEFINE d == [src |-> p.src, w |-> p.w]
    <2>5. RxData'[n] = Append(RxData[n], d)
      BY <1>1, <2>1 DEF Deliver, TypeInv, TypeOK
    <2>6. RxData[n] \in Seq([src: Nodes, w: Nat]) /\ d \in [src: Nodes, w: Nat]
      BY <1>1, <2>3 DEF TypeInv, TypeOK
    <2> HIDE DEF p
    <2>7. d.src = p.src /\ d.w = p.w
      OBVIOUS
    <2> HIDE DEF d
    <2>8. RxData'[n][Len(RxData'[n])] = d
      BY <2>5, <2>6, AppendProperties
    <2>9. InLine(p.src, p.w)
      BY <2>2, <2>3, <2>4 DEF InLine, Carries
    <2>10. ~HasArrived(p.src, p.w)
      BY <1>1, <2>3, <2>9 DEF Once, OnceInv, OneCopy
    <2> QED
      BY <2>7, <2>8, <2>10 DEF HasArrived
  <1>2. TypeInv /\ DeliveryInv /\ Once /\ [Next]_vars =>
          (~Duplicates => \A n \in Nodes :
             Len(RxData'[n]) > Len(RxData[n]) =>
               LET d == RxData'[n][Len(RxData'[n])] IN
               \A m \in Nodes : <<d.src, d.w, m>> \notin arrived)
    BY <1>1
  <1> QED
    BY <1>2, OnceInvariant, PTL DEF Spec, NeverTwice

-----------------------------------------------------------------------------
(* How old an answer can be.  A Write makes two transmissions at most, and *)
(* the reply that it takes for its answer is to one of its node's.         *)

(* The transmissions that call c has made. *)
Made(c) ==
  IF c.stage \in {"resolved", "relay"}
  THEN IF c.at \in {"select", "sleep"} THEN 2 ELSE 1
  ELSE IF c.at \in {"select", "sleep"} THEN 1 ELSE 0

Counts(n) ==
  /\ Len(writes[n]) <= MaxWrites[n]
  /\ ~Mutex3Free(n) => Len(writes[n]) < MaxWrites[n]
  /\ txCount[n] <= 2 * Len(writes[n]) + Made(call[n])
  /\ \A w \in DOMAIN writes[n] :
       writes[n][w].ok => writes[n][w].lag < txCount[n]

CountInv == \A n \in Nodes : Counts(n)

(* A call makes two transmissions at most: before it makes one, it has     *)
(* made one at most.                                                       *)
LEMMA MadeType ==
  \A c : Made(c) \in 0 .. 2 /\ (c.at = "send" => Made(c) \in 0 .. 1)
  BY DEF Made

LEMMA SameCounts ==
  ASSUME CountInv, UNCHANGED <<call, writes, txCount>>
  PROVE  CountInv'
  BY DEF CountInv, Counts, Mutex3Free

(* A call of n moves to c, after it has transmitted or not. *)
LEMMA MoveCounts ==
  ASSUME TypeInv, CountInv, NEW n \in Nodes, NEW c, NEW t \in Nat,
         call' = [call EXCEPT ![n] = c], writes' = writes,
         txCount' = [txCount EXCEPT ![n] = t], txCount[n] <= t,
         Mutex3Free(n) => Len(writes[n]) < MaxWrites[n],
         t <= 2 * Len(writes[n]) + Made(c)
  PROVE  CountInv'
  <1>1. \A m \in Nodes :
          /\ call'[m] = IF m = n THEN c ELSE call[m]
          /\ txCount'[m] = IF m = n THEN t ELSE txCount[m]
          /\ txCount[m] \in Nat /\ writes[m] \in Seq(Result)
    BY DEF TypeInv, TypeOK
  <1>2. Counts(n)'
    <2>1. Len(writes[n]) \in Nat /\ MaxWrites[n] \in Nat
      BY <1>1, NfdAssumption
    <2>2. Len(writes[n]) < MaxWrites[n]
      BY DEF CountInv, Counts
    <2>3. ASSUME NEW w \in DOMAIN writes[n], writes[n][w].ok
          PROVE  writes[n][w].lag < t
      <3>1. writes[n][w].lag < txCount[n]
        BY <2>3 DEF CountInv, Counts
      <3>2. writes[n][w] \in Result
        BY <1>1, <2>3, ElementOfSeq
      <3>3. writes[n][w].lag \in Int
        BY <3>2 DEF Result
      <3> QED
        BY <1>1, <3>1, <3>3
    <2> QED
      BY <1>1, <2>1, <2>2, <2>3 DEF Counts
  <1>3. \A m \in Nodes \ {n} : Counts(m)'
    BY <1>1 DEF CountInv, Counts, Mutex3Free
  <1> QED
    BY <1>2, <1>3 DEF CountInv

(* A Write of n ends with result r. *)
LEMMA ReturnCounts ==
  ASSUME TypeInv, CountInv, NEW n \in Nodes, NEW r \in Result, NEW t \in Nat,
         call' = [call EXCEPT ![n] = NoCall],
         writes' = [writes EXCEPT ![n] = Append(@, r)],
         txCount' = [txCount EXCEPT ![n] = t], txCount[n] <= t,
         Len(writes[n]) < MaxWrites[n],
         t <= 2 * Len(writes[n]) + 2, r.ok => r.lag < t
  PROVE  CountInv'
  <1>1. \A m \in Nodes :
          /\ call'[m] = IF m = n THEN NoCall ELSE call[m]
          /\ txCount'[m] = IF m = n THEN t ELSE txCount[m]
          /\ writes'[m] = IF m = n THEN Append(writes[n], r) ELSE writes[m]
          /\ txCount[m] \in Nat /\ writes[m] \in Seq(Result)
    BY DEF TypeInv, TypeOK
  <1>2. /\ Len(Append(writes[n], r)) = Len(writes[n]) + 1 /\ Len(writes[n]) \in Nat
        /\ \A w \in 1 .. Len(writes[n]) : Append(writes[n], r)[w] = writes[n][w]
        /\ Append(writes[n], r)[Len(writes[n]) + 1] = r
    BY <1>1, AppendProperties
  <1> DEFINE a == Append(writes[n], r)
             l == Len(writes[n])
  <1>3. /\ writes'[n] = a /\ Len(a) = l + 1 /\ l \in Nat
        /\ DOMAIN a = 1 .. l + 1 /\ DOMAIN writes[n] = 1 .. l
        /\ \A w \in 1 .. l : a[w] = writes[n][w]
        /\ a[l + 1] = r
    <2>1. a \in Seq(Result)
      BY <1>1, AppendProperties
    <2> QED
      BY <1>1, <1>2, <2>1, LenProperties
  <1> HIDE DEF a
  <1>4. ASSUME NEW w \in 1 .. l + 1, a[w].ok
        PROVE  a[w].lag < t
    <2>1. CASE w = l + 1
      BY <1>3, <1>4, <2>1
    <2>2. CASE w \in 1 .. l
      <3>1. writes[n][w].lag < txCount[n]
        BY <1>3, <1>4, <2>2 DEF CountInv, Counts
      <3>2. writes[n][w] \in Result
        BY <1>1, <1>3, <2>2, ElementOfSeq
      <3>3. writes[n][w].lag \in Int
        BY <3>2 DEF Result
      <3> QED
        BY <1>1, <1>3, <2>2, <3>1, <3>3
    <2> QED
      BY <1>3, <2>1, <2>2
  <1> HIDE DEF l
  <1>5. Counts(n)'
    <2>1. MaxWrites[n] \in Nat /\ l < MaxWrites[n] /\ t <= 2 * l + 2
      BY NfdAssumption DEF l
    <2>2. Mutex3Free(n)' /\ Made(call'[n]) = 0
      BY <1>1 DEF Mutex3Free, Made, NoCall
    <2>3. t <= 2 * (l + 1)
      BY <1>3, <2>1
    <2> QED
      BY <1>1, <1>3, <1>4, <2>1, <2>2, <2>3 DEF Counts
  <1>6. \A m \in Nodes \ {n} : Counts(m)'
    BY <1>1 DEF CountInv, Counts, Mutex3Free
  <1> QED
    BY <1>5, <1>6 DEF CountInv

(* A Tx fails, of a call that may have made one transmission more. *)
LEMMA TxFailsCounts ==
  ASSUME TypeInv, CountInv, NEW n \in Nodes, call[n] \in Call, TxFails(n),
         NEW t \in Nat, txCount' = [txCount EXCEPT ![n] = t], txCount[n] <= t,
         t <= 2 * Len(writes[n]) + 2,
         call[n].stage = "resolve" => t <= 2 * Len(writes[n]) + 1
  PROVE  CountInv'
  <1>1. Len(writes[n]) \in Nat
    BY DEF TypeInv, TypeOK
  <1>2. ~Mutex3Free(n)
    BY DEF Mutex3Free, NoCall, Call, Stages
  <1>3. Len(writes[n]) < MaxWrites[n]
    BY <1>2 DEF CountInv, Counts
  <1>4. CASE call[n].stage = "resolve" /\ NodeAddrs[n] # <<>>
    <2> DEFINE c == StartTx("relay", call[n].ip, NodeAddrs[n][1], 0)
    <2>1. call' = [call EXCEPT ![n] = c] /\ writes' = writes
      BY <1>4 DEF TxFails
    <2>2. Made(c) = 1
      BY DEF StartTx, Made
    <2> HIDE DEF c
    <2> QED
      BY <1>1, <1>3, <1>4, <2>1, <2>2, MoveCounts
  <1>5. CASE ~(call[n].stage = "resolve" /\ NodeAddrs[n] # <<>>)
    <2> DEFINE r == [ip |-> call[n].ip, ok |-> FALSE, lag |-> 0]
    <2>1. /\ call' = [call EXCEPT ![n] = NoCall]
          /\ writes' = [writes EXCEPT ![n] = Append(@, r)]
          /\ r \in Result /\ ~r.ok
      BY <1>5 DEF TxFails, Return, Result, Call
    <2> HIDE DEF r
    <2> QED
      BY <1>1, <1>3, <2>1, ReturnCounts
  <1> QED
    BY <1>4, <1>5

LEMMA NextCounts == TypeInv /\ CountInv /\ [Next]_vars => CountInv'
  <1> SUFFICES ASSUME TypeInv, CountInv, [Next]_vars PROVE CountInv'
    OBVIOUS
  <1>0. /\ \A n \in Nodes : /\ txCount[n] \in Nat /\ Len(writes[n]) \in Nat
                            /\ call[n] \in Call \cup {NoCall}
        /\ txCount \in [Nodes -> Nat] /\ writes \in [Nodes -> Seq(Result)]
    BY DEF TypeInv, TypeOK
  <1>1. ASSUME NEW n \in Nodes, NEW ip \in Ips, Write(n, ip)
        PROVE  CountInv'
    <2> DEFINE c == Route(n, ip)
               t == txCount[n]
    <2>1. Made(c) = 0
      BY DEF Route, StartTx, Made
    <2>2. /\ call' = [call EXCEPT ![n] = c] /\ writes' = writes
          /\ txCount' = [txCount EXCEPT ![n] = t]
          /\ Len(writes[n]) < MaxWrites[n]
      BY <1>0, <1>1 DEF Write
    <2> HIDE DEF c
    <2>3. t <= 2 * Len(writes[n])
      <3>1. Made(call[n]) = 0
        BY <1>1 DEF Write, Mutex3Free, NoCall, Made
      <3> QED
        BY <1>0, <3>1 DEF CountInv, Counts
    <2>4. /\ t \in Nat /\ txCount[n] <= t
          /\ t <= 2 * Len(writes[n]) + Made(c)
      BY <1>0, <2>1, <2>3
    <2> HIDE DEF t
    <2> QED
      BY <2>2, <2>4, MoveCounts
  <1>2. ASSUME NEW n \in Nodes, WriteRefused(n)
        PROVE  CountInv'
    <2> DEFINE r == [ip |-> BCST_IPv4, ok |-> FALSE, lag |-> 0]
               t == txCount[n]
    <2>1. r \in Result /\ ~r.ok
      BY DEF Result
    <2>2. /\ writes' = [writes EXCEPT ![n] = Append(@, r)]
          /\ txCount' = [txCount EXCEPT ![n] = t]
          /\ Len(writes[n]) < MaxWrites[n]
          /\ call[n] = NoCall /\ call' = call
      BY <1>0, <1>2 DEF WriteRefused, Mutex3Free
    <2> HIDE DEF r
    <2>3. t <= 2 * Len(writes[n])
      <3>1. Made(call[n]) = 0
        BY <2>2 DEF NoCall, Made
      <3> QED
        BY <1>0, <3>1 DEF CountInv, Counts
    <2>4. call' = [call EXCEPT ![n] = NoCall]
      BY <2>2 DEF TypeInv, TypeOK
    <2>5. t \in Nat /\ txCount[n] <= t /\ t <= 2 * Len(writes[n]) + 2
      BY <1>0, <2>3
    <2> HIDE DEF t
    <2> QED
      BY <2>1, <2>2, <2>4, <2>5, ReturnCounts
  <1>3. ASSUME NEW n \in Nodes, Transmit(n)
        PROVE  CountInv'
    <2> DEFINE t == txCount[n] + 1
    <2>1. /\ call[n] \in Call /\ call[n].at = "send"
          /\ txCount' = [txCount EXCEPT ![n] = t]
      BY <1>0, <1>3, InSend DEF Transmit
    <2>2. /\ t <= 2 * Len(writes[n]) + 2
          /\ call[n].stage = "resolve" => t <= 2 * Len(writes[n]) + 1
          /\ t <= 2 * Len(writes[n]) + Made(call[n]) + 1
      <3>1. /\ Made(call[n]) \in 0 .. 1
            /\ call[n].stage = "resolve" => Made(call[n]) = 0
        BY <2>1 DEF Made
      <3> QED
        BY <1>0, <3>1 DEF CountInv, Counts
    <2>3. t \in Nat /\ txCount[n] <= t
      BY <1>0
    <2> HIDE DEF t
    <2>4. CASE call' = [call EXCEPT ![n].at = "select"] /\ writes' = writes
      <3> DEFINE c == [call[n] EXCEPT !.at = "select"]
      <3>1. /\ c.stage = call[n].stage /\ c.at = "select" /\ ~Mutex3Free(n)
            /\ call' = [call EXCEPT ![n] = c]
        BY <2>1, <2>4 DEF Call, Mutex3Free, NoCall
      <3>2. Made(c) = Made(call[n]) + 1
        BY <2>1, <3>1 DEF Made
      <3> HIDE DEF c
      <3>3. t <= 2 * Len(writes[n]) + Made(c)
        BY <1>0, <2>2, <2>3, <3>2, MadeType
      <3> QED
        BY <1>0, <2>1, <2>3, <2>4, <3>1, <3>3, MoveCounts
    <2>5. CASE TxFails(n)
      BY <2>1, <2>2, <2>3, <2>5, TxFailsCounts
    <2> QED
      BY <1>3, <2>4, <2>5 DEF Transmit
  <1>4. ASSUME NEW n \in Nodes, FallAsleep(n)
        PROVE  CountInv'
    <2> DEFINE c == [call[n] EXCEPT !.at = "sleep"]
               t == txCount[n]
    <2>1. /\ call[n] \in Call /\ call[n].at = "select" /\ writes' = writes
          /\ txCount' = [txCount EXCEPT ![n] = t]
          /\ call' = [call EXCEPT ![n] = c]
      BY <1>0, <1>4, InSend DEF FallAsleep
    <2>2. c.stage = call[n].stage /\ c.at = "sleep" /\ ~Mutex3Free(n)
      BY <2>1 DEF Call, Mutex3Free, NoCall
    <2>3. Made(c) = Made(call[n])
      BY <2>1, <2>2 DEF Made
    <2>4. t <= 2 * Len(writes[n]) + Made(c)
      BY <2>3 DEF CountInv, Counts
    <2> HIDE DEF c
    <2>5. t \in Nat /\ txCount[n] <= t
      BY <1>0
    <2> HIDE DEF t
    <2> QED
      BY <2>1, <2>2, <2>4, <2>5, MoveCounts
  <1>5. ASSUME NEW n \in Nodes, Tick(n)
        PROVE  CountInv'
    <2> DEFINE t == txCount[n]
    <2>1. /\ call[n] \in Call /\ call[n].at = "sleep"
          /\ txCount' = [txCount EXCEPT ![n] = t]
      BY <1>0, <1>5, InSend DEF Tick
    <2>2. /\ t <= 2 * Len(writes[n]) + 2
          /\ call[n].stage = "resolve" => t <= 2 * Len(writes[n]) + 1
          /\ t <= 2 * Len(writes[n]) + Made(call[n])
      <3>1. /\ Made(call[n]) \in 1 .. 2
            /\ call[n].stage = "resolve" => Made(call[n]) = 1
        BY <2>1 DEF Made
      <3> QED
        BY <1>0, <3>1 DEF CountInv, Counts
    <2>0. t \in Nat /\ txCount[n] <= t
      BY <1>0
    <2> HIDE DEF t
    <2>3. CASE call[n].count + 1 = Ticks
      <3>1. TxFails(n)
        BY <1>5, <2>3 DEF Tick
      <3> QED
        BY <2>0, <2>1, <2>2, <3>1, TxFailsCounts
    <2>4. CASE call[n].count + 1 # Ticks
      <3> DEFINE c == [call[n] EXCEPT
                         !.count = call[n].count + 1,
                         !.at = IF AckQueue[n] = <<>> THEN "sleep" ELSE "select"]
      <3>1. call' = [call EXCEPT ![n] = c] /\ writes' = writes
        BY <1>5, <2>4 DEF Tick
      <3>2. c.stage = call[n].stage /\ c.at \in {"sleep", "select"} /\ ~Mutex3Free(n)
        BY <2>1 DEF Call, Mutex3Free, NoCall
      <3>3. Made(c) = Made(call[n])
        BY <2>1, <3>2 DEF Made
      <3> HIDE DEF c
      <3> QED
        BY <2>0, <2>1, <2>2, <3>1, <3>2, <3>3, MoveCounts
    <2> QED
      BY <2>3, <2>4
  <1>6. ASSUME NEW n \in Nodes, TakeAck(n)
        PROVE  CountInv'
    <2> DEFINE ack == Head(AckQueue[n])
               lag == txCount[n] - ack.id
               t == txCount[n]
    <2>1. /\ call[n] \in Call /\ call[n].at = "select" /\ ~Mutex3Free(n)
          /\ txCount' = [txCount EXCEPT ![n] = t]
      BY <1>0, <1>6, InSend DEF TakeAck, Mutex3Free, NoCall
    <2>2. /\ t <= 2 * Len(writes[n]) + 2
          /\ call[n].stage = "resolve" => t <= 2 * Len(writes[n]) + 1
          /\ t <= 2 * Len(writes[n]) + Made(call[n])
      <3>1. /\ Made(call[n]) \in 1 .. 2
            /\ call[n].stage = "resolve" => Made(call[n]) = 1
        BY <2>1 DEF Made
      <3> QED
        BY <1>0, <3>1 DEF CountInv, Counts
    <2>0. t \in Nat /\ txCount[n] <= t
      BY <1>0
    <2>3. CASE ~Answers(n, ack)
      BY <1>6, <2>3, SameCounts DEF TakeAck
    <2>4. CASE Answers(n, ack) /\ call[n].stage = "resolve"
      <3> DEFINE c == StartTx("resolved", call[n].ip, ADDR_LIST'[n][call[n].ip], lag)
      <3>1. call' = [call EXCEPT ![n] = c] /\ writes' = writes
        BY <1>6, <2>4 DEF TakeAck, TxSucceeds
      <3>2. Made(c) = 1
        BY DEF StartTx, Made
      <3>3. t <= 2 * Len(writes[n]) + Made(c)
        BY <2>2, <2>4, <3>2
      <3> HIDE DEF c, t, lag
      <3> QED
        BY <2>0, <2>1, <3>1, <3>3, MoveCounts
    <2>5. CASE Answers(n, ack) /\ call[n].stage # "resolve"
      <3> DEFINE r == [ip |-> call[n].ip, ok |-> TRUE, lag |-> lag]
      <3>1. /\ call' = [call EXCEPT ![n] = NoCall]
            /\ writes' = [writes EXCEPT ![n] = Append(@, r)]
        BY <1>6, <2>5 DEF TakeAck, TxSucceeds, Return
      <3>2. lag \in Int /\ lag < t
        <4>1. AckQueue[n] \in Seq(Replies)
          BY DEF TypeInv, TypeOK
        <4>2. ack \in Packet
          BY <1>6, <4>1, QueueTail DEF TakeAck, Replies
        <4>3. ack.id \in Nat \ {0}
          BY <4>2 DEF Packet
        <4> HIDE DEF ack
        <4> QED
          BY <1>0, <4>3
      <3> HIDE DEF lag, ack
      <3>3. r \in Result /\ r.lag = lag
        BY <2>1, <3>2 DEF Result, Call
      <3>4. Len(writes[n]) < MaxWrites[n]
        BY <2>1 DEF CountInv, Counts
      <3> HIDE DEF r, t
      <3> QED
        BY <2>0, <2>1, <2>2, <3>1, <3>2, <3>3, <3>4, ReturnCounts
    <2> QED
      BY <2>3, <2>4, <2>5
  <1>7. CASE UNCHANGED <<call, writes, txCount>>
    BY <1>7, SameCounts
  <1> QED
    BY <1>1, <1>2, <1>3, <1>4, <1>5, <1>6, <1>7
    DEF Next, vars, callVars, Receive, Enqueue, TakeData, SendAddrResp, Deliver,
        SendAck, DetectNodes, Read

LEMMA CountInvariant == Spec => [](TypeInv /\ CountInv)
  <1>1. Init => CountInv
    <2>1. Made(NoCall) = 0
      BY DEF NoCall, Made
    <2> SUFFICES ASSUME Init, NEW n \in Nodes PROVE Counts(n)
      BY DEF CountInv
    <2>2. /\ call[n] = NoCall /\ txCount[n] = 0 /\ MaxWrites[n] \in Nat
          /\ writes[n] = <<>> /\ Len(writes[n]) = 0
      BY NfdAssumption DEF Init
    <2>3. DOMAIN writes[n] = {}
      BY <2>2
    <2> QED
      BY <2>1, <2>2, <2>3 DEF Counts, Mutex3Free
  <1> QED
    BY <1>1, NextCounts, TypeInvariant, PTL DEF Spec

-----------------------------------------------------------------------------
(* The calls of Write as ConfirmedWrite sees them. *)

States == {"ok", "failed", "calling"}
Word(r) == IF r.ok THEN "ok" ELSE "failed"
Done(ws) == [w \in 1 .. Len(ws) |-> Word(ws[w])]

(* The results of the Writes that returned. *)
LEMMA DoneType ==
  ASSUME NEW ws \in Seq(Result)
  PROVE  /\ Done(ws) \in Seq(States) /\ Len(Done(ws)) = Len(ws)
         /\ \A w \in 1 .. Len(ws) : Done(ws)[w] = Word(ws[w])
  <1>1. \A w \in 1 .. Len(ws) : Word(ws[w]) \in States
    BY DEF Word, States
  <1>2. Len(ws) \in Nat
    OBVIOUS
  <1> QED
    BY <1>1, <1>2 DEF Done

(* One more Write returns. *)
LEMMA DoneAppend ==
  ASSUME NEW ws \in Seq(Result), NEW r \in Result
  PROVE  Done(Append(ws, r)) = Append(Done(ws), Word(r))
  <1> DEFINE a == Append(ws, r)
             x == Done(a)
             y == Append(Done(ws), Word(r))
  <1>1. /\ a \in Seq(Result) /\ Len(a) = Len(ws) + 1 /\ Len(ws) \in Nat
        /\ \A w \in 1 .. Len(ws) : a[w] = ws[w]
        /\ a[Len(ws) + 1] = r
    BY AppendProperties
  <1>2. Done(ws) \in Seq(States) /\ Word(r) \in States /\ Len(Done(ws)) = Len(ws)
    BY DoneType DEF Word, States
  <1>3. /\ y \in Seq(States) /\ Len(y) = Len(ws) + 1
        /\ \A w \in 1 .. Len(ws) : y[w] = Done(ws)[w]
        /\ y[Len(ws) + 1] = Word(r)
    BY <1>2, AppendProperties
  <1> HIDE DEF a, y
  <1>4. /\ x \in Seq(States) /\ Len(x) = Len(ws) + 1
        /\ \A w \in 1 .. Len(ws) + 1 : x[w] = Word(a[w])
    BY <1>1, DoneType
  <1> HIDE DEF x
  <1>5. ASSUME NEW w \in 1 .. Len(ws) + 1
        PROVE  x[w] = y[w]
    <2>1. CASE w = Len(ws) + 1
      BY <1>1, <1>3, <1>4, <2>1
    <2>2. CASE w \in 1 .. Len(ws)
      BY <1>1, <1>3, <1>4, <2>2, DoneType
    <2> QED
      BY <1>1, <2>1, <2>2
  <1>6. x = y
    BY <1>1, <1>3, <1>4, <1>5, SeqEqual
  <1> QED
    BY <1>6 DEF x, y, a

(* The result of a Write takes the place of its call. *)
LEMMA ReplaceLast ==
  ASSUME NEW S, NEW q \in Seq(S), NEW a \in S, NEW b \in S
  PROVE  [Append(q, a) EXCEPT ![Len(q) + 1] = b] = Append(q, b)
  <1> DEFINE l == Len(q) + 1
             x == Append(q, a)
             y == Append(q, b)
             z == [x EXCEPT ![l] = b]
  <1>1. /\ x \in Seq(S) /\ Len(x) = l /\ y \in Seq(S) /\ Len(y) = l /\ Len(q) \in Nat
        /\ \A w \in 1 .. Len(q) : x[w] = y[w]
        /\ y[l] = b
    BY AppendProperties
  <1>2. l \in 1 .. Len(x)
    BY <1>1
  <1> HIDE DEF x, y
  <1>3. /\ z \in Seq(S) /\ Len(z) = l
        /\ \A w \in 1 .. l : z[w] = IF w = l THEN b ELSE x[w]
    BY <1>1, <1>2, ExceptSeq
  <1> HIDE DEF z
  <1>4. ASSUME NEW w \in 1 .. l
        PROVE  z[w] = y[w]
    <2>1. w = l \/ w \in 1 .. Len(q)
      BY <1>1
    <2> QED
      BY <1>1, <1>3, <2>1
  <1>5. z = y
    BY <1>1, <1>3, <1>4, SeqEqual
  <1> QED
    BY <1>5 DEF x, y, z

(* WriteStatus in these words, before and after a step. *)
StatusOf(n) ==
  IF Mutex3Free(n) THEN Done(writes[n]) ELSE Append(Done(writes[n]), "calling")

LEMMA StatusForm ==
  /\ WriteStatus = [n \in Nodes |-> StatusOf(n)]
  /\ WriteStatus' = [n \in Nodes |-> StatusOf(n)']
  BY DEF WriteStatus, StatusOf, Returned, Done, Word

(* The results of the Writes of n, and the call in progress if there is    *)
(* one.                                                                    *)
LEMMA StatusType ==
  ASSUME TypeInv, NEW n \in Nodes
  PROVE  /\ StatusOf(n) \in Seq(States)
         /\ Mutex3Free(n) => Len(StatusOf(n)) = Len(writes[n])
         /\ ~Mutex3Free(n) => Len(StatusOf(n)) = Len(writes[n]) + 1
         /\ \A w \in 1 .. Len(writes[n]) : StatusOf(n)[w] = Word(writes[n][w])
         /\ ~Mutex3Free(n) => StatusOf(n)[Len(writes[n]) + 1] = "calling"
  <1> DEFINE d == Done(writes[n])
  <1>1. /\ d \in Seq(States) /\ Len(d) = Len(writes[n]) /\ Len(writes[n]) \in Nat
        /\ \A w \in 1 .. Len(writes[n]) : d[w] = Word(writes[n][w])
    BY DoneType DEF TypeInv, TypeOK
  <1>2. "calling" \in States
    BY DEF States
  <1> HIDE DEF d
  <1>3. /\ Append(d, "calling") \in Seq(States)
        /\ Len(Append(d, "calling")) = Len(writes[n]) + 1
        /\ \A w \in 1 .. Len(writes[n]) : Append(d, "calling")[w] = Word(writes[n][w])
        /\ Append(d, "calling")[Len(writes[n]) + 1] = "calling"
    BY <1>1, <1>2, AppendProperties
  <1>4. CASE Mutex3Free(n)
    <2>1. StatusOf(n) = d
      BY <1>4 DEF StatusOf, d
    <2> QED
      BY <1>1, <1>4, <2>1
  <1>5. CASE ~Mutex3Free(n)
    <2>1. StatusOf(n) = Append(d, "calling")
      BY <1>5 DEF StatusOf, d
    <2> QED
      BY <1>1, <1>3, <1>5, <2>1
  <1> QED
    BY <1>4, <1>5

-----------------------------------------------------------------------------
(* Every step is a step of ConfirmedWrite or changes nothing there. *)

AbstractStep == [Confirmed!Next]_(Confirmed!abstractVars)

(* A step that begins or ends no Write and delivers nothing is unseen. *)
LEMMA Stutter ==
  ASSUME arrived' = arrived, writes' = writes,
         \A n \in Nodes : Mutex3Free(n)' <=> Mutex3Free(n)
  PROVE  AbstractStep
  <1>1. \A n \in Nodes : StatusOf(n)' = StatusOf(n)
    BY DEF StatusOf, Done, Word
  <1>2. WriteStatus' = WriteStatus
    BY <1>1, StatusForm
  <1> QED
    BY <1>2 DEF AbstractStep, Confirmed!abstractVars

(* The calls of the other nodes stay as they are. *)
LEMMA StatusStep ==
  ASSUME NEW n \in Nodes, NEW s, StatusOf(n)' = s,
         \A m \in Nodes \ {n} : call'[m] = call[m] /\ writes'[m] = writes[m]
  PROVE  WriteStatus' = [WriteStatus EXCEPT ![n] = s]
  <1>1. \A m \in Nodes \ {n} : StatusOf(m)' = StatusOf(m)
    BY DEF StatusOf, Mutex3Free, Done, Word
  <1> QED
    BY <1>1, StatusForm

(* A node outside of Write has no call that is not decided. *)
LEMMA NotCalling ==
  ASSUME TypeInv, NEW n \in Nodes, Mutex3Free(n)
  PROVE  Confirmed!Idle(n) /\ WriteStatus[n] = Done(writes[n])
  <1>1. WriteStatus[n] = StatusOf(n) /\ StatusOf(n) = Done(writes[n])
    BY StatusForm DEF StatusOf
  <1>2. \A w \in DOMAIN StatusOf(n) : StatusOf(n)[w] # "calling"
    <2>1. writes[n] \in Seq(Result)
      BY DEF TypeInv, TypeOK
    <2>2. /\ Done(writes[n]) \in Seq(States)
          /\ Len(Done(writes[n])) = Len(writes[n])
          /\ \A w \in 1 .. Len(writes[n]) : Done(writes[n])[w] = Word(writes[n][w])
      BY <2>1, DoneType
    <2>3. DOMAIN Done(writes[n]) = 1 .. Len(writes[n])
      BY <2>2, LenProperties
    <2> QED
      BY <1>1, <2>2, <2>3 DEF Word
  <1> QED
    BY <1>1, <1>2 DEF Confirmed!Idle

LEMMA WriteStarts ==
  ASSUME TypeInv, NEW n \in Nodes, NEW ip \in Ips, Write(n, ip)
  PROVE  AbstractStep
  <1> DEFINE c == Route(n, ip)
  <1>1. Mutex3Free(n) /\ call' = [call EXCEPT ![n] = c] /\ UNCHANGED <<writes, arrived>>
    BY DEF Write, handlerVars
  <1>2. c # NoCall
    BY DEF Route, StartTx, NoCall
  <1> HIDE DEF c
  <1>3. \A m \in Nodes : call'[m] = IF m = n THEN c ELSE call[m]
    BY <1>1 DEF TypeInv, TypeOK
  <1>4. StatusOf(n)' = Append(Done(writes[n]), "calling")
    BY <1>1, <1>2, <1>3 DEF StatusOf, Mutex3Free, Done, Word
  <1>5. WriteStatus' = [WriteStatus EXCEPT ![n] = Append(Done(writes[n]), "calling")]
    BY <1>1, <1>3, <1>4, StatusStep
  <1>6. Confirmed!Start(n)
    BY <1>1, <1>5, NotCalling DEF Confirmed!Start
  <1> QED
    BY <1>6 DEF AbstractStep, Confirmed!Next

LEMMA WriteRefuses ==
  ASSUME TypeInv, NEW n \in Nodes, WriteRefused(n)
  PROVE  AbstractStep
  <1> DEFINE r == [ip |-> BCST_IPv4, ok |-> FALSE, lag |-> 0]
  <1>1. r \in Result /\ Word(r) = "failed"
    BY DEF Result, Word
  <1>2. /\ Mutex3Free(n) /\ UNCHANGED <<call, arrived>>
        /\ writes' = [writes EXCEPT ![n] = Append(@, r)]
    BY DEF WriteRefused, handlerVars
  <1> HIDE DEF r
  <1>3. /\ writes[n] \in Seq(Result) /\ writes'[n] = Append(writes[n], r)
        /\ \A m \in Nodes \ {n} : writes'[m] = writes[m]
    BY <1>2 DEF TypeInv, TypeOK
  <1>4. StatusOf(n)' = Done(Append(writes[n], r))
    BY <1>2, <1>3 DEF StatusOf, Mutex3Free, Done, Word
  <1>5. WriteStatus' = [WriteStatus EXCEPT ![n] = Append(Done(writes[n]), "failed")]
    BY <1>1, <1>2, <1>3, <1>4, StatusStep, DoneAppend
  <1>6. Confirmed!Refuse(n)
    BY <1>2, <1>5, NotCalling DEF Confirmed!Refuse
  <1> QED
    BY <1>6 DEF AbstractStep, Confirmed!Next

(* A Write returns r: it fails, or it succeeds and its data has arrived. *)
LEMMA CallReturns ==
  ASSUME TypeInv, NEW n \in Nodes, NEW r \in Result, ~Mutex3Free(n),
         call' = [call EXCEPT ![n] = NoCall],
         writes' = [writes EXCEPT ![n] = Append(@, r)], arrived' = arrived,
         r.ok => \E m \in Nodes : <<n, Len(writes[n]) + 1, m>> \in arrived
  PROVE  AbstractStep
  <1> DEFINE w == Len(writes[n]) + 1
             d == Done(writes[n])
  <1>1. /\ writes[n] \in Seq(Result) /\ writes'[n] = Append(writes[n], r)
        /\ call'[n] = NoCall
        /\ \A m \in Nodes \ {n} : call'[m] = call[m] /\ writes'[m] = writes[m]
    BY DEF TypeInv, TypeOK
  <1>2. /\ d \in Seq(States) /\ Len(d) + 1 = w
        /\ Word(r) \in States /\ "calling" \in States
    BY <1>1, DoneType DEF States, Word
  <1>3. StatusOf(n)' = Done(Append(writes[n], r))
    BY <1>1 DEF StatusOf, Mutex3Free, Done, Word
  <1>4. WriteStatus[n] = Append(d, "calling")
    BY StatusForm DEF StatusOf
  <1> HIDE DEF d
  <1>5. StatusOf(n)' = [Append(d, "calling") EXCEPT ![w] = Word(r)]
    <2>1. Done(Append(writes[n], r)) = Append(d, Word(r))
      BY <1>1, DoneAppend DEF d
    <2>2. [Append(d, "calling") EXCEPT ![Len(d) + 1] = Word(r)] = Append(d, Word(r))
      BY <1>2, ReplaceLast
    <2> QED
      BY <1>2, <1>3, <2>1, <2>2
  <1>6. WriteStatus' = [WriteStatus EXCEPT ![n][w] = Word(r)]
    BY <1>1, <1>4, <1>5, StatusStep
  <1>7. w \in DOMAIN WriteStatus[n] /\ WriteStatus[n][w] = "calling"
    BY <1>2, <1>4, AppendProperties
  <1> HIDE DEF w
  <1>8. CASE r.ok
    <2>1. Confirmed!HasArrived(n, w)
      BY <1>8 DEF Confirmed!HasArrived, w
    <2>2. Confirmed!Succeed(n, w)
      BY <1>6, <1>7, <1>8, <2>1 DEF Confirmed!Succeed, Word
    <2> QED
      BY <1>7, <2>2 DEF AbstractStep, Confirmed!Next
  <1>9. CASE ~r.ok
    <2>1. Confirmed!Fail(n, w)
      BY <1>6, <1>7, <1>9 DEF Confirmed!Fail, Word
    <2> QED
      BY <1>7, <2>1 DEF AbstractStep, Confirmed!Next
  <1> QED
    BY <1>8, <1>9

(* WriteStatus has the result of a Write that returned, *)
LEMMA ReturnedStatus ==
  ASSUME TypeInv, NEW n \in Nodes, NEW w \in 1 .. Len(writes[n])
  PROVE  w \in DOMAIN WriteStatus[n] /\ WriteStatus[n][w] = Word(writes[n][w])
  <1> DEFINE l == Len(writes[n])
             k == Len(StatusOf(n))
  <1>1. WriteStatus[n] = StatusOf(n) /\ l \in Nat /\ w \in 1 .. l
    BY StatusForm DEF TypeInv, TypeOK
  <1>2. /\ StatusOf(n) \in Seq(States) /\ StatusOf(n)[w] = Word(writes[n][w])
        /\ k = l \/ k = l + 1
    BY StatusType
  <1>3. DOMAIN StatusOf(n) = 1 .. k
    BY <1>2, LenProperties
  <1> HIDE DEF k, l
  <1> QED
    BY <1>1, <1>2, <1>3

(* and the one in progress as calling. *)
LEMMA CurrentStatus ==
  ASSUME TypeInv, NEW n \in Nodes, ~Mutex3Free(n)
  PROVE  /\ Len(writes[n]) + 1 \in DOMAIN WriteStatus[n]
         /\ WriteStatus[n][Len(writes[n]) + 1] = "calling"
  <1>1. WriteStatus[n] = StatusOf(n) /\ Len(writes[n]) \in Nat
    BY StatusForm DEF TypeInv, TypeOK
  <1>2. /\ StatusOf(n) \in Seq(States)
        /\ StatusOf(n)[Len(writes[n]) + 1] = "calling"
        /\ Len(StatusOf(n)) = Len(writes[n]) + 1
    BY StatusType
  <1> QED
    BY <1>1, <1>2, LenProperties

(* No Write that returned without an error took the answer to a request at *)
(* least a full turn of the sequence numbers older than its own.           *)
Fresh ==
  \A n \in Nodes : \A w \in DOMAIN writes[n] :
    writes[n][w].ok => writes[n][w].lag < SeqMod

(* Data arrives during its Write, or after the Write gave up on it. *)
LEMMA DataArrives ==
  ASSUME TypeInv, DeliveryInv, OnceInv, Fresh, NEW n \in Nodes, Deliver(n)
  PROVE  AbstractStep
  <1> DEFINE i == handler[n].p.src
             w == handler[n].p.w
  <1>1. i \in Nodes /\ w \in Nat /\ Carries(Slot(n, 0), i, w)
    <2> DEFINE p == handler[n].p
    <2>1. handler[n].pc = "data" /\ p.type # "ADDR_REQ"
      BY DEF Deliver, DeliveryInv, HandlerHonest
    <2>2. p \in Requests
      BY <2>1 DEF TypeInv, TypeOK, Waiting
    <2>3. Slot(n, 0) = p
      BY <2>1 DEF Slot, Place
    <2> HIDE DEF p
    <2>4. p \in Packet /\ p.type \in {"P2P", "RELAY_REQ"}
      BY <2>1, <2>2 DEF Requests, DataTypes
    <2> QED
      BY <2>3, <2>4 DEF Packet, Carries, p
  <1>2. arrived' = arrived \cup {<<i, w, n>>} /\ UNCHANGED <<call, writes>>
    BY DEF Deliver, callVars
  <1> HIDE DEF i, w
  <1>3. InLine(i, w)
    BY <1>1 DEF InLine
  <1>4. ~HasArrived(i, w)
    BY <1>1, <1>3 DEF OnceInv, OneCopy
  <1>5. w \in DOMAIN WriteStatus[i] /\ WriteStatus[i][w] \in {"calling", "failed"}
    <2>1. \/ w \in 1 .. Len(writes[i])
          \/ w = Len(writes[i]) + 1 /\ InWait(i)
      BY <1>1, <1>3 DEF OnceInv, SentByWrite, Sent
    <2>2. CASE w \in 1 .. Len(writes[i])
      <3>1. /\ writes[i] \in Seq(Result) /\ w \in DOMAIN writes[i]
        BY <1>1, <2>2 DEF TypeInv, TypeOK
      <3>2. writes[i][w] \in Result
        BY <2>2, <3>1, ElementOfSeq
      <3>3. writes[i][w].lag \in Int
        BY <3>2 DEF Result
      <3>4. ~writes[i][w].ok
        <4> SUFFICES ASSUME writes[i][w].ok PROVE FALSE
          OBVIOUS
        <4>1. HasArrived(i, w) \/ writes[i][w].lag >= SeqMod
          BY <1>1, <3>1 DEF DeliveryInv, OkMeansArrived, HasArrived
        <4>2. writes[i][w].lag < SeqMod
          BY <1>1, <3>1 DEF Fresh
        <4> QED
          BY <1>4, <3>3, <4>1, <4>2, NfdAssumption
      <3> QED
        BY <1>1, <2>2, <3>4, ReturnedStatus DEF Word
    <2>3. CASE w = Len(writes[i]) + 1 /\ InWait(i)
      <3>1. ~Mutex3Free(i)
        BY <2>3 DEF InWait, Mutex3Free, NoCall
      <3> QED
        BY <1>1, <2>3, <3>1, CurrentStatus
    <2> QED
      BY <2>1, <2>2, <2>3
  <1>6. WriteStatus' = WriteStatus
    <2>1. \A m \in Nodes : StatusOf(m)' = StatusOf(m)
      BY <1>2 DEF StatusOf, Mutex3Free, Done, Word
    <2> QED
      BY <2>1, StatusForm
  <1>7. Confirmed!Arrive(i, w, n)
    BY <1>2, <1>4, <1>5, <1>6
    DEF Confirmed!Arrive, Confirmed!HasArrived, HasArrived
  <1> QED
    BY <1>1, <1>5, <1>7 DEF AbstractStep, Confirmed!Next

(* A Tx that fails leaves Send at the relay or the Write with an error. *)
LEMMA FailureSeen ==
  ASSUME TypeInv, NEW n \in Nodes, call[n] \in Call, TxFails(n), arrived' = arrived
  PROVE  AbstractStep
  <1>1. ~Mutex3Free(n)
    BY DEF Mutex3Free, NoCall, Call, Stages
  <1>2. CASE call[n].stage = "resolve" /\ NodeAddrs[n] # <<>>
    <2> DEFINE c == StartTx("relay", call[n].ip, NodeAddrs[n][1], 0)
    <2>1. call' = [call EXCEPT ![n] = c] /\ writes' = writes
      BY <1>2 DEF TxFails
    <2>2. c # NoCall
      BY DEF StartTx, NoCall
    <2> HIDE DEF c
    <2>3. \A m \in Nodes : call'[m] = IF m = n THEN c ELSE call[m]
      BY <2>1 DEF TypeInv, TypeOK
    <2> QED
      BY <1>1, <2>1, <2>2, <2>3, Stutter DEF Mutex3Free
  <1>3. CASE ~(call[n].stage = "resolve" /\ NodeAddrs[n] # <<>>)
    <2> DEFINE r == [ip |-> call[n].ip, ok |-> FALSE, lag |-> 0]
    <2>1. /\ call' = [call EXCEPT ![n] = NoCall]
          /\ writes' = [writes EXCEPT ![n] = Append(@, r)]
          /\ r \in Result /\ ~r.ok
      BY <1>3 DEF TxFails, Return, Result, Call
    <2> HIDE DEF r
    <2> QED
      BY <1>1, <2>1, CallReturns
  <1> QED
    BY <1>2, <1>3

(* A call of n moves to another place of the same Write. *)
LEMMA MoveUnseen ==
  ASSUME TypeInv, NEW n \in Nodes, call[n] \in Call, NEW c, c # NoCall,
         call' = [call EXCEPT ![n] = c], UNCHANGED <<writes, arrived>>
  PROVE  AbstractStep
  <1>1. ~Mutex3Free(n)
    BY DEF Mutex3Free, NoCall, Call, Stages
  <1>2. \A m \in Nodes : call'[m] = IF m = n THEN c ELSE call[m]
    BY DEF TypeInv, TypeOK
  <1> QED
    BY <1>1, <1>2, Stutter DEF Mutex3Free

(* A reply ends the wait: the Write goes on with the address it asked for, *)
(* or returns, and then its data has arrived.                              *)
LEMMA AnswerSeen ==
  ASSUME TypeInv, TypeInv', DeliveryInv', Fresh', NEW n \in Nodes, TakeAck(n)
  PROVE  AbstractStep
  <1> DEFINE ack == Head(AckQueue[n])
             lag == txCount[n] - ack.id
  <1>1. call[n] \in Call /\ arrived' = arrived
    BY InSend DEF TakeAck, TypeInv, TypeOK, handlerVars
  <1>2. CASE ~Answers(n, ack)
    <2>1. UNCHANGED <<call, writes>>
      BY <1>2 DEF TakeAck
    <2> QED
      BY <1>1, <2>1, Stutter DEF Mutex3Free
  <1>3. CASE Answers(n, ack) /\ call[n].stage = "resolve"
    <2> DEFINE c == StartTx("resolved", call[n].ip, ADDR_LIST'[n][call[n].ip], lag)
    <2>1. call' = [call EXCEPT ![n] = c] /\ writes' = writes
      BY <1>3 DEF TakeAck, TxSucceeds
    <2>2. c # NoCall
      BY DEF StartTx, NoCall
    <2> HIDE DEF c
    <2> QED
      BY <1>1, <2>1, <2>2, MoveUnseen
  <1>4. CASE Answers(n, ack) /\ call[n].stage # "resolve"
    <2> DEFINE r == [ip |-> call[n].ip, ok |-> TRUE, lag |-> lag]
               w == Len(writes[n]) + 1
    <2>1. /\ call' = [call EXCEPT ![n] = NoCall]
          /\ writes' = [writes EXCEPT ![n] = Append(@, r)]
      BY <1>4 DEF TakeAck, TxSucceeds, Return
    <2>2. lag \in Int
      <3>1. AckQueue[n] \in Seq(Replies) /\ txCount[n] \in Nat
        BY DEF TypeInv, TypeOK
      <3>2. ack \in Packet
        BY <3>1, QueueTail DEF TakeAck, Replies
      <3> QED
        BY <3>1, <3>2 DEF Packet
    <2> HIDE DEF ack, lag
    <2>3. r \in Result /\ r.ok /\ r.lag \in Int
      BY <1>1, <2>2 DEF Result, Call
    <2> HIDE DEF r
    <2>4. w \in DOMAIN writes'[n] /\ writes'[n][w] = r
      <3>1. writes[n] \in Seq(Result) /\ writes'[n] = Append(writes[n], r)
        BY <2>1 DEF TypeInv, TypeOK
      <3> QED
        BY <2>3, <3>1, AppendProperties
    <2> HIDE DEF w
    <2>5. r.lag < SeqMod
      BY <2>3, <2>4 DEF Fresh
    <2>6. (\E m \in Nodes : <<n, w, m>> \in arrived) \/ r.lag >= SeqMod
      BY <1>1, <2>3, <2>4 DEF DeliveryInv, OkMeansArrived
    <2>7. \E m \in Nodes : <<n, w, m>> \in arrived
      <3>1. r.lag \in Int /\ SeqMod \in Int
        BY <2>3, NfdAssumption
      <3>2. ~(r.lag >= SeqMod)
        BY <2>5, <3>1
      <3> QED
        BY <2>6, <3>2
    <2>8. ~Mutex3Free(n)
      BY <1>1 DEF Mutex3Free, NoCall, Call, Stages
    <2> QED
      BY <1>1, <2>1, <2>3, <2>7, <2>8, CallReturns DEF w
  <1> QED
    BY <1>2, <1>3, <1>4

LEMMA StepImplements ==
  ASSUME ~Duplicates
  PROVE  (TypeInv /\ DeliveryInv /\ Once /\ Fresh /\ [Next]_vars
            /\ DeliveryInv' /\ Fresh') => AbstractStep
  <1> SUFFICES ASSUME TypeInv, DeliveryInv, OnceInv, Fresh, [Next]_vars,
                      DeliveryInv', Fresh'
               PROVE  AbstractStep
    BY DEF Once
  <1>0. TypeInv'
    BY NextTypeInv
  <1>1. ASSUME NEW n \in Nodes, Transmit(n)
        PROVE  AbstractStep
    <2>1. call[n] \in Call /\ arrived' = arrived
      BY <1>1, InSend DEF Transmit, TypeInv, TypeOK, handlerVars
    <2>2. CASE call' = [call EXCEPT ![n].at = "select"] /\ writes' = writes
      <3> DEFINE c == [call[n] EXCEPT !.at = "select"]
      <3>1. c.at = "select" /\ call' = [call EXCEPT ![n] = c]
        BY <2>1, <2>2 DEF Call
      <3> HIDE DEF c
      <3>2. c # NoCall
        BY <3>1 DEF NoCall
      <3> QED
        BY <2>1, <2>2, <3>1, <3>2, MoveUnseen
    <2>3. CASE TxFails(n)
      BY <2>1, <2>3, FailureSeen
    <2> QED
      BY <1>1, <2>2, <2>3 DEF Transmit
  <1>2. ASSUME NEW n \in Nodes, FallAsleep(n)
        PROVE  AbstractStep
    <2> DEFINE c == [call[n] EXCEPT !.at = "sleep"]
    <2>1. /\ call[n] \in Call /\ UNCHANGED <<writes, arrived>>
          /\ call' = [call EXCEPT ![n] = c]
      BY <1>2, InSend DEF FallAsleep, TypeInv, TypeOK, handlerVars
    <2>2. c.at = "sleep"
      BY <2>1 DEF Call
    <2> HIDE DEF c
    <2>3. c # NoCall
      BY <2>2 DEF NoCall
    <2> QED
      BY <2>1, <2>3, MoveUnseen
  <1>3. ASSUME NEW n \in Nodes, Tick(n)
        PROVE  AbstractStep
    <2>1. call[n] \in Call /\ arrived' = arrived
      BY <1>3, InSend DEF Tick, TypeInv, TypeOK, handlerVars
    <2>2. CASE call[n].count + 1 = Ticks
      BY <1>3, <2>1, <2>2, FailureSeen DEF Tick
    <2>3. CASE call[n].count + 1 # Ticks
      <3> DEFINE c == [call[n] EXCEPT
                         !.count = call[n].count + 1,
                         !.at = IF AckQueue[n] = <<>> THEN "sleep" ELSE "select"]
      <3>1. call' = [call EXCEPT ![n] = c] /\ writes' = writes
        BY <1>3, <2>3 DEF Tick
      <3>2. c.at \in {"sleep", "select"}
        BY <2>1 DEF Call
      <3> HIDE DEF c
      <3>3. c # NoCall
        BY <3>2 DEF NoCall
      <3> QED
        BY <2>1, <3>1, <3>3, MoveUnseen
    <2> QED
      BY <2>2, <2>3
  <1>4. ASSUME NEW n \in Nodes, TakeAck(n)
        PROVE  AbstractStep
    BY <1>0, <1>4, AnswerSeen
  <1>5. CASE UNCHANGED <<call, writes, arrived>>
    BY <1>5, Stutter DEF Mutex3Free
  <1> QED
    BY <1>1, <1>2, <1>3, <1>4, <1>5, WriteStarts, WriteRefuses, DataArrives
    DEF Next, vars, callVars, handlerVars, Receive, Enqueue, TakeData,
        SendAddrResp, SendAck, DetectNodes, Read

LEMMA InitImplements == Init => Confirmed!Init
  <1> SUFFICES ASSUME Init PROVE Confirmed!Init
    OBVIOUS
  <1>1. \A n \in Nodes : StatusOf(n) = Done(<<>>)
    BY DEF Init, StatusOf, Mutex3Free
  <1>2. Done(<<>>) = <<>>
    <2>1. <<>> \in Seq(Result) /\ Len(<<>>) = 0
      BY EmptySeq
    <2>2. Done(<<>>) \in Seq(States) /\ Len(Done(<<>>)) = 0
      BY <2>1, DoneType
    <2> QED
      BY <2>2, EmptySeq
  <1>3. WriteStatus = [n \in Nodes |-> <<>>]
    BY <1>1, <1>2, StatusForm
  <1> QED
    BY <1>3 DEF Init, Confirmed!Init

(* To its callers, Write is the confirmed write of ConfirmedWrite: data    *)
(* reaches one buffer at most, and has reached one when Write returns no   *)
(* error (nfd.go:648-665), because the ACK follows the data into RxData    *)
(* (nfd.go:451-463), as long as the medium repeats nothing and no answer   *)
(* is taken that is a full turn of the numbers old.                        *)
THEOREM FreshWritesAreConfirmed ==
  ASSUME ~Duplicates
  PROVE  Spec /\ []Fresh => ImplementsConfirmedWrite
  <1>1. (TypeInv /\ DeliveryInv /\ Once /\ Fresh /\ [Next]_vars
           /\ DeliveryInv' /\ Fresh') => [Confirmed!Next]_(Confirmed!abstractVars)
    BY StepImplements DEF AbstractStep
  <1> QED
    BY <1>1, InitImplements, OnceInvariant, PTL
    DEF Spec, ImplementsConfirmedWrite, Confirmed!Spec

(* A Write transmits twice at most, so no answer can be that old while a   *)
(* node's Writes number half of the sequence numbers or fewer: with the    *)
(* 256 numbers of the code, its first 128 Writes are confirmed writes      *)
(* without any exception.                                                  *)
THEOREM FirstWritesAreConfirmed ==
  ASSUME ~Duplicates, \A n \in Nodes : 2 * MaxWrites[n] <= SeqMod
  PROVE  Spec => ImplementsConfirmedWrite
  <1>1. TypeInv /\ CountInv => Fresh
    <2> SUFFICES ASSUME TypeInv, CountInv, NEW n \in Nodes,
                        NEW w \in DOMAIN writes[n], writes[n][w].ok
                 PROVE  writes[n][w].lag < SeqMod
      BY DEF Fresh
    <2>1. /\ writes[n] \in Seq(Result) /\ txCount[n] \in Nat
          /\ MaxWrites[n] \in Nat /\ SeqMod \in Nat /\ Len(writes[n]) \in Nat
      BY NfdAssumption DEF TypeInv, TypeOK
    <2>2. writes[n][w].lag \in Int
      <3>1. writes[n][w] \in Result
        BY <2>1, ElementOfSeq
      <3> QED
        BY <3>1 DEF Result
    <2>3. writes[n][w].lag < txCount[n]
      BY DEF CountInv, Counts
    <2>4. txCount[n] <= 2 * MaxWrites[n]
      <3>1. /\ Len(writes[n]) <= MaxWrites[n]
            /\ ~Mutex3Free(n) => Len(writes[n]) < MaxWrites[n]
            /\ txCount[n] <= 2 * Len(writes[n]) + Made(call[n])
        BY DEF CountInv, Counts
      <3>2. Mutex3Free(n) => Made(call[n]) = 0
        BY DEF Mutex3Free, NoCall, Made
      <3> QED
        BY <2>1, <3>1, <3>2, MadeType
    <2> QED
      BY <2>1, <2>2, <2>3, <2>4
  <1> QED
    BY <1>1, CountInvariant, FreshWritesAreConfirmed, PTL

=============================================================================
