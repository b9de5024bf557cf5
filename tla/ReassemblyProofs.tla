-------------------------- MODULE ReassemblyProofs --------------------------
(***************************************************************************)
(* Theorems about Reassembly, for any number of senders and messages, with *)
(* loss, damage, overflow of RecvPacketCh and restarts at any time.        *)
(***************************************************************************)
EXTENDS Reassembly, SequenceTheorems, FiniteSetTheorems, TLAPS

-----------------------------------------------------------------------------
(* Where fragments are *)

(* What the receiver's reader has, the oldest first. *)
Line ==
  IF pending = Nothing THEN RecvPacketCh ELSE Append(RecvPacketCh, pending)

InLine == ToSet(Line) \ {Corrupt}
InAir == UNION {ToSet(air[s]) : s \in Senders}
Returned == UNION {ToSet(returned[k]) : k \in DOMAIN returned}
Active == {s \in Senders : sending[s] # Nothing}
BeingSent == {sending[s].frag : s \in Active}

Out == InAir \cup InLine \cup Held \cup Returned
Parts == Out \cup BeingSent

-----------------------------------------------------------------------------
(* The inductive invariants *)

(* Message msg of s has the number no: r is the value of started at the    *)
(* last restart before it, from which SendPacket counted.                  *)
LastRestart(s, r, msg) ==
  /\ r \in restarts[s] \cup {0}
  /\ r < msg
  /\ restarts[s] \cap r + 1 .. msg - 1 = {}

Numbered(s, no, msg) ==
  \E r \in Nat : LastRestart(s, r, msg) /\ no = (msg - 1 - r) % NoMod

Agree(f, g) ==
  Message(f) = Message(g) => f.to = g.to /\ f.total = g.total /\ f.no = g.no

PartsInv ==
  /\ \A f \in Parts : /\ f.msg <= started[f.src] /\ f.seq <= f.total
                      /\ Numbered(f.src, f.no, f.msg)
  /\ \A f, g \in Parts : Agree(f, g)
  /\ \A s \in Senders : Numbered(s, (Seq_[s] + 1) % NoMod, started[s] + 1)
  /\ \A s \in Active :
       sending[s].frag.src = s /\ sending[s].frag.msg = started[s]
  /\ \A s \in Senders : \A f \in ToSet(air[s]) : f.src = s
  /\ \A s \in Senders : \A r \in restarts[s] : r \in 1 .. started[s]

(* The fragments in receivedData, and those of a returned message, have    *)
(* one index.                                                              *)
IndexInv ==
  /\ \A x \in Indices : \A f \in ToSet(receivedData[x]) : Index(f) = x
  /\ \A k \in DOMAIN returned :
       /\ returned[k] # <<>>
       /\ Len(returned[k]) = returned[k][Len(returned[k])].total
       /\ \A i \in DOMAIN returned[k] :
            Index(returned[k][i]) = Index(returned[k][1])

Ahead(f, g) ==
  f.src = g.src => f.msg < g.msg \/ (f.msg = g.msg /\ f.seq < g.seq)

Sorted(q) ==
  \A i, j \in DOMAIN q :
    i < j /\ q[i] # Corrupt /\ q[j] # Corrupt => Ahead(q[i], q[j])

(* Without vxbee, fragments are received in the order in which they were   *)
(* sent, each at most once.                                                *)
OrderInv ==
  /\ Sorted(Line)
  /\ \A s \in Senders : Sorted(air[s])
  /\ \A x \in Indices : Sorted(receivedData[x])
  /\ \A k \in DOMAIN returned : Sorted(returned[k])
  /\ \A f \in InLine, g \in InAir : Ahead(f, g)
  /\ \A f \in Held \cup Returned, g \in InLine \cup InAir : Ahead(f, g)
  /\ \A s \in Active : \A f \in Out :
       \/ Ahead(f, sending[s].frag)
       \/ sending[s].at = "status" /\ f = sending[s].frag
  /\ Held \cap Returned = {}
  /\ UsedOnce

(* Message id of s has a number that was not used before it, and has lost  *)
(* no part so far.                                                         *)
Unharmed(s, id) ==
  /\ restarts[s] \cap 1 .. id - 1 = {}
  /\ <<s, id>> \notin broken

Complete(s, id) ==
  \E k \in DOMAIN returned :
    Intact(returned[k]) /\ Message(returned[k][1]) = <<s, id>>

Located == InAir \cup InLine \cup Held
Has(s, id, q) == \E g \in Located : Message(g) = <<s, id>> /\ g.seq = q

(* The parts of message id that were sent are somewhere on the way, and    *)
(* the last of them is never left in receivedData.                         *)
Traced(s, id) ==
  /\ \A f \in Located :
       Message(f) = <<s, id>> => \A q \in 1 .. f.seq : Has(s, id, q)
  /\ s \in Active /\ sending[s].frag.msg = id =>
       \A q \in 1 .. sending[s].frag.seq :
         Has(s, id, q) \/ (q = sending[s].frag.seq /\ sending[s].at = "write")
  /\ <<s, id>> \in sent =>
       \E g \in Located : Message(g) = <<s, id>> /\ g.seq = g.total
  /\ \A f \in Held : Message(f) = <<s, id>> => f.seq # f.total

LossInv ==
  \A s \in Senders : \A id \in 1 .. NoMod :
    Unharmed(s, id) /\ ~Complete(s, id) => Traced(s, id)

ReassemblyInv ==
  /\ TypeOK /\ PartsInv /\ IndexInv
  /\ driver # "vxbee" => OrderInv
  /\ driver = "xbee" => LossInv

-----------------------------------------------------------------------------
(* Arithmetic of the message numbers. *)

(* The quotient and the remainder. *)
LEMMA Division ==
  ASSUME NEW M \in Nat \ {0}, NEW x \in Int
  PROVE  /\ x \div M \in Int /\ x % M \in 0 .. M - 1
         /\ x = M * (x \div M) + (x % M)
  OBVIOUS

(* Different multiples of M are at least M apart. *)
LEMMA Multiples ==
  ASSUME NEW M \in Nat \ {0}, NEW a \in Int, NEW b \in Int, a < b
  PROVE  M * b - M * a >= M /\ M * a \in Int /\ M * b \in Int
  OBVIOUS

(* Different numbers with one remainder are at least M apart. *)
LEMMA Congruent ==
  ASSUME NEW M \in Nat \ {0}, NEW x \in Int, NEW y \in Int, x < y, x % M = y % M
  PROVE  y - x >= M
  <1> DEFINE a == x \div M
             b == y \div M
             r == x % M
  <1>1. /\ a \in Int /\ b \in Int /\ r \in Int
        /\ x = M * a + r /\ y = M * b + r
    BY Division
  <1> HIDE DEF a, b, r
  <1>2. a < b
    <2>1. CASE a = b BY <1>1, <2>1
    <2>2. CASE b < a BY <1>1, <2>2, Multiples
    <2> QED BY <1>1, <2>1, <2>2
  <1> QED
    BY <1>1, <1>2, Multiples

(* The next remainder may be computed from the remainder, as SendPacket    *)
(* does (xbee.go:163).                                                     *)
LEMMA Successor ==
  ASSUME NEW M \in Nat \ {0}, NEW x \in Int
  PROVE  ((x % M) + 1) % M = (x + 1) % M
  <1> DEFINE y == (x % M) + 1
  <1>1. y \in Int /\ (x + 1) - y = M * (x \div M) /\ x \div M \in Int
    <2> DEFINE q == x \div M
               t == x % M
    <2>1. q \in Int /\ t \in Int /\ x = M * q + t
      BY Division
    <2>2. M * q \in Int /\ y = t + 1
      BY <2>1
    <2> HIDE DEF q, t, y
    <2>3. y \in Int /\ (x + 1) - y = M * q
      BY <2>1, <2>2
    <2> QED BY <2>1, <2>3 DEF q
  <1> DEFINE a == y \div M
             b == (x + 1) \div M
             c == x \div M
             r == y % M
             s == (x + 1) % M
  <1>2. /\ a \in Int /\ b \in Int /\ r \in 0 .. M - 1 /\ s \in 0 .. M - 1
        /\ y = M * a + r /\ x + 1 = M * b + s
    BY <1>1, Division
  <1> HIDE DEF a, b, r, s, y
  <1>3. M * b + s - (M * a + r) = M * c
    BY <1>1, <1>2
  <1> HIDE DEF c
  <1>4. c \in Int /\ M * (a + c) = M * a + M * c
    <2>1. c \in Int BY <1>1 DEF c
    <2> QED BY <1>2, <2>1
  <1>5. ~ (b < a + c)
    <2> SUFFICES ASSUME b < a + c PROVE FALSE OBVIOUS
    <2>1. M * (a + c) - M * b >= M BY <1>2, <1>4, Multiples
    <2> QED BY <1>2, <1>3, <1>4, <2>1
  <1>6. ~ (a + c < b)
    <2> SUFFICES ASSUME a + c < b PROVE FALSE OBVIOUS
    <2>1. M * b - M * (a + c) >= M BY <1>2, <1>4, Multiples
    <2> QED BY <1>2, <1>3, <1>4, <2>1
  <1> QED
    <2>1. b = a + c BY <1>2, <1>4, <1>5, <1>6
    <2>2. r = s BY <1>2, <1>3, <1>4, <2>1
    <2> QED BY <2>2 DEF r, s, y

-----------------------------------------------------------------------------
(* The elements of a sequence *)

(* The elements of a sequence over S. *)
LEMMA SetType ==
  ASSUME NEW S, NEW q \in Seq(S)
  PROVE  ToSet(q) \subseteq S /\ ToSet(<<>>) = {} /\ (ToSet(q) = {} => q = <<>>)
  <1>1. DOMAIN q = 1 .. Len(q) /\ Len(q) \in Nat BY LenProperties
  <1>2. ToSet(q) \subseteq S BY <1>1, ElementOfSeq DEF ToSet
  <1>3. ToSet(<<>>) = {} BY DEF ToSet
  <1>4. ASSUME q # <<>> PROVE ToSet(q) # {}
    <2>1. 1 \in DOMAIN q BY <1>1, <1>4, EmptySeq
    <2> QED BY <2>1 DEF ToSet
  <1> QED BY <1>2, <1>3, <1>4

(* Append adds one element, *)
LEMMA SetAppend ==
  ASSUME NEW S, NEW q \in Seq(S), NEW e \in S
  PROVE  ToSet(Append(q, e)) = ToSet(q) \cup {e}
  <1> DEFINE r == Append(q, e)
  <1>1. DOMAIN q = 1 .. Len(q) /\ Len(q) \in Nat BY LenProperties
  <1>2. /\ r \in Seq(S) /\ Len(r) = Len(q) + 1
        /\ \A i \in 1 .. Len(q) : r[i] = q[i]
        /\ r[Len(q) + 1] = e
    BY AppendProperties
  <1>3. DOMAIN r = 1 .. Len(q) + 1 BY <1>2, LenProperties
  <1> HIDE DEF r
  <1>4. ToSet(r) = ToSet(q) \cup {e}
    BY <1>1, <1>2, <1>3 DEF ToSet
  <1> QED BY <1>4 DEF r

(* Head and Tail have the elements of the whole, *)
LEMMA SetTail ==
  ASSUME NEW S, NEW q \in Seq(S), q # <<>>
  PROVE  /\ Head(q) \in S /\ Tail(q) \in Seq(S) /\ Head(q) = q[1]
         /\ ToSet(q) = {Head(q)} \cup ToSet(Tail(q))
  <1> DEFINE r == Tail(q)
  <1>1. DOMAIN q = 1 .. Len(q) /\ Len(q) \in Nat \ {0}
    BY LenProperties, EmptySeq
  <1>2. /\ r \in Seq(S) /\ Len(r) = Len(q) - 1 /\ Head(q) \in S
        /\ \A i \in 1 .. Len(r) : r[i] = q[i + 1]
    BY HeadTailProperties
  <1>3. DOMAIN r = 1 .. Len(q) - 1 BY <1>2, LenProperties
  <1>4. Head(q) = q[1] OBVIOUS
  <1> HIDE DEF r
  <1>5. ASSUME NEW i \in 2 .. Len(q) PROVE q[i] \in ToSet(r)
    <2>1. i - 1 \in 1 .. Len(r) /\ (i - 1) + 1 = i BY <1>1, <1>2
    <2>2. r[i - 1] = q[i] BY <1>2, <2>1
    <2> QED BY <1>2, <1>3, <2>1, <2>2 DEF ToSet
  <1>6. ToSet(r) \subseteq ToSet(q)
    <2> SUFFICES ASSUME NEW i \in 1 .. Len(q) - 1 PROVE r[i] \in ToSet(q)
      BY <1>3 DEF ToSet
    <2>1. r[i] = q[i + 1] /\ i + 1 \in 1 .. Len(q) BY <1>1, <1>2
    <2> QED BY <1>1, <2>1 DEF ToSet
  <1>7. ToSet(q) = {Head(q)} \cup ToSet(r)
    <2>1. q[1] \in ToSet(q) BY <1>1 DEF ToSet
    <2>2. \A i \in 1 .. Len(q) : i = 1 \/ i \in 2 .. Len(q) BY <1>1
    <2> QED BY <1>1, <1>4, <1>5, <1>6, <2>1, <2>2 DEF ToSet
  <1> QED BY <1>2, <1>4, <1>7 DEF r

(* and so has what RemoveAt removes and leaves. *)
LEMMA SetRemove ==
  ASSUME NEW S, NEW q \in Seq(S), NEW i \in DOMAIN q
  PROVE  /\ RemoveAt(q, i) \in Seq(S) /\ q[i] \in S
         /\ ToSet(q) = ToSet(RemoveAt(q, i)) \cup {q[i]}
         /\ i = 1 => RemoveAt(q, i) = Tail(q)
  <1> DEFINE a == SubSeq(q, 1, i - 1)
             b == SubSeq(q, i + 1, Len(q))
             r == a \o b
             n == Len(q)
  <1>1. n \in Nat /\ DOMAIN q = 1 .. n /\ i \in 1 .. n BY LenProperties
  <1>2. \A j \in 1 .. n : q[j] \in S BY ElementOfSeq
  <1>3. /\ a \in Seq(S) /\ Len(a) = i - 1
        /\ \A j \in 1 .. i - 1 : a[j] = q[j]
    <2>1. \A j \in 1 .. i - 1 : q[j] \in S BY <1>1, <1>2
    <2>2. /\ a \in Seq(S) /\ Len(a) = (IF 1 <= i - 1 THEN i - 1 - 1 + 1 ELSE 0)
          /\ \A j \in 1 .. i - 1 - 1 + 1 : a[j] = q[1 + j - 1]
      BY <1>1, <2>1, SubSeqProperties
    <2> HIDE DEF a
    <2> QED BY <1>1, <2>2
  <1>4. /\ b \in Seq(S) /\ Len(b) = n - i
        /\ \A j \in 1 .. n - i : b[j] = q[i + j]
    <2>1. \A j \in i + 1 .. n : q[j] \in S BY <1>1, <1>2
    <2>2. /\ b \in Seq(S) /\ Len(b) = (IF i + 1 <= n THEN n - (i + 1) + 1 ELSE 0)
          /\ \A j \in 1 .. n - (i + 1) + 1 : b[j] = q[(i + 1) + j - 1]
      BY <1>1, <2>1, SubSeqProperties
    <2> HIDE DEF b
    <2>3. \A j \in 1 .. n - i : (i + 1) + j - 1 = i + j /\ j \in 1 .. n - (i + 1) + 1
      BY <1>1
    <2>4. Len(b) = n - i BY <1>1, <2>2
    <2> QED BY <2>2, <2>3, <2>4
  <1> HIDE DEF a, b
  <1>5. /\ r \in Seq(S) /\ Len(r) = Len(a) + Len(b)
        /\ \A j \in 1 .. Len(a) + Len(b) :
             r[j] = IF j <= Len(a) THEN a[j] ELSE b[j - Len(a)]
    BY <1>3, <1>4, ConcatProperties
  <1> HIDE DEF r
  <1>6. DOMAIN r = 1 .. n - 1
    <2>1. Len(r) = n - 1 BY <1>1, <1>3, <1>4, <1>5
    <2> QED BY <1>5, <2>1, LenProperties
  <1>7. \A j \in 1 .. n - 1 : r[j] = IF j <= i - 1 THEN q[j] ELSE q[j + 1]
    <2> TAKE j \in 1 .. n - 1
    <2>1. CASE j <= i - 1
      <3>1. j \in 1 .. i - 1 BY <1>1, <2>1
      <3> QED BY <1>1, <1>3, <1>4, <1>5, <2>1, <3>1
    <2>2. CASE ~(j <= i - 1)
      <3>1. j - (i - 1) \in 1 .. n - i /\ i + (j - (i - 1)) = j + 1
        BY <1>1, <2>2
      <3>2. r[j] = b[j - (i - 1)] BY <1>1, <1>3, <1>4, <1>5, <2>2
      <3> QED BY <1>4, <2>2, <3>1, <3>2
    <2> QED BY <2>1, <2>2
  <1>8. ToSet(q) = ToSet(r) \cup {q[i]}
    <2>1. ASSUME NEW j \in 1 .. n, j # i PROVE q[j] \in ToSet(r)
      <3>1. CASE j < i
        <4>1. j \in 1 .. n - 1 /\ j <= i - 1 BY <1>1, <3>1
        <4> QED BY <1>6, <1>7, <4>1 DEF ToSet
      <3>2. CASE j > i
        <4>1. j - 1 \in 1 .. n - 1 /\ ~(j - 1 <= i - 1) /\ (j - 1) + 1 = j
          BY <1>1, <3>2
        <4>2. r[j - 1] = q[j] BY <1>7, <4>1
        <4> QED BY <1>6, <4>1, <4>2 DEF ToSet
      <3> QED BY <1>1, <2>1, <3>1, <3>2
    <2>2. ASSUME NEW j \in 1 .. n - 1 PROVE r[j] \in ToSet(q)
      <3>1. j \in 1 .. n /\ j + 1 \in 1 .. n BY <1>1
      <3> QED BY <1>1, <1>7, <3>1 DEF ToSet
    <2> QED BY <1>1, <1>6, <2>1, <2>2 DEF ToSet
  <1>9. ASSUME i = 1 PROVE r = Tail(q)
    <2> DEFINE t == Tail(q)
    <2>1. q # <<>> BY <1>1
    <2>2. /\ t \in Seq(S) /\ Len(t) = n - 1
          /\ \A j \in 1 .. Len(t) : t[j] = q[j + 1]
      BY <2>1, HeadTailProperties
    <2> HIDE DEF t
    <2>3. Len(r) = Len(t) BY <1>1, <1>3, <1>4, <1>5, <2>2
    <2>4. \A j \in 1 .. Len(t) : r[j] = t[j] BY <1>1, <1>7, <1>9, <2>2
    <2>5. r = t BY <1>5, <2>2, <2>3, <2>4, SeqEqual
    <2> QED BY <2>5 DEF t
  <1> QED BY <1>1, <1>2, <1>5, <1>8, <1>9 DEF r, a, b, RemoveAt

-----------------------------------------------------------------------------
(* Types *)

(* ReassemblyAssumption, as the steps need it. *)
LEMMA Constants ==
  /\ NoMod \in Nat \ {0} /\ MaxTries \in Nat \ {0} /\ PacketCap \in Nat \ {0}
  /\ \A t \in Totals : t \in 1 .. 255
  /\ Nothing \notin Fragment /\ Nothing \notin Sending /\ Nothing # Corrupt
  /\ Corrupt \notin Fragment
  <1>1. Corrupt \notin Fragment
    <2> SUFFICES ASSUME Corrupt \in Fragment PROVE FALSE OBVIOUS
    <2>1. Corrupt.src \in Senders BY DEF Fragment
    <2>2. Corrupt.src = Nothing BY DEF Corrupt
    <2> QED BY <2>1, <2>2, ReassemblyAssumption
  <1> QED BY <1>1, ReassemblyAssumption

(* The fields of a fragment. *)
LEMMA FragmentFields ==
  ASSUME NEW f \in Fragment
  PROVE  /\ f.src \in Senders /\ f.to \in Tos /\ f.no \in 0 .. NoMod - 1
         /\ f.seq \in Nat \ {0} /\ f.total \in Totals /\ f.msg \in Nat \ {0}
         /\ f.total \in 1 .. 255
         /\ f # Corrupt /\ f # Nothing
         /\ Message(f) \in Senders \X Nat
         /\ Index(f) \in Indices
  BY Constants DEF Fragment, Message, Index, Indices

(* An emptied receivedData, and what is lost with it. *)
LEMMA ForgetType ==
  ASSUME TypeOK, NEW kept, Forget(kept)
  PROVE  /\ receivedData' \in [Indices -> Seq(Fragment)]
         /\ broken' \in SUBSET (Senders \X Nat)
         /\ Held \subseteq Fragment
  <1>1. Held \subseteq Fragment
    BY SetType DEF TypeOK, Held
  <1>2. receivedData' \in [Indices -> Seq(Fragment)]
    BY EmptySeq DEF Forget
  <1>3. \A f \in Held : Message(f) \in Senders \X Nat
    BY <1>1, FragmentFields
  <1> QED BY <1>1, <1>2, <1>3 DEF Forget, TypeOK

(* The number of the next message fits its byte. *)
LEMMA NumberType ==
  ASSUME TypeOK, NEW s \in Senders
  PROVE  NextNo(s) \in 0 .. NoMod - 1
  <1>1. Seq_[s] + 1 \in Int BY Constants DEF TypeOK
  <1>2. (Seq_[s] + 1) % NoMod \in 0 .. NoMod - 1 BY <1>1, Constants, Division
  <1> QED BY <1>2 DEF NextNo

LEMMA InitType == Init => TypeOK
  <1> SUFFICES ASSUME Init PROVE TypeOK OBVIOUS
  <1>1. /\ Seq_ \in [Senders -> -1 .. NoMod - 1]
        /\ Len(RecvPacketCh) <= PacketCap
    BY Constants, EmptySeq DEF Init
  <1> QED BY <1>1, EmptySeq, Constants DEF Init, TypeOK

LEMMA StartType ==
  ASSUME TypeOK, NEW s \in Senders, NEW total \in Totals, NEW to \in Tos,
         StartMessage(s, total, to)
  PROVE  TypeOK'
  <1> DEFINE frag == [src |-> s, to |-> to, no |-> NextNo(s), seq |-> 1,
                      total |-> total, msg |-> started[s] + 1]
             c == [at |-> "write", tries |-> 0, frag |-> frag]
  <1>0. NextNo(s) \in 0 .. NoMod - 1 /\ NextNo(s) \in -1 .. NoMod - 1
    BY NumberType, Constants
  <1>1. frag \in Fragment BY <1>0 DEF Fragment, TypeOK
  <1>2. c \in Sending BY <1>1, Constants DEF Sending
  <1>3. sending' = [sending EXCEPT ![s] = c] BY DEF StartMessage
  <1> HIDE DEF c
  <1>4. sending' \in [Senders -> Sending \cup {Nothing}]
    BY <1>2, <1>3 DEF TypeOK
  <1>5. Seq_' \in [Senders -> -1 .. NoMod - 1] /\ started' \in [Senders -> Nat]
    BY <1>0 DEF StartMessage, TypeOK
  <1> QED BY <1>4, <1>5 DEF StartMessage, TypeOK, receiverVars

LEMMA RefuseType ==
  ASSUME TypeOK, NEW s \in Senders, RefuseMessage(s)
  PROVE  TypeOK'
  <1>0. NextNo(s) \in -1 .. NoMod - 1 BY NumberType, Constants
  <1>1. Seq_' \in [Senders -> -1 .. NoMod - 1] /\ started' \in [Senders -> Nat]
    BY <1>0 DEF RefuseMessage, TypeOK
  <1> QED BY <1>1 DEF RefuseMessage, TypeOK, receiverVars

(* The call of SendPacket of a sender. *)
LEMMA SendingType ==
  ASSUME TypeOK, NEW s \in Senders, sending[s] # Nothing
  PROVE  /\ sending[s] \in Sending /\ sending[s].frag \in Fragment
         /\ sending[s].at \in {"write", "status"} /\ sending[s].tries \in Nat
  BY DEF TypeOK, Sending

LEMMA WriteType ==
  ASSUME TypeOK, NEW s \in Senders, WriteFrame(s)
  PROVE  TypeOK'
  <1>1. sending[s] \in Sending /\ sending[s].frag \in Fragment
    BY SendingType DEF WriteFrame
  <1>2. [sending[s] EXCEPT !.at = "status"] \in Sending BY <1>1 DEF Sending
  <1>3. sending' \in [Senders -> Sending \cup {Nothing}]
    BY <1>2 DEF WriteFrame, TypeOK
  <1>4. /\ air' \in [Senders -> Seq(Fragment)]
        /\ broken' \in SUBSET (Senders \X Nat)
    <2>1. Append(air[s], sending[s].frag) \in Seq(Fragment)
      BY <1>1, AppendProperties DEF TypeOK
    <2>2. Message(sending[s].frag) \in Senders \X Nat BY <1>1, FragmentFields
    <2> QED BY <2>1, <2>2 DEF WriteFrame, TypeOK
  <1> QED BY <1>3, <1>4 DEF WriteFrame, TypeOK, receiverVars

LEMMA StatusOkType ==
  ASSUME TypeOK, NEW s \in Senders, StatusOk(s)
  PROVE  TypeOK'
  <1> DEFINE frag == sending[s].frag
             next == [frag EXCEPT !.seq = @ + 1]
             c == [at |-> "write", tries |-> 0, frag |-> next]
  <1>1. frag \in Fragment /\ sending[s] # Nothing BY SendingType DEF StatusOk
  <1>2. next \in Fragment BY <1>1 DEF Fragment
  <1>3. c \in Sending BY <1>2, Constants DEF Sending
  <1>4. sending' = [sending EXCEPT ![s] = c] \/ sending' = [sending EXCEPT ![s] = Nothing]
    BY DEF StatusOk
  <1>5. Message(frag) \in Senders \X Nat BY <1>1, FragmentFields
  <1>6. sent' = sent \/ sent' = sent \cup {Message(frag)} BY DEF StatusOk
  <1> HIDE DEF c, frag
  <1>7. sending' \in [Senders -> Sending \cup {Nothing}]
    BY <1>3, <1>4 DEF TypeOK
  <1>8. sent' \in SUBSET (Senders \X Nat) BY <1>5, <1>6 DEF TypeOK
  <1> QED BY <1>7, <1>8 DEF StatusOk, TypeOK, receiverVars

LEMMA StatusBadType ==
  ASSUME TypeOK, NEW s \in Senders, StatusBad(s)
  PROVE  TypeOK'
  <1> DEFINE c == [sending[s] EXCEPT !.at = "write", !.tries = @ + 1]
  <1>1. sending[s] \in Sending /\ sending[s].tries \in Nat
    BY SendingType DEF StatusBad
  <1>2. ASSUME sending[s].tries + 1 < Tries PROVE c \in Sending
    <2>1. sending[s].tries + 1 \in 0 .. MaxTries - 1
      BY <1>1, <1>2, Constants DEF Tries
    <2> QED BY <1>1, <2>1 DEF Sending
  <1>3. sending' = [sending EXCEPT ![s] =
                      IF sending[s].tries + 1 < Tries THEN c ELSE Nothing]
    BY DEF StatusBad
  <1> HIDE DEF c
  <1>4. sending' \in [Senders -> Sending \cup {Nothing}]
    BY <1>2, <1>3 DEF TypeOK
  <1> QED BY <1>4 DEF StatusBad, TypeOK, receiverVars

LEMMA RestartType ==
  ASSUME TypeOK, NEW s \in Senders, Restart(s)
  PROVE  TypeOK'
  <1>1. /\ Seq_' \in [Senders -> -1 .. NoMod - 1]
        /\ sending' \in [Senders -> Sending \cup {Nothing}]
        /\ restarts' \in [Senders -> SUBSET Nat]
    BY Constants DEF Restart, TypeOK
  <1> QED BY <1>1 DEF Restart, TypeOK, receiverVars

LEMMA ArriveType ==
  ASSUME TypeOK, NEW s \in Senders, NEW i \in DOMAIN air[s],
         NEW frame \in {air[s][i], Corrupt}, Arrive(s, i, frame)
  PROVE  TypeOK'
  <1> DEFINE Frame == Fragment \cup {Corrupt}
  <1>1. /\ RemoveAt(air[s], i) \in Seq(Fragment) /\ air[s][i] \in Fragment
    BY SetRemove DEF TypeOK
  <1>2. air' \in [Senders -> Seq(Fragment)] BY <1>1 DEF Arrive, TypeOK
  <1>3. broken' \in SUBSET (Senders \X Nat)
    BY <1>1, FragmentFields DEF Arrive, TypeOK
  <1>4. /\ RecvPacketCh' \in Seq(Frame) /\ Len(RecvPacketCh') <= PacketCap
        /\ pending' \in Frame \cup {Nothing}
    <2>1. RecvPacketCh \in Seq(Frame) /\ Len(RecvPacketCh) <= PacketCap /\ frame \in Frame
      BY <1>1 DEF TypeOK
    <2> HIDE DEF Frame
    <2>2. /\ Append(RecvPacketCh, frame) \in Seq(Frame)
          /\ Len(Append(RecvPacketCh, frame)) = Len(RecvPacketCh) + 1
          /\ Len(RecvPacketCh) \in Nat
      BY <2>1, AppendProperties, LenProperties
    <2>3. CASE Len(RecvPacketCh) < PacketCap
      BY <2>1, <2>2, <2>3, Constants DEF Arrive
    <2>4. CASE ~(Len(RecvPacketCh) < PacketCap)
      BY <2>1, <2>4 DEF Arrive
    <2> QED BY <2>3, <2>4
  <1> QED BY <1>2, <1>3, <1>4 DEF Arrive, TypeOK, senderVars, receiverVars

(* The oldest frame of RecvPacketCh. *)
LEMMA HeadType ==
  ASSUME TypeOK, RecvPacketCh # <<>>
  PROVE  /\ Head(RecvPacketCh) \in Fragment \cup {Corrupt}
         /\ Tail(RecvPacketCh) \in Seq(Fragment \cup {Corrupt})
         /\ Len(Tail(RecvPacketCh)) + 1 <= PacketCap /\ Len(Tail(RecvPacketCh)) \in Nat
  <1> DEFINE Frame == Fragment \cup {Corrupt}
  <1>1. RecvPacketCh \in Seq(Frame) /\ Len(RecvPacketCh) <= PacketCap
    BY DEF TypeOK
  <1> HIDE DEF Frame
  <1>2. /\ Head(RecvPacketCh) \in Frame /\ Tail(RecvPacketCh) \in Seq(Frame)
        /\ Len(Tail(RecvPacketCh)) = Len(RecvPacketCh) - 1
        /\ Len(RecvPacketCh) \in Nat /\ Len(Tail(RecvPacketCh)) \in Nat
    BY <1>1, HeadTailProperties, LenProperties
  <1> QED BY <1>1, <1>2, Constants DEF Frame

LEMMA MakeRoomType ==
  ASSUME TypeOK, MakeRoom
  PROVE  TypeOK'
  <1> DEFINE Frame == Fragment \cup {Corrupt}
             r == Tail(RecvPacketCh)
  <1>1. r \in Seq(Frame) /\ Len(r) + 1 <= PacketCap /\ pending \in Frame
        /\ Head(RecvPacketCh) \in Frame
    BY HeadType DEF MakeRoom, TypeOK
  <1>2. broken' \in SUBSET (Senders \X Nat)
    BY <1>1, FragmentFields DEF MakeRoom, TypeOK
  <1>3. RecvPacketCh' = Append(r, pending) BY DEF MakeRoom
  <1> HIDE DEF Frame, r
  <1>4. Append(r, pending) \in Seq(Frame) /\ Len(Append(r, pending)) = Len(r) + 1
    BY <1>1, AppendProperties
  <1>5. RecvPacketCh' \in Seq(Frame) /\ Len(RecvPacketCh') <= PacketCap
    BY <1>1, <1>3, <1>4
  <1> QED BY <1>2, <1>5 DEF MakeRoom, TypeOK, senderVars, receiverVars, Frame

LEMMA TakeFragmentType ==
  ASSUME TypeOK, TakeFragment
  PROVE  /\ TypeOK'
         /\ Head(RecvPacketCh) \in Fragment
         /\ receivedData[Index(Head(RecvPacketCh))] \in Seq(Fragment)
         /\ Append(receivedData[Index(Head(RecvPacketCh))], Head(RecvPacketCh))
              \in Seq(Fragment)
  <1> DEFINE frag == Head(RecvPacketCh)
             all == Append(receivedData[Index(frag)], frag)
  <1>1. /\ frag \in Fragment
        /\ RecvPacketCh' \in Seq(Fragment \cup {Corrupt})
        /\ Len(RecvPacketCh') <= PacketCap
    BY HeadType, Constants DEF TakeFragment
  <1>2. receivedData[Index(frag)] \in Seq(Fragment)
    BY <1>1, FragmentFields DEF TypeOK
  <1>3. all \in Seq(Fragment) BY <1>1, <1>2, AppendProperties
  <1>4. CASE Len(all) = frag.total
    <2>1. returned' = Append(returned, all) /\ Forget({Message(frag)})
      BY <1>4 DEF TakeFragment
    <2>2. returned' \in Seq(Seq(Fragment))
      BY <1>3, <2>1, AppendProperties DEF TypeOK
    <2>3. receivedData' \in [Indices -> Seq(Fragment)] /\ broken' \in SUBSET (Senders \X Nat)
      BY <2>1, ForgetType
    <2> QED BY <1>1, <1>2, <1>3, <2>2, <2>3 DEF TakeFragment, TypeOK, senderVars
  <1>5. CASE Len(all) # frag.total
    <2>1. /\ receivedData' = [receivedData EXCEPT ![Index(frag)] = all]
          /\ UNCHANGED <<returned, broken>>
      BY <1>5 DEF TakeFragment
    <2> HIDE DEF all, frag
    <2>2. receivedData' \in [Indices -> Seq(Fragment)]
      BY <1>3, <2>1 DEF TypeOK
    <2>3. TypeOK' BY <1>1, <2>1, <2>2 DEF TakeFragment, TypeOK, senderVars
    <2> QED BY <1>1, <1>2, <1>3, <2>3 DEF all, frag
  <1> QED BY <1>4, <1>5

LEMMA TakeCorruptType ==
  ASSUME TypeOK, TakeCorrupt
  PROVE  TypeOK'
  <1>1. RecvPacketCh' \in Seq(Fragment \cup {Corrupt}) /\ Len(RecvPacketCh') <= PacketCap
    BY HeadType, Constants DEF TakeCorrupt
  <1>2. receivedData' \in [Indices -> Seq(Fragment)] /\ broken' \in SUBSET (Senders \X Nat)
    BY ForgetType DEF TakeCorrupt
  <1> QED BY <1>1, <1>2 DEF TakeCorrupt, TypeOK, senderVars

LEMMA TimeoutType ==
  ASSUME TypeOK, GetPacketTimeout
  PROVE  TypeOK'
  <1>1. receivedData' \in [Indices -> Seq(Fragment)] /\ broken' \in SUBSET (Senders \X Nat)
    BY ForgetType DEF GetPacketTimeout
  <1> QED BY <1>1 DEF GetPacketTimeout, TypeOK, senderVars

LEMMA NextType == TypeOK /\ [Next]_vars => TypeOK'
  <1> SUFFICES ASSUME TypeOK, [Next]_vars PROVE TypeOK' OBVIOUS
  <1>1. CASE UNCHANGED vars
    BY <1>1 DEF vars, senderVars, receiverVars, TypeOK
  <1>2. CASE Next
    <2>1. CASE \E s \in Senders, total \in Totals, to \in Tos : StartMessage(s, total, to)
      BY <2>1, StartType
    <2>2. CASE \E s \in Senders : \E i \in DOMAIN air[s] :
                 Arrive(s, i, air[s][i]) \/ Arrive(s, i, Corrupt)
      BY <2>2, ArriveType
    <2>3. CASE \E s \in Senders : \/ RefuseMessage(s) \/ WriteFrame(s) \/ StatusOk(s)
                                  \/ StatusBad(s) \/ Restart(s)
      BY <2>3, RefuseType, WriteType, StatusOkType, StatusBadType, RestartType
    <2>4. CASE MakeRoom \/ TakeFragment \/ TakeCorrupt \/ GetPacketTimeout
      BY <2>4, MakeRoomType, TakeFragmentType, TakeCorruptType, TimeoutType
    <2> QED BY <1>2, <2>1, <2>2, <2>3, <2>4 DEF Next
  <1> QED BY <1>1, <1>2

(* The state has the shapes that the code gives it: the number of a        *)
(* message fits its byte (xbee.go:163), a fragment is tried at most        *)
(* MaxTries times (virtual_xbee/xbee.go:167-174), RecvPacketCh holds no    *)
(* more than it was made for (xbee/reader.go:38, 126-131), and             *)
(* receivedData has its fragments under keys of an address and a number    *)
(* (xbee.go:189-193).                                                      *)
THEOREM ReassemblyTypeCorrect == Spec => []TypeOK
  <1>1. TypeOK /\ [Next]_vars => TypeOK' BY NextType
  <1> QED BY InitType, <1>1, PTL DEF Spec

-----------------------------------------------------------------------------
(* How the steps move fragments *)

(* All sets of fragments are sets of fragments. *)
LEMMA PartsType ==
  ASSUME TypeOK
  PROVE  /\ Line \in Seq(Fragment \cup {Corrupt})
         /\ InLine \subseteq Fragment /\ InAir \subseteq Fragment
         /\ Held \subseteq Fragment /\ Returned \subseteq Fragment
         /\ BeingSent \subseteq Fragment
  <1>1. Line \in Seq(Fragment \cup {Corrupt})
    <2> DEFINE Frame == Fragment \cup {Corrupt}
    <2>1. RecvPacketCh \in Seq(Frame) /\ pending \in Frame \cup {Nothing}
      BY DEF TypeOK
    <2> HIDE DEF Frame
    <2>2. Line \in Seq(Frame) BY <2>1, AppendProperties DEF Line
    <2> QED BY <2>2 DEF Frame
  <1>2. InLine \subseteq Fragment
    <2> DEFINE q == Line
    <2> HIDE DEF q
    <2>1. q \in Seq(Fragment \cup {Corrupt}) BY <1>1 DEF q
    <2>2. ToSet(q) \subseteq Fragment \cup {Corrupt} BY <2>1, SetType
    <2> QED BY <2>2 DEF InLine, q
  <1>3. InAir \subseteq Fragment BY SetType DEF InAir, TypeOK
  <1>4. Held \subseteq Fragment BY SetType DEF Held, TypeOK
  <1>5. Returned \subseteq Fragment
    <2>1. \A k \in DOMAIN returned : returned[k] \in Seq(Fragment)
      BY ElementOfSeq, LenProperties DEF TypeOK
    <2> QED BY <2>1, SetType DEF Returned
  <1>6. BeingSent \subseteq Fragment BY SendingType DEF BeingSent, Active
  <1> QED BY <1>1, <1>2, <1>3, <1>4, <1>5, <1>6

(* When the line moves up, its first frame leaves it. *)
LEMMA LineMoves ==
  ASSUME TypeOK, RecvPacketCh # <<>>, Line' = Tail(Line)
  PROVE  /\ Line # <<>> /\ Head(Line) = Head(RecvPacketCh)
         /\ InLine = InLine' \cup ({Head(RecvPacketCh)} \ {Corrupt})
  <1>1. RecvPacketCh \in Seq(Fragment \cup {Corrupt}) BY DEF TypeOK
  <1>2. CASE pending = Nothing
    <2>1. Line = RecvPacketCh BY <1>2 DEF Line
    <2>2. ToSet(RecvPacketCh) = {Head(RecvPacketCh)} \cup ToSet(Tail(RecvPacketCh))
      BY <1>1, SetTail
    <2> QED BY <2>1, <2>2 DEF InLine
  <1>3. CASE pending # Nothing
    <2> DEFINE Frame == Fragment \cup {Corrupt}
    <2>1. pending \in Frame /\ RecvPacketCh \in Seq(Frame) BY <1>3 DEF TypeOK
    <2>2. Line = Append(RecvPacketCh, pending) BY <1>3 DEF Line
    <2> HIDE DEF Frame
    <2>3. Line \in Seq(Frame) /\ Line # <<>> BY <2>1, <2>2, AppendProperties
    <2>4. Head(Line) = Head(RecvPacketCh) BY <2>1, <2>2, HeadTailAppend
    <2> DEFINE q == Line
    <2>5. q \in Seq(Frame) /\ q # <<>> BY <2>3
    <2> HIDE DEF q
    <2>6. ToSet(q) = {Head(q)} \cup ToSet(Tail(q)) BY <2>5, SetTail
    <2> QED BY <2>3, <2>4, <2>6 DEF InLine, q
  <1> QED BY <1>2, <1>3

(* A frame taken out of RecvPacketCh is the first of the line, *)
LEMMA TakeLine ==
  ASSUME TypeOK, RecvPacketCh # <<>>, RecvPacketCh' = Tail(RecvPacketCh),
         pending' = pending
  PROVE  /\ Line' = Tail(Line) /\ Line # <<>> /\ Head(Line) = Head(RecvPacketCh)
         /\ InLine = InLine' \cup ({Head(RecvPacketCh)} \ {Corrupt})
  <1>1. RecvPacketCh \in Seq(Fragment \cup {Corrupt}) BY DEF TypeOK
  <1>2. CASE pending = Nothing
    BY <1>2, LineMoves DEF Line
  <1>3. CASE pending # Nothing
    <2>1. Tail(Append(RecvPacketCh, pending)) = Append(Tail(RecvPacketCh), pending)
      BY <1>1, HeadTailAppend
    <2> QED BY <1>3, <2>1, LineMoves DEF Line
  <1> QED BY <1>2, <1>3

(* also when ReadFrame takes it out to make room, *)
LEMMA MakeRoomMoves ==
  ASSUME TypeOK, MakeRoom
  PROVE  /\ Line' = Tail(Line) /\ Line # <<>> /\ Head(Line) = Head(RecvPacketCh)
         /\ InLine = InLine' \cup ({Head(RecvPacketCh)} \ {Corrupt})
         /\ UNCHANGED <<driver, senderVars, receiverVars, air>>
         /\ InAir' = InAir /\ Held' = Held /\ Returned' = Returned
         /\ BeingSent' = BeingSent
  <1>1. RecvPacketCh \in Seq(Fragment \cup {Corrupt}) /\ RecvPacketCh # <<>>
    BY DEF TypeOK, MakeRoom
  <1>2. Tail(Append(RecvPacketCh, pending)) = Append(Tail(RecvPacketCh), pending)
    BY <1>1, HeadTailAppend
  <1>3. Line' = Tail(Line) BY <1>2 DEF Line, MakeRoom
  <1> QED
    BY <1>1, <1>3, LineMoves
    DEF MakeRoom, senderVars, receiverVars, InAir, Held, Returned, BeingSent, Active

(* and one that arrives is the last. *)
LEMMA ArriveMoves ==
  ASSUME TypeOK, NEW s \in Senders, NEW i \in DOMAIN air[s],
         NEW frame \in {air[s][i], Corrupt}, Arrive(s, i, frame)
  PROVE  /\ Line' = Append(Line, frame)
         /\ InLine' = InLine \cup ({frame} \ {Corrupt})
         /\ air[s][i] \in InAir /\ air[s][i] \in ToSet(air[s])
         /\ ToSet(air[s]) = ToSet(air'[s]) \cup {air[s][i]}
         /\ \A t \in Senders \ {s} : air'[t] = air[t]
         /\ InAir = InAir' \cup {air[s][i]}
         /\ driver # "vxbee" => air'[s] = Tail(air[s]) /\ air[s][i] = Head(air[s])
                                /\ air[s] # <<>>
         /\ UNCHANGED <<driver, senderVars, receiverVars>>
         /\ Held' = Held /\ Returned' = Returned /\ BeingSent' = BeingSent
  <1>1. /\ air[s] \in Seq(Fragment) /\ air[s][i] \in Fragment
        /\ ToSet(air[s]) = ToSet(RemoveAt(air[s], i)) \cup {air[s][i]}
        /\ i = 1 => RemoveAt(air[s], i) = Tail(air[s])
    BY SetRemove DEF TypeOK
  <1>2. air' = [air EXCEPT ![s] = RemoveAt(@, i)] /\ air \in [Senders -> Seq(Fragment)]
    BY DEF Arrive, TypeOK
  <1>3. air'[s] = RemoveAt(air[s], i) /\ \A t \in Senders \ {s} : air'[t] = air[t]
    BY <1>2
  <1>4. InAir = InAir' \cup {air[s][i]} BY <1>1, <1>3 DEF InAir
  <1>5. Line' = Append(Line, frame)
    BY <1>1, Constants DEF Arrive, Line
  <1>6. InLine' = InLine \cup ({frame} \ {Corrupt})
    <2> DEFINE Frame == Fragment \cup {Corrupt}
               q == Line
    <2>1. q \in Seq(Frame) /\ frame \in Frame BY <1>1, PartsType
    <2> HIDE DEF Frame, q
    <2>2. ToSet(Append(q, frame)) = ToSet(q) \cup {frame} BY <2>1, SetAppend
    <2> QED BY <1>5, <2>2 DEF InLine, q
  <1>7. ASSUME driver # "vxbee"
        PROVE  air'[s] = Tail(air[s]) /\ air[s][i] = Head(air[s]) /\ air[s] # <<>>
    <2>1. i = 1 BY <1>7 DEF Arrive
    <2>2. air[s] # <<>> BY <1>1, <2>1, EmptySeq, LenProperties
    <2> QED BY <1>1, <1>3, <2>1, <2>2, SetTail
  <1> QED
    BY <1>1, <1>3, <1>4, <1>5, <1>6, <1>7
    DEF Arrive, senderVars, receiverVars, Held, Returned, BeingSent, Active, InAir

(* An emptied receivedData holds nothing, and all that it held is broken   *)
(* or kept.                                                                *)
LEMMA ForgetMoves ==
  ASSUME NEW kept, Forget(kept)
  PROVE  /\ Held' = {}
         /\ \A x \in Indices : receivedData'[x] = <<>> /\ ToSet(receivedData'[x]) = {}
         /\ \A f \in Held : Message(f) \in kept \cup broken'
         /\ broken \subseteq broken'
  <1>1. ToSet(<<>>) = {} BY DEF ToSet
  <1> QED BY <1>1 DEF Forget, Held

(* The fragment that ReceivePacket takes completes a message or joins the  *)
(* others of its index.                                                    *)
LEMMA TakeFragmentMoves ==
  ASSUME TypeOK, TakeFragment
  PROVE  LET frag == Head(RecvPacketCh)
             all == Append(receivedData[Index(frag)], frag) IN
         /\ Line' = Tail(Line) /\ Line # <<>> /\ Head(Line) = frag
         /\ InLine = InLine' \cup {frag} /\ frag \in InLine /\ frag \in Fragment
         /\ UNCHANGED <<driver, senderVars, air>>
         /\ InAir' = InAir /\ BeingSent' = BeingSent
         /\ all \in Seq(Fragment) /\ all # <<>> /\ all[Len(all)] = frag
         /\ ToSet(all) = ToSet(receivedData[Index(frag)]) \cup {frag}
         /\ Index(frag) \in Indices
         /\ \/ /\ Len(all) = frag.total
               /\ returned' = Append(returned, all)
               /\ Forget({Message(frag)})
               /\ Returned' = Returned \cup ToSet(all)
            \/ /\ Len(all) # frag.total
               /\ receivedData' = [receivedData EXCEPT ![Index(frag)] = all]
               /\ UNCHANGED <<returned, broken>>
               /\ Held' = Held \cup {frag} /\ Returned' = Returned
  <1> DEFINE frag == Head(RecvPacketCh)
             old == receivedData[Index(frag)]
             all == Append(old, frag)
  <1>1. frag \in Fragment /\ old \in Seq(Fragment) /\ all \in Seq(Fragment)
    BY TakeFragmentType
  <1>2. /\ Line' = Tail(Line) /\ Line # <<>> /\ Head(Line) = frag
        /\ InLine = InLine' \cup {frag} /\ frag \in InLine
    BY <1>1, TakeLine, Constants DEF TakeFragment
  <1>3. UNCHANGED <<driver, senderVars, air>> /\ InAir' = InAir /\ BeingSent' = BeingSent
    BY DEF TakeFragment, senderVars, InAir, BeingSent, Active
  <1>4. Index(frag) \in Indices BY <1>1, FragmentFields
  <1>5. /\ ToSet(all) = ToSet(old) \cup {frag} /\ all # <<>> /\ all[Len(all)] = frag
    <2>1. Len(all) = Len(old) + 1 /\ all # <<>> /\ all[Len(old) + 1] = frag
      BY <1>1, AppendProperties
    <2> QED BY <1>1, <2>1, SetAppend
  <1>6. ASSUME Len(all) = frag.total
        PROVE  /\ returned' = Append(returned, all)
               /\ Forget({Message(frag)})
               /\ Returned' = Returned \cup ToSet(all)
    <2>1. returned' = Append(returned, all) /\ Forget({Message(frag)})
      BY <1>6 DEF TakeFragment
    <2> DEFINE n == Len(returned)
    <2>2. /\ DOMAIN returned = 1 .. n /\ n \in Nat
          /\ \A k \in 1 .. n : returned'[k] = returned[k]
          /\ returned'[n + 1] = all
          /\ DOMAIN returned' = 1 .. n + 1
      <3>1. returned \in Seq(Seq(Fragment)) BY DEF TypeOK
      <3> HIDE DEF all
      <3>2. /\ returned' \in Seq(Seq(Fragment)) /\ Len(returned') = n + 1
            /\ \A k \in 1 .. n : returned'[k] = returned[k]
            /\ returned'[n + 1] = all
        BY <1>1, <2>1, <3>1, AppendProperties DEF all
      <3> QED BY <3>1, <3>2, LenProperties
    <2> HIDE DEF n, all
    <2>3. Returned' = Returned \cup ToSet(all)
      <3>1. Returned' = UNION {ToSet(returned'[k]) : k \in 1 .. n + 1}
        BY <2>2 DEF Returned
      <3>2. \A k \in 1 .. n + 1 : k \in 1 .. n \/ k = n + 1 BY <2>2
      <3>3. n + 1 \in 1 .. n + 1 /\ 1 .. n \subseteq 1 .. n + 1 BY <2>2
      <3> QED BY <2>2, <3>1, <3>2, <3>3 DEF Returned
    <2> QED BY <2>1, <2>3 DEF all
  <1>7. ASSUME Len(all) # frag.total
        PROVE  /\ receivedData' = [receivedData EXCEPT ![Index(frag)] = all]
               /\ UNCHANGED <<returned, broken>>
               /\ Held' = Held \cup {frag} /\ Returned' = Returned
    <2>1. /\ receivedData' = [receivedData EXCEPT ![Index(frag)] = all]
          /\ UNCHANGED <<returned, broken>>
      BY <1>7 DEF TakeFragment
    <2>2. receivedData \in [Indices -> Seq(Fragment)] BY DEF TypeOK
    <2> DEFINE x == Index(frag)
    <2> HIDE DEF all, x
    <2>3. /\ x \in Indices /\ receivedData'[x] = all
          /\ \A y \in Indices \ {x} : receivedData'[y] = receivedData[y]
      BY <1>4, <2>1, <2>2 DEF x
    <2>4. ToSet(all) = ToSet(receivedData[x]) \cup {frag} BY <1>5 DEF x
    <2>5. Held' = Held \cup {frag} BY <2>3, <2>4 DEF Held
    <2> QED BY <2>1, <2>5 DEF Returned, all, x
  <1> QED BY <1>1, <1>2, <1>3, <1>4, <1>5, <1>6, <1>7

(* A damaged frame empties receivedData, *)
LEMMA TakeCorruptMoves ==
  ASSUME TypeOK, TakeCorrupt
  PROVE  /\ Line' = Tail(Line) /\ Line # <<>> /\ InLine = InLine'
         /\ UNCHANGED <<driver, senderVars, air, returned>>
         /\ InAir' = InAir /\ Returned' = Returned /\ BeingSent' = BeingSent
         /\ Forget({})
  BY TakeLine DEF TakeCorrupt, senderVars, InAir, Returned, BeingSent, Active

(* and so does a timeout. *)
LEMMA TimeoutMoves ==
  ASSUME TypeOK, GetPacketTimeout
  PROVE  /\ UNCHANGED <<driver, senderVars, air, returned>>
         /\ Line' = Line /\ InLine' = InLine
         /\ InAir' = InAir /\ Returned' = Returned /\ BeingSent' = BeingSent
         /\ Forget({})
  BY DEF GetPacketTimeout, senderVars, InAir, Returned, BeingSent, Active,
     Line, InLine

(* The steps of the receiver. *)
Receive ==
  \/ \E s \in Senders : \E i \in DOMAIN air[s] :
       Arrive(s, i, air[s][i]) \/ Arrive(s, i, Corrupt)
  \/ MakeRoom \/ TakeFragment \/ TakeCorrupt \/ GetPacketTimeout

(* The receiver adds no fragment to those there are. *)
LEMMA ReceiveParts ==
  ASSUME TypeOK, Receive
  PROVE  /\ UNCHANGED <<driver, senderVars>> /\ Active' = Active
         /\ BeingSent' = BeingSent /\ Out' \subseteq Out /\ Parts' \subseteq Parts
         /\ \A t \in Senders : ToSet(air'[t]) \subseteq ToSet(air[t])
  <1>1. CASE \E s \in Senders : \E i \in DOMAIN air[s] :
               Arrive(s, i, air[s][i]) \/ Arrive(s, i, Corrupt)
    <2> PICK s \in Senders : \E i \in DOMAIN air[s] :
               Arrive(s, i, air[s][i]) \/ Arrive(s, i, Corrupt)
      BY <1>1
    <2> PICK i \in DOMAIN air[s] : Arrive(s, i, air[s][i]) \/ Arrive(s, i, Corrupt)
      OBVIOUS
    <2> PICK frame \in {air[s][i], Corrupt} : Arrive(s, i, frame) OBVIOUS
    <2> QED BY ArriveMoves DEF Out, Parts, senderVars, Active
  <1>2. CASE MakeRoom
    BY <1>2, MakeRoomMoves DEF Out, Parts, senderVars, Active
  <1>3. CASE TakeFragment
    <2> DEFINE frag == Head(RecvPacketCh)
    <2>1. /\ UNCHANGED <<driver, senderVars, air>> /\ InAir' = InAir
          /\ BeingSent' = BeingSent
          /\ InLine = InLine' \cup {frag}
      BY <1>3, TakeFragmentMoves
    <2>2. ToSet(receivedData[Index(frag)]) \subseteq Held
      BY <1>3, TakeFragmentMoves DEF Held
    <2>3. Held' \subseteq Held \cup {frag} /\ Returned' \subseteq Returned \cup Held \cup {frag}
      BY <1>3, <2>2, TakeFragmentMoves, ForgetMoves
    <2> HIDE DEF frag
    <2> QED BY <2>1, <2>3 DEF Out, Parts, senderVars, Active
  <1>4. CASE TakeCorrupt
    BY <1>4, TakeCorruptMoves, ForgetMoves DEF Out, Parts, senderVars, Active
  <1>5. CASE GetPacketTimeout
    BY <1>5, TimeoutMoves, ForgetMoves DEF Out, Parts, senderVars, Active
  <1> QED BY <1>1, <1>2, <1>3, <1>4, <1>5 DEF Receive

(* SendPacket begins with the first fragment of a new message, *)
LEMMA StartMoves ==
  ASSUME TypeOK, NEW s \in Senders, NEW total \in Totals, NEW to \in Tos,
         StartMessage(s, total, to)
  PROVE  /\ sending[s] = Nothing
         /\ sending'[s] # Nothing /\ sending'[s].at = "write"
         /\ sending'[s].frag \in Fragment
         /\ sending'[s].frag = [src |-> s, to |-> to, no |-> NextNo(s), seq |-> 1,
                                total |-> total, msg |-> started[s] + 1]
         /\ \A t \in Senders \ {s} : sending'[t] = sending[t]
         /\ BeingSent' = BeingSent \cup {sending'[s].frag}
         /\ Active' = Active \cup {s}
  <1> DEFINE frag == [src |-> s, to |-> to, no |-> NextNo(s), seq |-> 1,
                      total |-> total, msg |-> started[s] + 1]
             c == [at |-> "write", tries |-> 0, frag |-> frag]
  <1>1. c \in Sending /\ frag \in Fragment
    <2>1. NextNo(s) \in 0 .. NoMod - 1 BY NumberType
    <2>2. frag \in Fragment BY <2>1 DEF Fragment, TypeOK
    <2> QED BY <2>2, Constants DEF Sending
  <1>2. c # Nothing /\ c.at = "write" /\ c.frag = frag BY <1>1, Constants
  <1>3. sending[s] = Nothing /\ sending' = [sending EXCEPT ![s] = c]
    BY DEF StartMessage
  <1> HIDE DEF c, frag
  <1>4. sending'[s] = c /\ \A t \in Senders \ {s} : sending'[t] = sending[t]
    BY <1>3 DEF TypeOK
  <1>5. Active' = Active \cup {s} BY <1>2, <1>4 DEF Active
  <1>6. BeingSent' = BeingSent \cup {frag}
    BY <1>2, <1>3, <1>4, <1>5 DEF BeingSent, Active
  <1> QED BY <1>1, <1>2, <1>3, <1>4, <1>5, <1>6 DEF frag

(* puts the frame on the air or loses it, *)
LEMMA WriteMoves ==
  ASSUME TypeOK, NEW s \in Senders, WriteFrame(s)
  PROVE  /\ s \in Active /\ sending[s].frag \in Fragment /\ sending[s].at = "write"
         /\ sending'[s] # Nothing /\ sending'[s].at = "status"
         /\ sending'[s].frag = sending[s].frag
         /\ \A t \in Senders \ {s} : sending'[t] = sending[t]
         /\ BeingSent' = BeingSent /\ Active' = Active
         /\ \A t \in Senders \ {s} : air'[t] = air[t]
         /\ \/ /\ air'[s] = Append(air[s], sending[s].frag)
               /\ ToSet(air'[s]) = ToSet(air[s]) \cup {sending[s].frag}
               /\ InAir' = InAir \cup {sending[s].frag}
               /\ UNCHANGED broken
            \/ /\ Message(sending[s].frag) \in broken'
               /\ UNCHANGED air
               /\ InAir' = InAir
               /\ broken' = broken \cup {Message(sending[s].frag)}
  <1> DEFINE frag == sending[s].frag
             c == [sending[s] EXCEPT !.at = "status"]
  <1>1. sending[s] \in Sending /\ frag \in Fragment /\ sending[s] # Nothing
    BY SendingType DEF WriteFrame
  <1>2. c \in Sending /\ c.frag = frag /\ c.at = "status" /\ c # Nothing
    BY <1>1, Constants DEF Sending
  <1>3. sending' = [sending EXCEPT ![s] = c] BY DEF WriteFrame
  <1> HIDE DEF c
  <1>4. sending'[s] = c /\ \A t \in Senders \ {s} : sending'[t] = sending[t]
    BY <1>3 DEF TypeOK
  <1>5. Active' = Active BY <1>1, <1>2, <1>4 DEF Active
  <1>6. BeingSent' = BeingSent BY <1>2, <1>4, <1>5 DEF BeingSent, Active
  <1> HIDE DEF frag
  <1>7. CASE air' = [air EXCEPT ![s] = Append(@, frag)] /\ UNCHANGED broken
    <2>1. /\ air'[s] = Append(air[s], frag)
          /\ \A t \in Senders \ {s} : air'[t] = air[t]
      BY <1>7 DEF TypeOK
    <2>2. ToSet(air'[s]) = ToSet(air[s]) \cup {frag}
      BY <1>1, <2>1, SetAppend DEF TypeOK
    <2>3. InAir' = InAir \cup {frag} BY <2>1, <2>2 DEF InAir
    <2> QED BY <1>1, <1>2, <1>4, <1>5, <1>6, <1>7, <2>1, <2>2, <2>3
            DEF frag, Active, WriteFrame
  <1>8. CASE broken' = broken \cup {Message(frag)} /\ UNCHANGED air
    BY <1>1, <1>2, <1>4, <1>5, <1>6, <1>8 DEF frag, Active, InAir, WriteFrame
  <1> QED BY <1>7, <1>8 DEF WriteFrame, frag

(* goes on to the next fragment or returns true, *)
LEMMA StatusOkMoves ==
  ASSUME TypeOK, NEW s \in Senders, StatusOk(s)
  PROVE  LET frag == sending[s].frag IN
         /\ s \in Active /\ frag \in Fragment /\ sending[s].at = "status"
         /\ \A t \in Senders \ {s} : sending'[t] = sending[t]
         /\ \/ /\ frag.seq < frag.total
               /\ sending'[s] # Nothing /\ sending'[s].at = "write"
               /\ sending'[s].frag = [frag EXCEPT !.seq = @ + 1]
               /\ sending'[s].frag \in Fragment
               /\ BeingSent' \subseteq BeingSent \cup {sending'[s].frag}
               /\ Active' = Active /\ UNCHANGED sent
            \/ /\ ~(frag.seq < frag.total)
               /\ sending'[s] = Nothing
               /\ BeingSent' \subseteq BeingSent
               /\ Active' = Active \ {s}
               /\ sent' = sent \cup {Message(frag)}
  <1> DEFINE frag == sending[s].frag
             next == [frag EXCEPT !.seq = @ + 1]
             c == [at |-> "write", tries |-> 0, frag |-> next]
  <1>1. frag \in Fragment /\ sending[s] # Nothing BY SendingType DEF StatusOk
  <1>2. next \in Fragment BY <1>1 DEF Fragment
  <1>3. c \in Sending BY <1>2, Constants DEF Sending
  <1>4. c # Nothing /\ c.at = "write" /\ c.frag = next BY <1>3, Constants
  <1>5. CASE frag.seq < frag.total
    <2>1. sending' = [sending EXCEPT ![s] = c] /\ UNCHANGED sent
      BY <1>5 DEF StatusOk
    <2> HIDE DEF c, next
    <2>2. sending'[s] = c /\ \A t \in Senders \ {s} : sending'[t] = sending[t]
      BY <2>1 DEF TypeOK
    <2>3. Active' = Active BY <1>1, <1>4, <2>2 DEF Active
    <2>4. BeingSent' \subseteq BeingSent \cup {next}
      BY <1>4, <2>2, <2>3 DEF BeingSent, Active
    <2> QED BY <1>1, <1>2, <1>4, <1>5, <2>1, <2>2, <2>3, <2>4
            DEF next, Active, StatusOk
  <1>6. CASE ~(frag.seq < frag.total)
    <2>1. sending' = [sending EXCEPT ![s] = Nothing] /\ sent' = sent \cup {Message(frag)}
      BY <1>6 DEF StatusOk
    <2>2. sending'[s] = Nothing /\ \A t \in Senders \ {s} : sending'[t] = sending[t]
      BY <2>1 DEF TypeOK
    <2>3. Active' = Active \ {s} BY <2>2 DEF Active
    <2>4. BeingSent' \subseteq BeingSent BY <2>2, <2>3 DEF BeingSent, Active
    <2> QED BY <1>1, <1>6, <2>1, <2>2, <2>3, <2>4 DEF Active, StatusOk
  <1> QED BY <1>5, <1>6

(* and tries again, with vxbee, or returns false. *)
LEMMA StatusBadMoves ==
  ASSUME TypeOK, NEW s \in Senders, StatusBad(s)
  PROVE  /\ s \in Active /\ sending[s].frag \in Fragment /\ sending[s].at = "status"
         /\ \A t \in Senders \ {s} : sending'[t] = sending[t]
         /\ BeingSent' \subseteq BeingSent
         /\ \/ /\ driver = "vxbee"
               /\ sending'[s] # Nothing /\ sending'[s].at = "write"
               /\ sending'[s].frag = sending[s].frag
               /\ Active' = Active
            \/ sending'[s] = Nothing /\ Active' = Active \ {s}
  <1> DEFINE c == [sending[s] EXCEPT !.at = "write", !.tries = @ + 1]
             d == IF sending[s].tries + 1 < Tries THEN c ELSE Nothing
  <1>1. sending[s] \in Sending /\ sending[s] # Nothing /\ sending[s].tries \in Nat
        /\ sending[s].frag \in Fragment
    BY SendingType DEF StatusBad
  <1>2. c.frag = sending[s].frag /\ c.at = "write" BY <1>1 DEF Sending
  <1>3. sending' = [sending EXCEPT ![s] = d] BY DEF StatusBad
  <1>4. d # Nothing => driver = "vxbee" /\ d = c
    BY <1>1, Constants DEF Tries
  <1> HIDE DEF c, d
  <1>5. sending'[s] = d /\ \A t \in Senders \ {s} : sending'[t] = sending[t]
    BY <1>3 DEF TypeOK
  <1>6. CASE d = Nothing
    <2>1. Active' = Active \ {s} BY <1>5, <1>6 DEF Active
    <2>2. BeingSent' \subseteq BeingSent BY <1>5, <2>1 DEF BeingSent, Active
    <2> QED BY <1>1, <1>5, <1>6, <2>1, <2>2 DEF Active, StatusBad
  <1>7. CASE d # Nothing
    <2>1. Active' = Active BY <1>1, <1>5, <1>7 DEF Active
    <2>2. BeingSent' \subseteq BeingSent
      BY <1>2, <1>4, <1>5, <1>7, <2>1 DEF BeingSent, Active
    <2> QED BY <1>1, <1>2, <1>4, <1>5, <1>7, <2>1, <2>2 DEF Active, StatusBad
  <1> QED BY <1>6, <1>7

(* A restart ends the call of SendPacket. *)
LEMMA RestartMoves ==
  ASSUME TypeOK, NEW s \in Senders, Restart(s)
  PROVE  /\ sending'[s] = Nothing
         /\ \A t \in Senders \ {s} : sending'[t] = sending[t]
         /\ BeingSent' \subseteq BeingSent /\ Active' = Active \ {s}
         /\ restarts'[s] = restarts[s] \cup {started[s]}
         /\ \A t \in Senders \ {s} : restarts'[t] = restarts[t]
  <1>1. /\ sending'[s] = Nothing
        /\ \A t \in Senders \ {s} : sending'[t] = sending[t]
        /\ restarts'[s] = restarts[s] \cup {started[s]}
        /\ \A t \in Senders \ {s} : restarts'[t] = restarts[t]
    BY DEF Restart, TypeOK
  <1>2. Active' = Active \ {s} BY <1>1 DEF Active
  <1>3. BeingSent' \subseteq BeingSent BY <1>1, <1>2 DEF BeingSent, Active
  <1> QED BY <1>1, <1>2, <1>3

(* The steps of a sender leave the receiver alone. *)
LEMMA SenderMoves ==
  ASSUME UNCHANGED <<pending, RecvPacketCh, receiverVars>>
  PROVE  Line' = Line /\ InLine' = InLine /\ Held' = Held /\ Returned' = Returned
  BY DEF receiverVars, Line, InLine, Held, Returned

-----------------------------------------------------------------------------
(* PartsInv *)

LEMMA InitParts == Init => PartsInv
  <1> SUFFICES ASSUME Init PROVE PartsInv OBVIOUS
  <1>1. Line = <<>> /\ InLine = {} BY DEF Init, Line, InLine, ToSet
  <1>2. InAir = {} /\ Held = {} /\ Returned = {} /\ BeingSent = {} /\ Active = {}
    BY DEF Init, InAir, Held, Returned, BeingSent, Active, ToSet
  <1>3. ASSUME NEW s \in Senders
        PROVE  Numbered(s, (Seq_[s] + 1) % NoMod, started[s] + 1)
    <2>1. Seq_[s] = -1 /\ started[s] = 0 /\ restarts[s] = {} BY DEF Init
    <2>2. LastRestart(s, 0, 1) BY <2>1 DEF LastRestart
    <2>3. 0 \in Nat /\ (-1 + 1) % NoMod = (1 - 1 - 0) % NoMod OBVIOUS
    <2> QED BY <2>1, <2>2, <2>3 DEF Numbered
  <1> QED
    BY <1>1, <1>2, <1>3 DEF Init, PartsInv, Parts, Out, ToSet

(* A message keeps its number, also when its sender is started again       *)
(* later.                                                                  *)
LEMMA NumberedKept ==
  ASSUME TypeOK, NEW s \in Senders, NEW no, NEW msg \in Nat, Numbered(s, no, msg),
         \/ restarts'[s] = restarts[s]
         \/ restarts'[s] = restarts[s] \cup {started[s]} /\ msg <= started[s]
  PROVE  Numbered(s, no, msg)'
  <1> PICK r \in Nat : LastRestart(s, r, msg) /\ no = (msg - 1 - r) % NoMod
    BY DEF Numbered
  <1>1. restarts[s] \subseteq Nat /\ started[s] \in Nat BY DEF TypeOK
  <1>2. LastRestart(s, r, msg)' BY <1>1 DEF LastRestart
  <1> QED BY <1>2 DEF Numbered

(* The next message has the next number. *)
LEMMA NumberedNext ==
  ASSUME TypeOK, PartsInv, NEW s \in Senders, restarts' = restarts,
         Seq_'[s] = NextNo(s), started'[s] = started[s] + 1
  PROVE  Numbered(s, (Seq_[s] + 1) % NoMod, started[s] + 1)'
  <1> PICK n : n = started[s] + 1 OBVIOUS
  <1>1. n \in Nat /\ Seq_[s] \in Int /\ Seq_'[s] = (Seq_[s] + 1) % NoMod
    BY Constants DEF TypeOK, NextNo
  <1> PICK r \in Nat : LastRestart(s, r, n) /\ (Seq_[s] + 1) % NoMod = (n - 1 - r) % NoMod
    BY DEF PartsInv, Numbered
  <1>2. restarts[s] \subseteq 1 .. started[s] /\ started[s] \in Nat
    BY DEF PartsInv, TypeOK
  <1>3. LastRestart(s, r, n + 1)' BY <1>1, <1>2 DEF LastRestart
  <1>4. (Seq_'[s] + 1) % NoMod = (n + 1 - 1 - r) % NoMod
    <2> PICK x : x = n - 1 - r OBVIOUS
    <2>1. x \in Int /\ x + 1 = n + 1 - 1 - r BY <1>1
    <2>2. ((x % NoMod) + 1) % NoMod = (x + 1) % NoMod
      BY <2>1, Constants, Successor
    <2> QED BY <1>1, <2>1, <2>2
  <1>5. n + 1 = (started[s] + 1)' OBVIOUS
  <1>6. Numbered(s, (Seq_[s] + 1) % NoMod, n + 1)' BY <1>3, <1>4 DEF Numbered
  <1> QED BY <1>5, <1>6

(* A step that adds no fragment keeps PartsInv. *)
LEMMA FewerParts ==
  ASSUME TypeOK, PartsInv, UNCHANGED <<Seq_, started, restarts>>,
         Parts' \subseteq Parts,
         \A s \in Active' : s \in Active /\ sending'[s].frag = sending[s].frag,
         \A s \in Senders : \A f \in ToSet(air'[s]) : f \in ToSet(air[s]) \/ f.src = s
  PROVE  PartsInv'
  <1>1. \A s \in Senders : \A no, msg : Numbered(s, no, msg)' = Numbered(s, no, msg)
    BY DEF Numbered, LastRestart
  <1>2. \A f \in Parts' : f.src \in Senders
    BY PartsType, FragmentFields DEF Parts, Out
  <1>3. \A f \in Parts' : /\ f.msg <= started'[f.src] /\ f.seq <= f.total
                          /\ Numbered(f.src, f.no, f.msg)'
    BY <1>1, <1>2 DEF PartsInv
  <1>4. \A f, g \in Parts' : Agree(f, g)' BY DEF PartsInv, Agree, Message
  <1>5. \A s \in Senders : Numbered(s, (Seq_[s] + 1) % NoMod, started[s] + 1)'
    BY <1>1 DEF PartsInv
  <1>6. /\ \A s \in Active' : sending'[s].frag.src = s /\ sending'[s].frag.msg = started'[s]
        /\ \A s \in Senders : \A f \in ToSet(air'[s]) : f.src = s
        /\ \A s \in Senders : \A r \in restarts'[s] : r \in 1 .. started'[s]
    BY DEF PartsInv
  <1> QED BY <1>3, <1>4, <1>5, <1>6 DEF PartsInv

LEMMA ReceivePartsInv ==
  ASSUME TypeOK, PartsInv, Receive
  PROVE  PartsInv'
  BY ReceiveParts, FewerParts DEF senderVars

LEMMA StartParts ==
  ASSUME TypeOK, PartsInv, NEW s \in Senders,
         NEW total \in Totals, NEW to \in Tos, StartMessage(s, total, to)
  PROVE  PartsInv'
  <1> PICK frag : frag = sending'[s].frag OBVIOUS
  <1> PICK n : n = started[s] + 1 OBVIOUS
  <1> PICK no : no = NextNo(s) OBVIOUS
  <1>1. /\ frag \in Fragment /\ frag.src = s /\ frag.no = no /\ frag.seq = 1
        /\ frag.total = total /\ frag.msg = n
        /\ Active' = Active \cup {s} /\ BeingSent' = BeingSent \cup {frag}
        /\ \A t \in Senders \ {s} : sending'[t] = sending[t]
    <2>1. /\ frag = [src |-> s, to |-> to, no |-> no, seq |-> 1, total |-> total, msg |-> n]
          /\ frag \in Fragment
      BY StartMoves
    <2>2. /\ frag.src = s /\ frag.no = no /\ frag.seq = 1 /\ frag.total = total
          /\ frag.msg = n
      BY <2>1
    <2> QED BY <2>1, <2>2, StartMoves
  <1>2. /\ UNCHANGED <<restarts, air>>
        /\ Seq_'[s] = no /\ \A t \in Senders \ {s} : Seq_'[t] = Seq_[t]
        /\ started'[s] = n /\ \A t \in Senders \ {s} : started'[t] = started[t]
        /\ n \in Nat /\ started \in [Senders -> Nat]
    BY DEF StartMessage, TypeOK
  <1>3. UNCHANGED <<pending, RecvPacketCh, receiverVars>> BY DEF StartMessage
  <1>4. Parts' = Parts \cup {frag}
    BY <1>1, <1>2, <1>3, SenderMoves DEF Parts, Out, InAir
  <1>5. \A t \in Senders : \A m, msg : Numbered(t, m, msg)' = Numbered(t, m, msg)
    BY <1>2 DEF Numbered, LastRestart
  <1>6. Parts \subseteq Fragment BY PartsType DEF Parts, Out
  <1>7. \A f \in Parts : /\ f.src \in Senders /\ f.msg \in Nat /\ f.msg <= started[f.src]
                         /\ f.msg <= started'[f.src] /\ f.seq <= f.total
                         /\ Numbered(f.src, f.no, f.msg)'
    <2> TAKE f \in Parts
    <2>1. f.src \in Senders /\ f.msg \in Nat BY <1>6, FragmentFields
    <2>2. f.msg <= started[f.src] /\ f.seq <= f.total /\ Numbered(f.src, f.no, f.msg)
      BY DEF PartsInv
    <2>3. started[f.src] <= started'[f.src] /\ started'[f.src] \in Nat
      BY <1>2, <2>1
    <2> QED BY <1>2, <1>5, <2>1, <2>2, <2>3
  <1>8. /\ frag.msg <= started'[frag.src] /\ frag.seq <= frag.total
        /\ Numbered(frag.src, frag.no, frag.msg)'
    <2>1. Numbered(s, no, n) BY DEF PartsInv, NextNo
    <2>2. Numbered(s, no, n)' BY <1>5, <2>1
    <2>3. 1 <= total BY Constants
    <2> QED BY <1>1, <1>2, <2>2, <2>3
  <1>9. \A f, g \in Parts' : Agree(f, g)'
    <2>1. \A f \in Parts : Message(f) # Message(frag)
      BY <1>1, <1>2, <1>7 DEF Message
    <2> QED BY <1>4, <2>1 DEF PartsInv, Agree, Message
  <1>10. ASSUME NEW t \in Senders
         PROVE  Numbered(t, (Seq_[t] + 1) % NoMod, started[t] + 1)'
    <2>1. CASE t = s BY <1>2, <2>1, NumberedNext
    <2>2. CASE t # s BY <1>2, <1>5, <2>2 DEF PartsInv
    <2> QED BY <2>1, <2>2
  <1>11. \A t \in Active' : sending'[t].frag.src = t /\ sending'[t].frag.msg = started'[t]
    BY <1>1, <1>2 DEF PartsInv, Active
  <1>12. \A t \in Senders : \A f \in ToSet(air'[t]) : f.src = t
    BY <1>2 DEF PartsInv
  <1>13. \A t \in Senders : \A r \in restarts'[t] : r \in 1 .. started'[t]
    BY <1>2 DEF PartsInv
  <1> QED BY <1>4, <1>7, <1>8, <1>9, <1>10, <1>11, <1>12, <1>13 DEF PartsInv

LEMMA RefuseParts ==
  ASSUME TypeOK, PartsInv, NEW s \in Senders, RefuseMessage(s)
  PROVE  PartsInv'
  <1> DEFINE n == started[s] + 1
  <1>1. /\ UNCHANGED <<restarts, air, sending>> /\ sending[s] = Nothing
        /\ Seq_'[s] = NextNo(s) /\ \A t \in Senders \ {s} : Seq_'[t] = Seq_[t]
        /\ started'[s] = n /\ \A t \in Senders \ {s} : started'[t] = started[t]
        /\ n \in Nat /\ started \in [Senders -> Nat]
    BY DEF RefuseMessage, TypeOK
  <1>2. UNCHANGED <<pending, RecvPacketCh, receiverVars>> BY DEF RefuseMessage
  <1>3. Parts' = Parts /\ Active' = Active
    BY <1>1, <1>2, SenderMoves DEF Parts, Out, InAir, BeingSent, Active
  <1> HIDE DEF n
  <1>4. \A t \in Senders : \A no, msg : Numbered(t, no, msg)' = Numbered(t, no, msg)
    BY <1>1 DEF Numbered, LastRestart
  <1>5. Parts \subseteq Fragment BY PartsType DEF Parts, Out
  <1>6. \A f \in Parts : /\ f.msg <= started'[f.src] /\ f.seq <= f.total
                         /\ Numbered(f.src, f.no, f.msg)'
    <2> TAKE f \in Parts
    <2>1. f.src \in Senders /\ f.msg \in Nat BY <1>5, FragmentFields
    <2>2. f.msg <= started[f.src] /\ f.seq <= f.total /\ Numbered(f.src, f.no, f.msg)
      BY DEF PartsInv
    <2>3. started[f.src] <= started'[f.src] /\ started'[f.src] \in Nat
      BY <1>1, <2>1 DEF n
    <2> QED BY <1>1, <1>4, <2>1, <2>2, <2>3
  <1>7. \A f, g \in Parts' : Agree(f, g)' BY <1>3 DEF PartsInv, Agree, Message
  <1>8. ASSUME NEW t \in Senders
        PROVE  Numbered(t, (Seq_[t] + 1) % NoMod, started[t] + 1)'
    <2>1. CASE t = s BY <1>1, <2>1, NumberedNext DEF n
    <2>2. CASE t # s BY <1>1, <1>4, <2>2 DEF PartsInv
    <2> QED BY <2>1, <2>2
  <1>9. /\ \A t \in Active' : sending'[t].frag.src = t /\ sending'[t].frag.msg = started'[t]
        /\ \A t \in Senders : \A f \in ToSet(air'[t]) : f.src = t
        /\ \A t \in Senders : \A r \in restarts'[t] : r \in 1 .. started'[t]
    BY <1>1, <1>3 DEF PartsInv, Active, n
  <1> QED BY <1>3, <1>6, <1>7, <1>8, <1>9 DEF PartsInv

LEMMA WriteParts ==
  ASSUME TypeOK, PartsInv, NEW s \in Senders, WriteFrame(s)
  PROVE  PartsInv'
  <1>1. UNCHANGED <<pending, RecvPacketCh, receiverVars, Seq_, started, restarts>>
    BY DEF WriteFrame
  <1>2. sending[s].frag \in BeingSent /\ sending[s].frag.src = s
    BY WriteMoves DEF BeingSent, PartsInv
  <1>3. InAir' \subseteq InAir \cup {sending[s].frag} /\ BeingSent' = BeingSent
    BY WriteMoves
  <1>4. Parts' \subseteq Parts BY <1>1, <1>2, <1>3, SenderMoves DEF Parts, Out
  <1>5. \A t \in Active' : t \in Active /\ sending'[t].frag = sending[t].frag
    BY WriteMoves DEF Active
  <1>6. \A t \in Senders : \A f \in ToSet(air'[t]) : f \in ToSet(air[t]) \/ f.src = t
    BY <1>2, WriteMoves
  <1> QED BY <1>1, <1>4, <1>5, <1>6, FewerParts

LEMMA StatusOkParts ==
  ASSUME TypeOK, PartsInv, NEW s \in Senders, StatusOk(s)
  PROVE  PartsInv'
  <1> PICK frag : frag = sending[s].frag OBVIOUS
  <1> PICK next : next = sending'[s].frag OBVIOUS
  <1>1. /\ UNCHANGED <<pending, RecvPacketCh, receiverVars, Seq_, started, restarts, air>>
        /\ InAir' = InAir
    BY DEF StatusOk, InAir
  <1>2. s \in Active /\ frag \in Fragment /\ frag \in BeingSent
        /\ \A t \in Senders \ {s} : sending'[t] = sending[t]
    BY StatusOkMoves DEF BeingSent
  <1>3. CASE sending'[s] = Nothing
    <2>1. BeingSent' \subseteq BeingSent /\ Active' = Active \ {s}
      BY <1>3, StatusOkMoves
    <2>2. Parts' \subseteq Parts BY <1>1, <2>1, SenderMoves DEF Parts, Out
    <2>3. \A t \in Active' : t \in Active /\ sending'[t].frag = sending[t].frag
      BY <1>2, <2>1 DEF Active
    <2> QED BY <1>1, <2>2, <2>3, FewerParts
  <1>4. CASE sending'[s] # Nothing
    <2>1. /\ frag.seq < frag.total /\ Active' = Active
          /\ next = [frag EXCEPT !.seq = @ + 1] /\ next \in Fragment
          /\ BeingSent' \subseteq BeingSent \cup {next}
      BY <1>4, StatusOkMoves
    <2>2. /\ next.src = frag.src /\ next.to = frag.to /\ next.no = frag.no
          /\ next.total = frag.total /\ next.msg = frag.msg /\ next.seq = frag.seq + 1
      BY <1>2, <2>1 DEF Fragment
    <2>3. Parts' \subseteq Parts \cup {next} /\ frag \in Parts
      BY <1>1, <1>2, <2>1, SenderMoves DEF Parts, Out
    <2>4. \A t \in Senders : \A no, msg : Numbered(t, no, msg)' = Numbered(t, no, msg)
      BY <1>1 DEF Numbered, LastRestart
    <2>5. Parts \subseteq Fragment BY PartsType DEF Parts, Out
    <2>6. \A f \in Parts : /\ f.msg <= started'[f.src] /\ f.seq <= f.total
                           /\ Numbered(f.src, f.no, f.msg)'
      BY <1>1, <2>4, <2>5, FragmentFields DEF PartsInv
    <2>7. frag.seq \in Nat /\ frag.total \in Nat /\ frag.seq + 1 <= frag.total
      <3>1. frag.seq \in Nat /\ frag.total \in 1 .. 255 BY <1>2, FragmentFields
      <3>2. frag.seq < frag.total BY <2>1
      <3>3. \A a \in Nat, b \in 1 .. 255 : a < b => b \in Nat /\ a + 1 <= b
        OBVIOUS
      <3> QED BY <3>1, <3>2, <3>3
    <2>8. /\ next.msg <= started'[next.src] /\ next.seq <= next.total
          /\ Numbered(next.src, next.no, next.msg)'
      BY <2>2, <2>3, <2>6, <2>7
    <2>9. \A f, g \in Parts' : Agree(f, g)'
      <3>1. \A f \in Parts : Agree(f, frag) BY <2>3 DEF PartsInv
      <3>2. \A f \in Parts : Agree(f, next) /\ Agree(next, f)
        BY <2>2, <3>1 DEF Agree, Message
      <3> QED BY <2>3, <3>2 DEF PartsInv, Agree, Message
    <2>10. \A t \in Senders : Numbered(t, (Seq_[t] + 1) % NoMod, started[t] + 1)'
      BY <1>1, <2>4 DEF PartsInv
    <2>11. \A t \in Active' : sending'[t].frag.src = t /\ sending'[t].frag.msg = started'[t]
      <3>1. frag.src = s /\ frag.msg = started[s] BY <1>2 DEF PartsInv
      <3>2. \A t \in Active' \ {s} : sending'[t] = sending[t] /\ t \in Active
        BY <1>2, <2>1 DEF Active
      <3> QED BY <1>1, <2>2, <3>1, <3>2 DEF PartsInv
    <2>12. /\ \A t \in Senders : \A f \in ToSet(air'[t]) : f.src = t
           /\ \A t \in Senders : \A r \in restarts'[t] : r \in 1 .. started'[t]
      BY <1>1 DEF PartsInv
    <2> QED BY <2>3, <2>6, <2>8, <2>9, <2>10, <2>11, <2>12 DEF PartsInv
  <1> QED BY <1>3, <1>4

LEMMA StatusBadParts ==
  ASSUME TypeOK, PartsInv, NEW s \in Senders, StatusBad(s)
  PROVE  PartsInv'
  <1>1. /\ UNCHANGED <<pending, RecvPacketCh, receiverVars, Seq_, started, restarts, air>>
        /\ InAir' = InAir
    BY DEF StatusBad, InAir
  <1>2. Parts' \subseteq Parts
    BY <1>1, StatusBadMoves, SenderMoves DEF Parts, Out
  <1>3. \A t \in Active' : t \in Active /\ sending'[t].frag = sending[t].frag
    BY StatusBadMoves DEF Active
  <1> QED BY <1>1, <1>2, <1>3, FewerParts

LEMMA RestartParts ==
  ASSUME TypeOK, PartsInv, NEW s \in Senders, Restart(s)
  PROVE  PartsInv'
  <1>1. /\ UNCHANGED <<pending, RecvPacketCh, receiverVars, started, air>>
        /\ InAir' = InAir /\ started[s] \in Nat \ {0}
        /\ Seq_'[s] = -1 /\ \A t \in Senders \ {s} : Seq_'[t] = Seq_[t]
    BY DEF Restart, InAir, TypeOK
  <1>2. Parts' \subseteq Parts BY <1>1, RestartMoves, SenderMoves DEF Parts, Out
  <1>3. Parts \subseteq Fragment BY PartsType DEF Parts, Out
  <1>4. \A f \in Parts' : /\ f.msg <= started'[f.src] /\ f.seq <= f.total
                          /\ Numbered(f.src, f.no, f.msg)'
    <2> TAKE f \in Parts'
    <2>1. f.src \in Senders /\ f.msg \in Nat BY <1>2, <1>3, FragmentFields
    <2>2. f.msg <= started[f.src] /\ f.seq <= f.total /\ Numbered(f.src, f.no, f.msg)
      BY <1>2 DEF PartsInv
    <2>3. Numbered(f.src, f.no, f.msg)'
      BY <2>1, <2>2, RestartMoves, NumberedKept
    <2> QED BY <1>1, <2>2, <2>3
  <1>5. \A f, g \in Parts' : Agree(f, g)' BY <1>2 DEF PartsInv, Agree, Message
  <1>6. ASSUME NEW t \in Senders
        PROVE  Numbered(t, (Seq_[t] + 1) % NoMod, started[t] + 1)'
    <2>1. CASE t = s
      <3>1. LastRestart(s, started[s], started[s] + 1)'
        BY <1>1, RestartMoves DEF LastRestart
      <3>2. (-1 + 1) % NoMod = (started[s] + 1 - 1 - started[s]) % NoMod
        BY <1>1
      <3> QED BY <1>1, <2>1, <3>1, <3>2 DEF Numbered
    <2>2. CASE t # s
      <3>1. restarts'[t] = restarts[t] /\ Seq_'[t] = Seq_[t] /\ started[t] + 1 \in Nat
        <4>1. started[t] + 1 \in Nat BY DEF TypeOK
        <4> QED BY <1>1, <2>2, <4>1, RestartMoves
      <3>2. Numbered(t, (Seq_[t] + 1) % NoMod, started[t] + 1) BY DEF PartsInv
      <3> QED BY <1>1, <3>1, <3>2 DEF Numbered, LastRestart
    <2> QED BY <2>1, <2>2
  <1>7. \A t \in Active' : sending'[t].frag.src = t /\ sending'[t].frag.msg = started'[t]
    BY <1>1, RestartMoves DEF PartsInv, Active
  <1>8. \A t \in Senders : \A r \in restarts'[t] : r \in 1 .. started'[t]
    BY <1>1, RestartMoves DEF PartsInv
  <1> QED BY <1>1, <1>4, <1>5, <1>6, <1>7, <1>8 DEF PartsInv

LEMMA NextParts == TypeOK /\ PartsInv /\ [Next]_vars => PartsInv'
  <1> SUFFICES ASSUME TypeOK, PartsInv, [Next]_vars PROVE PartsInv' OBVIOUS
  <1>1. CASE UNCHANGED vars
    <2>1. /\ UNCHANGED <<Seq_, started, restarts, sending, air>>
          /\ Parts' = Parts /\ Active' = Active
      BY <1>1
      DEF vars, senderVars, receiverVars, Parts, Out, InAir, InLine, Line, Held,
          Returned, BeingSent, Active
    <2> QED BY <2>1, FewerParts
  <1>2. CASE Next
    <2>1. CASE \E s \in Senders, total \in Totals, to \in Tos : StartMessage(s, total, to)
      BY <2>1, StartParts
    <2>2. CASE \E s \in Senders : \/ RefuseMessage(s) \/ WriteFrame(s) \/ StatusOk(s)
                                  \/ StatusBad(s) \/ Restart(s)
      BY <2>2, RefuseParts, WriteParts, StatusOkParts, StatusBadParts,
         RestartParts
    <2>3. CASE Receive BY <2>3, ReceivePartsInv
    <2> QED BY <1>2, <2>1, <2>2, <2>3 DEF Next, Receive
  <1> QED BY <1>1, <1>2

-----------------------------------------------------------------------------
(* IndexInv *)

LEMMA InitIndex == Init => IndexInv
  BY DEF Init, IndexInv, ToSet

(* A fragment is put to those with its index, so that a returned message   *)
(* has one index.                                                          *)
LEMMA TakeFragmentIndex ==
  ASSUME TypeOK, IndexInv, TakeFragment
  PROVE  IndexInv'
  <1> DEFINE f0 == Head(RecvPacketCh)
             all0 == Append(receivedData[Index(f0)], f0)
             x0 == Index(f0)
  <1> PICK frag : frag = f0 OBVIOUS
  <1> PICK x : x = x0 OBVIOUS
  <1> PICK all : all = all0 OBVIOUS
  <1>1. /\ driver' = driver /\ frag \in Fragment /\ Index(frag) = x /\ x \in Indices
        /\ all \in Seq(Fragment) /\ all # <<>> /\ all[Len(all)] = frag
        /\ ToSet(all) = ToSet(receivedData[x]) \cup {frag}
    BY TakeFragmentMoves
  <1>2. \/ /\ Len(all) = frag.total
           /\ returned' = Append(returned, all)
           /\ Forget({Message(frag)})
        \/ /\ receivedData' = [receivedData EXCEPT ![x] = all]
           /\ UNCHANGED <<returned, broken>>
    BY TakeFragmentMoves
  <1> HIDE DEF f0, all0, x0
  <1>3. \A f \in ToSet(all) : Index(f) = x BY <1>1 DEF IndexInv
  <1>4. \A f : Index(f)' = Index(f) BY <1>1 DEF Index
  <1>5. CASE Len(all) = frag.total /\ returned' = Append(returned, all)
             /\ Forget({Message(frag)})
    <2>1. \A y \in Indices : ToSet(receivedData'[y]) = {} BY <1>5, ForgetMoves
    <2>2. returned \in Seq(Seq(Fragment)) BY DEF TypeOK
    <2> PICK n : n = Len(returned) OBVIOUS
    <2>3. /\ returned' \in Seq(Seq(Fragment)) /\ Len(returned') = n + 1 /\ n \in Nat
          /\ \A k \in 1 .. n : returned'[k] = returned[k]
          /\ returned'[n + 1] = all
      BY <1>1, <1>5, <2>2, AppendProperties, LenProperties
    <2>4. DOMAIN returned = 1 .. n /\ DOMAIN returned' = 1 .. n + 1
      BY <2>2, <2>3, LenProperties
    <2>5. all # <<>> /\ Len(all) = all[Len(all)].total /\ Len(all) \in Nat \ {0}
          /\ DOMAIN all = 1 .. Len(all)
      BY <1>1, <1>5, LenProperties, EmptySeq
    <2>6. \A i \in DOMAIN all : Index(all[i]) = Index(all[1])
      BY <1>3, <2>5 DEF ToSet
    <2>7. ASSUME NEW k \in 1 .. n + 1
          PROVE  /\ returned'[k] # <<>>
                 /\ Len(returned'[k]) = returned'[k][Len(returned'[k])].total
                 /\ \A i \in DOMAIN returned'[k] :
                      Index(returned'[k][i]) = Index(returned'[k][1])
      <3>1. CASE k = n + 1 BY <2>3, <2>5, <2>6, <3>1
      <3>2. CASE k \in 1 .. n
        BY <2>3, <2>4, <3>2 DEF IndexInv
      <3> QED BY <2>3, <3>1, <3>2
    <2> QED BY <1>4, <2>1, <2>4, <2>7 DEF IndexInv
  <1>6. CASE receivedData' = [receivedData EXCEPT ![x] = all] /\ UNCHANGED <<returned, broken>>
    <2>1. /\ receivedData'[x] = all
          /\ \A y \in Indices \ {x} : receivedData'[y] = receivedData[y]
      BY <1>1, <1>6 DEF TypeOK
    <2>2. \A y \in Indices : \A f \in ToSet(receivedData'[y]) : Index(f)' = y
      BY <1>3, <1>4, <2>1 DEF IndexInv
    <2> QED BY <1>4, <1>6, <2>2 DEF IndexInv
  <1> QED BY <1>2, <1>5, <1>6

LEMMA NextIndex == TypeOK /\ IndexInv /\ [Next]_vars => IndexInv'
  <1> SUFFICES ASSUME TypeOK, IndexInv, [Next]_vars PROVE IndexInv' OBVIOUS
  <1>1. ASSUME UNCHANGED driver, UNCHANGED returned,
               UNCHANGED receivedData \/ \E kept : Forget(kept)
        PROVE  IndexInv'
    <2>1. \A f : Index(f)' = Index(f) BY <1>1 DEF Index
    <2>2. \A x \in Indices : \A f \in ToSet(receivedData'[x]) : Index(f)' = x
      BY <1>1, <2>1, ForgetMoves DEF IndexInv
    <2> QED BY <1>1, <2>1, <2>2 DEF IndexInv
  <1>2. CASE UNCHANGED vars BY <1>1, <1>2 DEF vars, receiverVars
  <1>3. CASE TakeFragment BY <1>3, TakeFragmentIndex
  <1>4. CASE \E s \in Senders, total \in Totals, to \in Tos : StartMessage(s, total, to)
    BY <1>1, <1>4 DEF StartMessage, receiverVars
  <1>5. CASE \E s \in Senders : \/ RefuseMessage(s) \/ WriteFrame(s) \/ StatusOk(s)
                                \/ StatusBad(s) \/ Restart(s)
    BY <1>1, <1>5
    DEF RefuseMessage, WriteFrame, StatusOk, StatusBad, Restart, receiverVars
  <1>6. CASE \E s \in Senders : \E i \in DOMAIN air[s] :
               Arrive(s, i, air[s][i]) \/ Arrive(s, i, Corrupt)
    BY <1>1, <1>6 DEF Arrive, receiverVars
  <1>7. CASE MakeRoom \/ TakeCorrupt \/ GetPacketTimeout
    BY <1>1, <1>7 DEF MakeRoom, TakeCorrupt, GetPacketTimeout, receiverVars
  <1> QED BY <1>2, <1>3, <1>4, <1>5, <1>6, <1>7 DEF Next

-----------------------------------------------------------------------------
(* OrderInv *)

(* A sequence stays sorted when a later fragment is appended, *)
LEMMA SortedAppend ==
  ASSUME NEW S, NEW q \in Seq(S), NEW e \in S, Sorted(q),
         e # Corrupt => \A f \in ToSet(q) \ {Corrupt} : Ahead(f, e)
  PROVE  Sorted(Append(q, e))
  <1> PICK n : n = Len(q) OBVIOUS
  <1> PICK r : r = Append(q, e) OBVIOUS
  <1>1. DOMAIN q = 1 .. n /\ n \in Nat BY LenProperties
  <1>2. /\ r \in Seq(S) /\ Len(r) = n + 1
        /\ \A i \in 1 .. n : r[i] = q[i]
        /\ r[n + 1] = e
    BY AppendProperties
  <1>3. DOMAIN r = 1 .. n + 1 BY <1>2, LenProperties
  <1>4. ASSUME NEW i \in 1 .. n + 1, NEW j \in 1 .. n + 1, i < j,
               r[i] # Corrupt, r[j] # Corrupt
        PROVE  Ahead(r[i], r[j])
    <2>1. i \in 1 .. n BY <1>1, <1>4
    <2>2. CASE j \in 1 .. n BY <1>1, <1>2, <1>4, <2>1, <2>2 DEF Sorted
    <2>3. CASE j = n + 1
      <3>1. q[i] \in ToSet(q) \ {Corrupt} BY <1>1, <1>2, <1>4, <2>1 DEF ToSet
      <3> QED BY <1>2, <1>4, <2>1, <2>3, <3>1
    <2> QED BY <1>1, <1>4, <2>2, <2>3
  <1>5. Sorted(r) BY <1>3, <1>4 DEF Sorted
  <1> QED BY <1>5

(* and when its first is taken, which is before the others. *)
LEMMA SortedTail ==
  ASSUME NEW S, NEW q \in Seq(S), q # <<>>, Sorted(q)
  PROVE  /\ Sorted(Tail(q))
         /\ Head(q) # Corrupt =>
              \A f \in ToSet(Tail(q)) \ {Corrupt} : Ahead(Head(q), f)
  <1> PICK n : n = Len(q) OBVIOUS
  <1> PICK r : r = Tail(q) OBVIOUS
  <1>1. DOMAIN q = 1 .. n /\ n \in Nat \ {0} BY LenProperties, EmptySeq
  <1>2. /\ r \in Seq(S) /\ Len(r) = n - 1 /\ Head(q) = q[1]
        /\ \A i \in 1 .. n - 1 : r[i] = q[i + 1]
    BY HeadTailProperties
  <1>3. DOMAIN r = 1 .. n - 1 BY <1>1, <1>2, LenProperties
  <1>4. ASSUME NEW i \in 1 .. n - 1, NEW j \in 1 .. n - 1, i < j,
               r[i] # Corrupt, r[j] # Corrupt
        PROVE  Ahead(r[i], r[j])
    <2>1. i + 1 \in 1 .. n /\ j + 1 \in 1 .. n /\ i + 1 < j + 1 BY <1>1, <1>4
    <2> QED BY <1>1, <1>2, <1>4, <2>1 DEF Sorted
  <1>5. Sorted(r) BY <1>3, <1>4 DEF Sorted
  <1>6. ASSUME Head(q) # Corrupt, NEW i \in 1 .. n - 1, r[i] # Corrupt
        PROVE  Ahead(Head(q), r[i])
    <2>1. 1 \in 1 .. n /\ i + 1 \in 1 .. n /\ 1 < i + 1 BY <1>1
    <2> QED BY <1>1, <1>2, <1>6, <2>1 DEF Sorted
  <1> QED BY <1>3, <1>5, <1>6 DEF ToSet

(* No fragment is before itself. *)
LEMMA AheadIsStrict ==
  ASSUME NEW f \in Fragment, NEW g \in Fragment
  PROVE  ~Ahead(f, f) /\ (f.src = g.src => ~(Ahead(f, g) /\ Ahead(g, f)))
  <1>1. f.msg \in Nat /\ f.seq \in Nat /\ g.msg \in Nat /\ g.seq \in Nat
    BY FragmentFields
  <1> QED BY <1>1 DEF Ahead

LEMMA InitOrder == Init => OrderInv
  <1> SUFFICES ASSUME Init PROVE OrderInv OBVIOUS
  <1>1. Line = <<>> /\ InLine = {} BY DEF Init, Line, InLine, ToSet
  <1>2. InAir = {} /\ Held = {} /\ Returned = {} /\ Active = {}
    BY DEF Init, InAir, Held, Returned, BeingSent, Active, ToSet
  <1>3. Sorted(<<>>) BY DEF Sorted
  <1> QED BY <1>1, <1>2, <1>3 DEF Init, OrderInv, UsedOnce, Out

(* A step that only takes fragments away keeps the order. *)
LEMMA FewerOrder ==
  ASSUME OrderInv, UNCHANGED <<driver, returned>>,
         UNCHANGED receivedData \/ \A x \in Indices : receivedData'[x] = <<>>,
         Sorted(Line)', \A s \in Senders : Sorted(air[s])',
         InLine' \subseteq InLine, InAir' \subseteq InAir,
         \A s \in Active' : s \in Active /\ sending'[s] = sending[s]
  PROVE  OrderInv'
  <1>1. Held' \subseteq Held /\ Returned' = Returned
    BY DEF Held, Returned, ToSet
  <1>2. Out' \subseteq Out BY <1>1 DEF Out
  <1>3. \A x \in Indices : Sorted(receivedData[x])' BY DEF OrderInv, Sorted
  <1>4. \A k \in DOMAIN returned' : Sorted(returned'[k]) BY DEF OrderInv
  <1>5. /\ \A f \in InLine', g \in InAir' : Ahead(f, g)
        /\ \A f \in Held' \cup Returned', g \in InLine' \cup InAir' : Ahead(f, g)
    BY <1>1 DEF OrderInv
  <1>6. \A s \in Active' : \A f \in Out' :
          Ahead(f, sending'[s].frag) \/ (sending'[s].at = "status" /\ f = sending'[s].frag)
    BY <1>2 DEF OrderInv
  <1>7. Held' \cap Returned' = {} /\ UsedOnce' BY <1>1 DEF OrderInv, UsedOnce
  <1> QED BY <1>3, <1>4, <1>5, <1>6, <1>7 DEF OrderInv

(* The first frame of a sender in the air comes after all that was         *)
(* received.                                                               *)
LEMMA ArriveOrder ==
  ASSUME TypeOK, PartsInv, OrderInv, driver # "vxbee",
         NEW s \in Senders, NEW i \in DOMAIN air[s],
         NEW frame \in {air[s][i], Corrupt}, Arrive(s, i, frame)
  PROVE  OrderInv'
  <1> PICK h : h = air[s][i] OBVIOUS
  <1>1. /\ Line' = Append(Line, frame)
        /\ InLine' = InLine \cup ({frame} \ {Corrupt})
        /\ h \in InAir /\ h \in ToSet(air[s])
        /\ \A t \in Senders \ {s} : air'[t] = air[t]
        /\ InAir = InAir' \cup {h}
        /\ air'[s] = Tail(air[s]) /\ h = Head(air[s]) /\ air[s] # <<>>
        /\ UNCHANGED <<driver, senderVars, receiverVars>>
        /\ Held' = Held /\ Returned' = Returned
    BY ArriveMoves
  <1>2. /\ air[s] \in Seq(Fragment) /\ Line \in Seq(Fragment \cup {Corrupt})
        /\ h \in Fragment /\ h # Corrupt /\ frame \in Fragment \cup {Corrupt}
        /\ InAir \subseteq Fragment
    BY <1>1, PartsType, Constants DEF TypeOK
  <1>3. Sorted(Line')
    <2>1. frame # Corrupt => frame = h OBVIOUS
    <2>2. frame # Corrupt => \A f \in InLine : Ahead(f, frame)
      BY <1>1, <2>1 DEF OrderInv
    <2> PICK q : q = Line OBVIOUS
    <2> DEFINE Frame == Fragment \cup {Corrupt}
    <2>3. q \in Seq(Frame) /\ frame \in Frame /\ Sorted(q) BY <1>2 DEF OrderInv
    <2> HIDE DEF Frame
    <2>4. Sorted(Append(q, frame)) BY <2>2, <2>3, SortedAppend DEF InLine
    <2> QED BY <1>1, <2>4
  <1>4. /\ Sorted(air'[s])
        /\ \A f \in ToSet(air'[s]) \ {Corrupt} : Ahead(h, f)
    BY <1>1, <1>2, SortedTail DEF OrderInv
  <1>5. \A t \in Senders : Sorted(air'[t]) BY <1>1, <1>4 DEF OrderInv
  <1>6. \A g \in InAir' : Ahead(h, g)
    <2> SUFFICES ASSUME NEW t \in Senders, NEW g \in ToSet(air'[t])
                 PROVE  Ahead(h, g)
      BY DEF InAir
    <2>1. CASE t = s
      <3>1. g \in InAir' BY DEF InAir
      <3>2. g # Corrupt BY <1>1, <1>2, <3>1, Constants
      <3> QED BY <1>4, <2>1, <3>2
    <2>2. CASE t # s
      <3>1. h.src = s /\ g.src = t BY <1>1, <2>2 DEF PartsInv
      <3> QED BY <2>2, <3>1 DEF Ahead
    <2> QED BY <2>1, <2>2
  <1>7. \A f \in InLine', g \in InAir' : Ahead(f, g)
    BY <1>1, <1>6 DEF OrderInv
  <1>8. InLine' \cup InAir' \subseteq InLine \cup InAir BY <1>1
  <1>9. \A f \in Held' \cup Returned', g \in InLine' \cup InAir' : Ahead(f, g)
    BY <1>1, <1>8 DEF OrderInv
  <1>10. \A t \in Active' : \A f \in Out' :
          Ahead(f, sending'[t].frag) \/ (sending'[t].at = "status" /\ f = sending'[t].frag)
    BY <1>1, <1>8 DEF OrderInv, Out, Active, senderVars
  <1> QED
    BY <1>1, <1>3, <1>5, <1>7, <1>9, <1>10 DEF OrderInv, receiverVars, UsedOnce

(* The first of the line comes after all that is held or returned, and     *)
(* before the rest of the line.                                            *)
LEMMA TakeFragmentOrder ==
  ASSUME TypeOK, OrderInv, driver # "vxbee", TakeFragment
  PROVE  OrderInv'
  <1> DEFINE f0 == Head(RecvPacketCh)
             all0 == Append(receivedData[Index(f0)], f0)
             x0 == Index(f0)
  <1> PICK frag : frag = f0 OBVIOUS
  <1> PICK x : x = x0 OBVIOUS
  <1> PICK all : all = all0 OBVIOUS
  <1>1. /\ driver' = driver /\ frag \in Fragment /\ x \in Indices
        /\ Line' = Tail(Line) /\ Line # <<>> /\ Head(Line) = frag
        /\ InLine = InLine' \cup {frag} /\ frag \in InLine
        /\ UNCHANGED <<senderVars, air>> /\ InAir' = InAir
        /\ all \in Seq(Fragment)
        /\ ToSet(all) = ToSet(receivedData[x]) \cup {frag}
    BY TakeFragmentMoves
  <1>2. \/ /\ returned' = Append(returned, all)
           /\ Forget({Message(frag)})
           /\ Returned' = Returned \cup ToSet(all)
        \/ /\ receivedData' = [receivedData EXCEPT ![x] = all]
           /\ UNCHANGED <<returned, broken>>
           /\ Held' = Held \cup {frag} /\ Returned' = Returned
    BY TakeFragmentMoves
  <1>3. receivedData[x] \in Seq(Fragment) /\ all = Append(receivedData[x], frag)
    BY <1>1 DEF TypeOK
  <1> HIDE DEF f0, all0, x0
  <1>4. ToSet(receivedData[x]) \subseteq Held BY <1>1 DEF Held
  <1>5. Line \in Seq(Fragment \cup {Corrupt}) /\ frag # Corrupt /\ InAir \subseteq Fragment
        /\ InLine \subseteq Fragment
    BY <1>1, PartsType, Constants
  <1>6. Sorted(Line') /\ \A g \in InLine' : Ahead(frag, g)
    <2> DEFINE Frame == Fragment \cup {Corrupt}
    <2> PICK q : q = Line OBVIOUS
    <2>1. q \in Seq(Frame) /\ q # <<>> /\ Sorted(q) BY <1>1, <1>5 DEF OrderInv
    <2> HIDE DEF Frame
    <2>2. Sorted(Tail(q)) /\ (Head(q) # Corrupt =>
            \A g \in ToSet(Tail(q)) \ {Corrupt} : Ahead(Head(q), g))
      BY <2>1, SortedTail
    <2> QED BY <1>1, <1>5, <2>2 DEF InLine
  <1>7. \A g \in InLine' \cup InAir' : Ahead(frag, g)
    BY <1>1, <1>6 DEF OrderInv
  <1>8. /\ \A f \in Held \cup Returned : Ahead(f, frag)
        /\ frag \notin Held \cup Returned
    BY <1>1, AheadIsStrict DEF OrderInv
  <1>9. Sorted(all)
    BY <1>1, <1>3, <1>4, <1>8, SortedAppend DEF OrderInv
  <1>10. Held' \cup Returned' \subseteq Held \cup Returned \cup {frag}
    BY <1>1, <1>2, <1>4, ForgetMoves
  <1>11. /\ \A f \in InLine', g \in InAir' : Ahead(f, g)
         /\ \A f \in Held' \cup Returned', g \in InLine' \cup InAir' : Ahead(f, g)
    BY <1>1, <1>7, <1>10 DEF OrderInv
  <1>12. Out' \subseteq Out BY <1>1, <1>10 DEF Out
  <1>13. \A t \in Active' : \A f \in Out' :
          Ahead(f, sending'[t].frag) \/ (sending'[t].at = "status" /\ f = sending'[t].frag)
    BY <1>1, <1>12 DEF OrderInv, Active, senderVars
  <1>14. \A t \in Senders : Sorted(air'[t]) BY <1>1 DEF OrderInv
  <1>15. /\ \A y \in Indices : Sorted(receivedData'[y])
         /\ \A k \in DOMAIN returned' : Sorted(returned'[k])
         /\ Held' \cap Returned' = {} /\ UsedOnce'
    <2>1. CASE /\ receivedData' = [receivedData EXCEPT ![x] = all]
               /\ UNCHANGED <<returned, broken>>
               /\ Held' = Held \cup {frag} /\ Returned' = Returned
      <3>1. /\ receivedData'[x] = all
            /\ \A y \in Indices \ {x} : receivedData'[y] = receivedData[y]
        BY <1>1, <2>1 DEF TypeOK
      <3>2. \A y \in Indices : Sorted(receivedData'[y])
        BY <1>9, <3>1 DEF OrderInv
      <3> QED BY <1>1, <1>8, <2>1, <3>2 DEF OrderInv, UsedOnce
    <2>2. CASE /\ returned' = Append(returned, all)
               /\ Forget({Message(frag)})
               /\ Returned' = Returned \cup ToSet(all)
      <3>1. Held' = {} /\ \A y \in Indices : receivedData'[y] = <<>>
        BY <2>2, ForgetMoves
      <3> PICK n : n = Len(returned) OBVIOUS
      <3>2. returned \in Seq(Seq(Fragment)) BY DEF TypeOK
      <3>3. /\ returned' \in Seq(Seq(Fragment)) /\ Len(returned') = n + 1 /\ n \in Nat
            /\ \A k \in 1 .. n : returned'[k] = returned[k]
            /\ returned'[n + 1] = all
        BY <1>1, <2>2, <3>2, AppendProperties, LenProperties
      <3>4. DOMAIN returned = 1 .. n /\ DOMAIN returned' = 1 .. n + 1
        BY <3>2, <3>3, LenProperties
      <3>5. ToSet(all) \cap Returned = {}
        BY <1>1, <1>4, <1>8 DEF OrderInv
      <3>6. \A k \in 1 .. n : ToSet(returned[k]) \subseteq Returned
        BY <3>4 DEF Returned
      <3>7. \A k, l \in 1 .. n : k # l => ToSet(returned[k]) \cap ToSet(returned[l]) = {}
        BY <3>4 DEF OrderInv, UsedOnce
      <3>8. \A k, l \in 1 .. n + 1 : k # l =>
              ToSet(returned'[k]) \cap ToSet(returned'[l]) = {}
        <4>1. \A k \in 1 .. n + 1 : k \in 1 .. n \/ k = n + 1 BY <3>3
        <4> QED BY <3>3, <3>5, <3>6, <3>7, <4>1
      <3>9. \A k \in 1 .. n + 1 : Sorted(returned'[k])
        <4>1. \A k \in 1 .. n + 1 : k \in 1 .. n \/ k = n + 1 BY <3>3
        <4> QED BY <1>9, <3>3, <3>4, <4>1 DEF OrderInv
      <3>10. Sorted(<<>>) BY DEF Sorted
      <3> QED BY <3>1, <3>4, <3>8, <3>9, <3>10 DEF UsedOnce
    <2> QED BY <1>2, <2>1, <2>2
  <1> QED BY <1>6, <1>11, <1>13, <1>14, <1>15 DEF OrderInv

LEMMA ReceiveOrder ==
  ASSUME TypeOK, PartsInv, OrderInv, driver # "vxbee", Receive
  PROVE  OrderInv'
  <1>1. CASE \E s \in Senders : \E i \in DOMAIN air[s] :
               Arrive(s, i, air[s][i]) \/ Arrive(s, i, Corrupt)
    BY <1>1, ArriveOrder
  <1>2. CASE TakeFragment BY <1>2, TakeFragmentOrder
  <1>3. ASSUME Line # <<>>, Line' = Tail(Line) PROVE Sorted(Line')
    BY <1>3, PartsType, SortedTail DEF OrderInv
  <1>4. CASE MakeRoom
    <2>1. /\ Line # <<>> /\ Line' = Tail(Line)
          /\ UNCHANGED <<driver, senderVars, receiverVars, air>>
          /\ InLine' \subseteq InLine /\ InAir' \subseteq InAir
      BY <1>4, MakeRoomMoves
    <2>2. Sorted(Line') BY <1>3, <2>1
    <2> QED
      BY <2>1, <2>2, FewerOrder DEF OrderInv, senderVars, receiverVars, Active
  <1>5. CASE TakeCorrupt
    <2>1. /\ Line # <<>> /\ Line' = Tail(Line)
          /\ UNCHANGED <<driver, senderVars, air, returned>>
          /\ InLine' \subseteq InLine /\ InAir' \subseteq InAir
          /\ \A x \in Indices : receivedData'[x] = <<>>
      BY <1>5, TakeCorruptMoves, ForgetMoves
    <2>2. Sorted(Line') BY <1>3, <2>1
    <2> QED BY <2>1, <2>2, FewerOrder DEF OrderInv, senderVars, Active
  <1>6. CASE GetPacketTimeout
    <2>1. /\ Line' = Line
          /\ UNCHANGED <<driver, senderVars, air, returned>>
          /\ InLine' \subseteq InLine /\ InAir' \subseteq InAir
          /\ \A x \in Indices : receivedData'[x] = <<>>
      BY <1>6, TimeoutMoves, ForgetMoves
    <2> QED BY <2>1, FewerOrder DEF OrderInv, senderVars, Active
  <1> QED BY <1>1, <1>2, <1>4, <1>5, <1>6 DEF Receive

(* A new message comes after all that was sent. *)
LEMMA StartOrder ==
  ASSUME TypeOK, PartsInv, OrderInv, NEW s \in Senders,
         NEW total \in Totals, NEW to \in Tos, StartMessage(s, total, to)
  PROVE  OrderInv'
  <1> PICK frag : frag = sending'[s].frag OBVIOUS
  <1>1. frag.src = s /\ frag.msg = started[s] + 1 /\ started[s] \in Nat
        /\ Active' = Active \cup {s}
        /\ \A t \in Senders \ {s} : sending'[t] = sending[t]
    <2>1. frag = [src |-> s, to |-> to, no |-> NextNo(s), seq |-> 1,
                  total |-> total, msg |-> started[s] + 1]
      BY StartMoves
    <2> QED BY <2>1, StartMoves DEF TypeOK
  <1>2. UNCHANGED <<driver, air, pending, RecvPacketCh, receiverVars>>
    BY DEF StartMessage
  <1>3. /\ Line' = Line /\ InLine' = InLine /\ Held' = Held /\ Returned' = Returned
        /\ InAir' = InAir /\ Out' = Out
    BY <1>2, SenderMoves DEF InAir, Out
  <1>4. \A f \in Out : Ahead(f, frag)
    <2> SUFFICES ASSUME NEW f \in Out, f.src = s PROVE f.msg < frag.msg
      BY <1>1 DEF Ahead
    <2>1. f \in Fragment /\ f \in Parts BY PartsType DEF Out, Parts
    <2>2. f.msg \in Nat BY <2>1, FragmentFields
    <2>3. f.msg <= started[s] BY <2>1 DEF PartsInv
    <2> QED BY <1>1, <2>2, <2>3
  <1>5. \A t \in Active' : \A f \in Out' :
          Ahead(f, sending'[t].frag) \/ (sending'[t].at = "status" /\ f = sending'[t].frag)
    <2> SUFFICES ASSUME NEW t \in Active', NEW f \in Out
                 PROVE  \/ Ahead(f, sending'[t].frag)
                        \/ (sending'[t].at = "status" /\ f = sending'[t].frag)
      BY <1>3
    <2>1. CASE t = s BY <1>4, <2>1
    <2>2. CASE t # s
      <3>1. t \in Active /\ sending'[t] = sending[t] BY <1>1, <2>2 DEF Active
      <3> QED BY <3>1 DEF OrderInv
    <2> QED BY <2>1, <2>2
  <1> QED BY <1>2, <1>3, <1>5 DEF OrderInv, receiverVars, UsedOnce

(* The frame that is written is the last of its sender in the air. *)
LEMMA WriteOrder ==
  ASSUME TypeOK, PartsInv, OrderInv, NEW s \in Senders, WriteFrame(s)
  PROVE  OrderInv'
  <1> PICK frag : frag = sending[s].frag OBVIOUS
  <1>1. /\ s \in Active /\ frag \in Fragment /\ sending[s].at = "write"
        /\ sending'[s].at = "status" /\ sending'[s].frag = frag
        /\ \A t \in Senders \ {s} : sending'[t] = sending[t]
        /\ Active' = Active
        /\ \A t \in Senders \ {s} : air'[t] = air[t]
    BY WriteMoves
  <1>2. \/ /\ air'[s] = Append(air[s], frag)
           /\ ToSet(air'[s]) = ToSet(air[s]) \cup {frag}
           /\ InAir' = InAir \cup {frag}
        \/ UNCHANGED air /\ InAir' = InAir
    BY WriteMoves
  <1>3. UNCHANGED <<driver, pending, RecvPacketCh, receiverVars>>
    BY DEF WriteFrame
  <1>4. /\ Line' = Line /\ InLine' = InLine /\ Held' = Held /\ Returned' = Returned
    BY <1>3, SenderMoves
  <1>5. InAir' \subseteq InAir \cup {frag} BY <1>2
  <1>6. \A f \in Out : Ahead(f, frag) BY <1>1 DEF OrderInv
  <1>7. \A t \in Senders : Sorted(air'[t])
    <2>1. air[s] \in Seq(Fragment) /\ ToSet(air[s]) \subseteq Out
      BY DEF TypeOK, Out, InAir
    <2>2. Sorted(Append(air[s], frag))
      BY <1>1, <1>6, <2>1, SortedAppend DEF OrderInv
    <2> QED BY <1>1, <1>2, <2>2 DEF OrderInv
  <1>8. /\ \A f \in InLine', g \in InAir' : Ahead(f, g)
        /\ \A f \in Held' \cup Returned', g \in InLine' \cup InAir' : Ahead(f, g)
    <2>1. InLine \cup Held \cup Returned \subseteq Out BY DEF Out
    <2> QED BY <1>4, <1>5, <1>6, <2>1 DEF OrderInv
  <1>9. \A t \in Active' : \A f \in Out' :
          Ahead(f, sending'[t].frag) \/ (sending'[t].at = "status" /\ f = sending'[t].frag)
    <2> SUFFICES ASSUME NEW t \in Active, NEW f \in Out \cup {frag}
                 PROVE  \/ Ahead(f, sending'[t].frag)
                        \/ (sending'[t].at = "status" /\ f = sending'[t].frag)
      BY <1>1, <1>4, <1>5 DEF Out
    <2>1. CASE t = s BY <1>1, <1>6, <2>1
    <2>2. CASE t # s /\ f = frag
      <3>1. frag.src = s /\ sending[t].frag.src = t BY <1>1 DEF PartsInv
      <3>2. sending'[t] = sending[t] BY <1>1, <2>2 DEF Active
      <3> QED BY <2>2, <3>1, <3>2 DEF Ahead
    <2>3. CASE t # s /\ f \in Out
      <3>2. sending'[t] = sending[t] BY <1>1, <2>3 DEF Active
      <3> QED BY <2>3, <3>2 DEF OrderInv
    <2> QED BY <2>1, <2>2, <2>3
  <1> QED BY <1>3, <1>4, <1>7, <1>8, <1>9 DEF OrderInv, receiverVars, UsedOnce

(* The next fragment comes after the one that was written. *)
LEMMA StatusOkOrder ==
  ASSUME TypeOK, PartsInv, OrderInv, NEW s \in Senders, StatusOk(s)
  PROVE  OrderInv'
  <1> PICK frag : frag = sending[s].frag OBVIOUS
  <1> PICK next : next = sending'[s].frag OBVIOUS
  <1>1. UNCHANGED <<driver, air, pending, RecvPacketCh, receiverVars>>
    BY DEF StatusOk
  <1>2. /\ Line' = Line /\ InLine' = InLine /\ Held' = Held /\ Returned' = Returned
        /\ InAir' = InAir /\ Out' = Out
    BY <1>1, SenderMoves DEF InAir, Out
  <1>3. /\ s \in Active /\ frag \in Fragment
        /\ \A t \in Senders \ {s} : sending'[t] = sending[t]
    BY StatusOkMoves
  <1>4. \/ /\ next = [frag EXCEPT !.seq = @ + 1] /\ Active' = Active
        \/ Active' = Active \ {s}
    BY StatusOkMoves
  <1>5. ASSUME NEW t \in Active', NEW f \in Out
        PROVE  \/ Ahead(f, sending'[t].frag)
               \/ (sending'[t].at = "status" /\ f = sending'[t].frag)
    <2>1. CASE t = s
      <3>1. next = [frag EXCEPT !.seq = @ + 1] BY <1>4, <2>1
      <3>2. next.src = frag.src /\ next.msg = frag.msg /\ next.seq = frag.seq + 1
        BY <1>3, <3>1 DEF Fragment
      <3>3. f \in Fragment BY PartsType DEF Out
      <3>4. /\ f.seq \in Nat /\ frag.seq \in Nat /\ f.msg \in Nat /\ frag.msg \in Nat
        BY <1>3, <3>3, FragmentFields
      <3>5. Ahead(f, frag) \/ f = frag BY <1>3 DEF OrderInv
      <3>6. Ahead(f, next) BY <3>2, <3>4, <3>5 DEF Ahead
      <3> QED BY <2>1, <3>6
    <2>2. CASE t # s
      <3>1. t \in Active /\ sending'[t] = sending[t]
        BY <1>3, <1>4, <2>2 DEF Active
      <3> QED BY <3>1 DEF OrderInv
    <2> QED BY <2>1, <2>2
  <1> QED BY <1>1, <1>2, <1>5 DEF OrderInv, receiverVars, UsedOnce

LEMMA NextOrder ==
  ASSUME TypeOK, PartsInv, driver # "vxbee" => OrderInv, [Next]_vars,
         driver' # "vxbee"
  PROVE  OrderInv'
  <1>1. driver' = driver
    BY DEF Next, vars, StartMessage, RefuseMessage, WriteFrame, StatusOk,
       StatusBad,
           Restart, Arrive, MakeRoom, TakeFragment, TakeCorrupt, GetPacketTimeout
  <1>2. OrderInv /\ driver # "vxbee" BY <1>1
  <1>3. ASSUME UNCHANGED <<driver, air, pending, RecvPacketCh, receiverVars>>,
               \A s \in Active' : s \in Active /\ sending'[s] = sending[s]
        PROVE  OrderInv'
    <2>1. Line' = Line /\ InLine' = InLine /\ InAir' = InAir
      BY <1>3, SenderMoves DEF InAir
    <2> QED BY <1>2, <1>3, <2>1, FewerOrder DEF OrderInv, receiverVars
  <1>4. CASE UNCHANGED vars BY <1>3, <1>4 DEF vars, senderVars, Active
  <1>5. CASE Receive BY <1>2, <1>5, ReceiveOrder
  <1>6. CASE \E s \in Senders, total \in Totals, to \in Tos : StartMessage(s, total, to)
    BY <1>2, <1>6, StartOrder
  <1>7. CASE \E s \in Senders : WriteFrame(s) \/ StatusOk(s)
    BY <1>2, <1>7, WriteOrder, StatusOkOrder
  <1>8. CASE \E s \in Senders : RefuseMessage(s)
    BY <1>3, <1>8 DEF RefuseMessage, Active
  <1>9. CASE \E s \in Senders : StatusBad(s)
    <2> PICK s \in Senders : StatusBad(s) BY <1>9
    <2>1. UNCHANGED <<driver, air, pending, RecvPacketCh, receiverVars>>
      BY DEF StatusBad
    <2>2. \A t \in Active' : t \in Active /\ sending'[t] = sending[t]
      BY <1>2, StatusBadMoves DEF Active
    <2> QED BY <1>3, <2>1, <2>2
  <1>10. CASE \E s \in Senders : Restart(s)
    <2> PICK s \in Senders : Restart(s) BY <1>10
    <2>1. UNCHANGED <<driver, air, pending, RecvPacketCh, receiverVars>>
      BY DEF Restart
    <2>2. \A t \in Active' : t \in Active /\ sending'[t] = sending[t]
      BY RestartMoves DEF Active
    <2> QED BY <1>3, <2>1, <2>2
  <1> QED BY <1>4, <1>5, <1>6, <1>7, <1>8, <1>9, <1>10 DEF Next, Receive

-----------------------------------------------------------------------------
(* Increasing sequences of numbers *)

(* An increasing function does not fit into a shorter interval. *)
LEMMA Increasing ==
  ASSUME NEW a \in Int, NEW b \in Int, NEW c \in Int, NEW d \in Int,
         NEW t \in [a .. b -> c .. d], a <= b,
         \A i, j \in a .. b : i < j => t[i] < t[j]
  PROVE  b - a <= d - c
  <1>1. \A i \in a .. b : t[i] \in c .. d OBVIOUS
  <1>2. \A i, j \in a .. b : t[i] = t[j] => i = j
    <2> SUFFICES ASSUME NEW i \in a .. b, NEW j \in a .. b, t[i] = t[j], i # j
                 PROVE  FALSE
      OBVIOUS
    <2>1. CASE i < j BY <1>1, <2>1
    <2>2. CASE j < i BY <1>1, <2>2
    <2> QED BY <2>1, <2>2
  <1>3. t \in Injection(a .. b, c .. d) BY <1>2 DEF Injection, IsInjective
  <1>4. Cardinality(a .. b) <= Cardinality(c .. d)
    BY <1>3, FS_Interval, FS_Injection
  <1>5. Cardinality(a .. b) = b - a + 1 BY FS_Interval
  <1>6. a \in a .. b /\ t[a] \in c .. d OBVIOUS
  <1>7. Cardinality(c .. d) = d - c + 1 BY <1>6, FS_Interval
  <1> QED BY <1>4, <1>5, <1>7

(* An increasing function of an interval into itself is the identity. *)
LEMMA IncreasingToItself ==
  ASSUME NEW n \in Nat, NEW t \in [1 .. n -> 1 .. n],
         \A i, j \in 1 .. n : i < j => t[i] < t[j],
         NEW k \in 1 .. n
  PROVE  t[k] = k
  <1>1. \A i \in 1 .. n : t[i] \in 1 .. n OBVIOUS
  <1>2. k <= t[k]
    <2> DEFINE u == [i \in 1 .. k |-> t[i]]
    <2>1. \A i \in 1 .. k : i \in 1 .. n /\ (i < k \/ i = k) OBVIOUS
    <2>2. \A i \in 1 .. k : t[i] \in 1 .. t[k] BY <1>1, <2>1
    <2>3. u \in [1 .. k -> 1 .. t[k]] BY <2>2
    <2>4. \A i, j \in 1 .. k : i < j => u[i] < u[j] BY <2>1
    <2>5. 1 \in Int /\ k \in Int /\ t[k] \in Int /\ 1 <= k BY <1>1
    <2> HIDE DEF u
    <2>6. k - 1 <= t[k] - 1 BY <2>3, <2>4, <2>5, Increasing
    <2> QED BY <2>5, <2>6
  <1>3. t[k] <= k
    <2> DEFINE u == [i \in k .. n |-> t[i]]
    <2>1. \A i \in k .. n : i \in 1 .. n /\ (k < i \/ i = k) OBVIOUS
    <2>2. \A i \in k .. n : t[i] \in t[k] .. n
      <3> TAKE i \in k .. n
      <3>1. t[i] \in 1 .. n /\ t[k] \in 1 .. n BY <1>1, <2>1
      <3>2. t[k] <= t[i] BY <2>1, <3>1
      <3> QED BY <3>1, <3>2
    <2>3. u \in [k .. n -> t[k] .. n] BY <2>2
    <2>4. \A i, j \in k .. n : i < j => u[i] < u[j] BY <2>1
    <2>5. n \in Int /\ k \in Int /\ t[k] \in Int /\ k <= n BY <1>1
    <2> HIDE DEF u
    <2>6. n - k <= n - t[k] BY <2>3, <2>4, <2>5, Increasing
    <2> QED BY <2>5, <2>6
  <1> QED BY <1>1, <1>2, <1>3

(* A sequence with all values of an interval is at least as long. *)
LEMMA Covering ==
  ASSUME NEW n \in Nat, NEW m \in Nat, NEW t \in [1 .. n -> 1 .. m],
         \A q \in 1 .. m : \E i \in 1 .. n : t[i] = q
  PROVE  m <= n
  <1>1. t \in Surjection(1 .. n, 1 .. m) BY DEF Surjection
  <1>2. Cardinality(1 .. m) <= Cardinality(1 .. n)
    BY <1>1, FS_Interval, FS_Surjection
  <1>3. Cardinality(1 .. n) = n /\ Cardinality(1 .. m) = m
    BY FS_Interval
  <1> QED BY <1>2, <1>3

-----------------------------------------------------------------------------
(* What ReceivePacket returns *)

(* Equal numbers of one sender, less than a turn apart and without a       *)
(* restart in between, are those of one message.                           *)
LEMMA SameNumber ==
  ASSUME TypeOK, PartsInv, NEW f \in Parts, NEW g \in Parts,
         f.src = g.src, f.no = g.no, f.msg <= g.msg, g.msg < f.msg + NoMod,
         restarts[f.src] \cap f.msg .. g.msg - 1 = {}
  PROVE  f.msg = g.msg
  <1> PICK s : s = f.src OBVIOUS
  <1> PICK a : a = f.msg OBVIOUS
  <1> PICK b : b = g.msg OBVIOUS
  <1>1. a \in Nat \ {0} /\ b \in Nat \ {0} /\ s \in Senders
    BY PartsType, FragmentFields DEF Parts, Out
  <1>2. Numbered(s, f.no, a) /\ Numbered(s, f.no, b) BY DEF PartsInv
  <1> PICK r \in Nat : LastRestart(s, r, a) /\ f.no = (a - 1 - r) % NoMod
    BY <1>2 DEF Numbered
  <1> PICK q \in Nat : LastRestart(s, q, b) /\ f.no = (b - 1 - q) % NoMod
    BY <1>2 DEF Numbered
  <1>3. restarts[s] \subseteq Nat BY <1>1 DEF TypeOK
  <1>4. q < a
    <2> SUFFICES ASSUME ~(q < a) PROVE FALSE OBVIOUS
    <2>1. q < b /\ q \in restarts[s] \cup {0} BY DEF LastRestart
    <2>2. q \in restarts[s] /\ q \in a .. b - 1 BY <1>1, <2>1
    <2> QED BY <2>2
  <1>5. r = q
    <2>1. r < a /\ r \in restarts[s] \cup {0} /\ restarts[s] \cap r + 1 .. a - 1 = {}
      BY DEF LastRestart
    <2>2. q \in restarts[s] \cup {0} /\ restarts[s] \cap q + 1 .. b - 1 = {}
      BY DEF LastRestart
    <2>3. CASE r < q
      <3>1. q \in restarts[s] /\ q \in r + 1 .. a - 1 BY <1>1, <1>4, <2>2, <2>3
      <3> QED BY <2>1, <3>1
    <2>4. CASE q < r
      <3>1. r \in restarts[s] /\ r \in q + 1 .. b - 1 BY <1>1, <2>1, <2>4
      <3> QED BY <2>2, <3>1
    <2> QED BY <2>3, <2>4
  <1>6. ~(a < b)
    <2> SUFFICES ASSUME a < b PROVE FALSE OBVIOUS
    <2> PICK x : x = a - 1 - r OBVIOUS
    <2> PICK y : y = b - 1 - r OBVIOUS
    <2>1. x \in Int /\ y \in Int /\ x < y /\ y - x = b - a BY <1>1
    <2>2. x % NoMod = y % NoMod BY <1>5
    <2>3. y - x >= NoMod BY <2>1, <2>2, Constants, Congruent
    <2>4. b - a < NoMod BY <1>1, Constants
    <2> QED BY <1>1, <2>1, <2>3, <2>4, Constants
  <1> QED BY <1>1, <1>6

(* Fragments of one message differ in their Seq alone. *)
LEMMA SameFragment ==
  ASSUME NEW f \in Fragment, NEW g \in Fragment,
         Message(f) = Message(g), Agree(f, g)
  PROVE  f = [g EXCEPT !.seq = f.seq]
  <1>1. f.src = g.src /\ f.msg = g.msg /\ f.to = g.to /\ f.total = g.total /\ f.no = g.no
    BY DEF Message, Agree
  <1> QED BY <1>1 DEF Fragment

(* As many fragments of a message as it has, sorted, are the message. *)
LEMMA WholeMessage ==
  ASSUME TypeOK, PartsInv, NEW m \in Seq(Fragment), m # <<>>, ToSet(m) \subseteq Parts,
         Sorted(m), \A i \in DOMAIN m : Message(m[i]) = Message(m[1]),
         Len(m) = m[Len(m)].total
  PROVE  Intact(m)
  <1> PICK n : n = Len(m) OBVIOUS
  <1>1. DOMAIN m = 1 .. n /\ n \in Nat \ {0} BY LenProperties, EmptySeq
  <1>2. \A i \in 1 .. n : m[i] \in Parts /\ m[i] \in Fragment
    BY <1>1, ElementOfSeq DEF ToSet
  <1>3. 1 \in 1 .. n /\ n \in 1 .. n BY <1>1
  <1>4. \A i, j \in 1 .. n : Message(m[i]) = Message(m[j]) /\ Agree(m[i], m[j])
    BY <1>1, <1>2 DEF PartsInv
  <1>5. \A i \in 1 .. n : m[i].total = n BY <1>3, <1>4 DEF Agree
  <1>6. \A i \in 1 .. n : m[i].seq \in 1 .. n
    <2> TAKE i \in 1 .. n
    <2>1. m[i].seq \in Nat \ {0} BY <1>2, FragmentFields
    <2>2. m[i].seq <= m[i].total BY <1>2 DEF PartsInv
    <2> QED BY <1>1, <1>5, <2>1, <2>2
  <1>7. ASSUME NEW i \in 1 .. n, NEW j \in 1 .. n, i < j
        PROVE  m[i].seq < m[j].seq
    <2>1. m[i] # Corrupt /\ m[j] # Corrupt BY <1>2, Constants
    <2>2. Ahead(m[i], m[j]) BY <1>1, <1>7, <2>1 DEF Sorted
    <2>3. m[i].src = m[j].src /\ m[i].msg = m[j].msg /\ m[i].msg \in Nat
      <3>1. m[i].msg \in Nat BY <1>2, FragmentFields
      <3>2. Message(m[i]) = Message(m[j]) BY <1>4
      <3> QED BY <3>1, <3>2 DEF Message
    <2> QED BY <2>2, <2>3 DEF Ahead
  <1> DEFINE t == [i \in 1 .. n |-> m[i].seq]
  <1>8. t \in [1 .. n -> 1 .. n] /\ \A i, j \in 1 .. n : i < j => t[i] < t[j]
    BY <1>6, <1>7
  <1> HIDE DEF t
  <1>9. \A i \in 1 .. n : t[i] = i BY <1>1, <1>8, IncreasingToItself
  <1>10. \A i \in 1 .. n : m[i].seq = i BY <1>9 DEF t
  <1>11. \A i \in 1 .. n : m[i] = [m[1] EXCEPT !.seq = i]
    <2> TAKE i \in 1 .. n
    <2>1. m[i] = [m[1] EXCEPT !.seq = m[i].seq]
      BY <1>2, <1>3, <1>4, SameFragment
    <2> QED BY <1>10, <2>1
  <1> QED BY <1>1, <1>3, <1>5, <1>11 DEF Intact

(* Fragments of one sender with one number are of one message, or Aliased. *)
LEMMA OneMessage ==
  ASSUME TypeOK, PartsInv, NEW m \in Seq(Fragment), m # <<>>, ToSet(m) \subseteq Parts,
         ~Aliased(m), \A i, j \in DOMAIN m : m[i].src = m[j].src /\ m[i].no = m[j].no
  PROVE  \A i \in DOMAIN m : Message(m[i]) = Message(m[1])
  <1>1. DOMAIN m = 1 .. Len(m) /\ Len(m) \in Nat \ {0}
    BY LenProperties, EmptySeq
  <1>2. \A i \in DOMAIN m : m[i] \in Parts /\ m[i] \in Fragment
    BY <1>1, ElementOfSeq DEF ToSet
  <1>3. \A i \in DOMAIN m : m[i].msg \in Nat BY <1>2, FragmentFields
  <1>4. ASSUME NEW i \in DOMAIN m, NEW j \in DOMAIN m, m[i].msg <= m[j].msg
        PROVE  m[i].msg = m[j].msg
    <2>1. m[i].src = m[j].src /\ m[i].no = m[j].no OBVIOUS
    <2>2. ~(m[j].msg >= m[i].msg + NoMod)
          /\ restarts[m[j].src] \cap m[i].msg .. m[j].msg - 1 = {}
      BY <2>1 DEF Aliased
    <2>3. m[j].msg < m[i].msg + NoMod BY <1>3, <2>2, Constants
    <2> QED BY <1>2, <1>4, <2>1, <2>2, <2>3, SameNumber
  <1>5. \A i \in DOMAIN m : m[i].msg = m[1].msg
    <2> TAKE i \in DOMAIN m
    <2>1. 1 \in DOMAIN m BY <1>1
    <2>2. m[i].msg <= m[1].msg \/ m[1].msg <= m[i].msg BY <1>3, <2>1
    <2> QED BY <1>4, <2>1, <2>2
  <1> QED BY <1>1, <1>5 DEF Message

(* So counting is enough, but for the exceptions. *)
LEMMA ReturnsRight ==
  ASSUME TypeOK, PartsInv, IndexInv, driver # "vxbee" => OrderInv
  PROVE  ReturnsMessages
  <1> SUFFICES ASSUME NEW k \in DOMAIN returned, ~Aliased(returned[k]),
                      driver = "xbee" \/ FromOneSender(returned[k]),
                      ~(driver = "vxbee" /\ OfOneMessage(returned[k]))
               PROVE  Intact(returned[k])
    BY DEF ReturnsMessages
  <1> PICK m : m = returned[k] OBVIOUS
  <1>1. m \in Seq(Fragment) /\ ToSet(m) \subseteq Parts
    BY ElementOfSeq, LenProperties DEF TypeOK, Parts, Out, Returned
  <1>2. m # <<>> /\ Len(m) = m[Len(m)].total
        /\ \A i \in DOMAIN m : Index(m[i]) = Index(m[1])
    BY DEF IndexInv
  <1>3. \A i, j \in DOMAIN m : m[i].src = m[j].src /\ m[i].no = m[j].no
    <2>1. \A i \in DOMAIN m : m[i].no = m[1].no BY <1>2 DEF Index
    <2>2. \A i \in DOMAIN m : m[i].src = m[1].src
      BY <1>2 DEF Index, FromOneSender
    <2> QED BY <2>1, <2>2
  <1>4. \A i \in DOMAIN m : Message(m[i]) = Message(m[1])
    BY <1>1, <1>2, <1>3, OneMessage
  <1>5. driver # "vxbee" BY <1>4 DEF OfOneMessage
  <1>6. Sorted(m) BY <1>5 DEF OrderInv
  <1> QED BY <1>1, <1>2, <1>4, <1>6, WholeMessage

-----------------------------------------------------------------------------
(* LossInv *)

LEMMA InitLoss == Init => LossInv
  <1> SUFFICES ASSUME Init PROVE LossInv OBVIOUS
  <1>1. Line = <<>> /\ InLine = {} BY DEF Init, Line, InLine, ToSet
  <1>2. InAir = {} /\ Held = {} /\ Active = {}
    BY DEF Init, InAir, Held, Active, ToSet
  <1> QED BY <1>1, <1>2 DEF Init, LossInv, Traced, Located

(* A message that is unharmed and incomplete after a step was so before.   *)
LEMMA HarmStays ==
  ASSUME NEW s \in Senders, NEW id, Unharmed(s, id)', ~Complete(s, id)',
         restarts[s] \subseteq restarts'[s], broken \subseteq broken',
         \A k \in DOMAIN returned : k \in DOMAIN returned' /\ returned'[k] = returned[k]
  PROVE  Unharmed(s, id) /\ ~Complete(s, id)
  BY DEF Unharmed, Complete, Intact, Message
(* A step that only moves the parts of a message along. *)
LEMMA TracedKept ==
  ASSUME NEW s \in Senders, NEW id, Traced(s, id),
         \A f : Message(f) = <<s, id>> => (f \in Located' <=> f \in Located),
         \A f \in Held' : Message(f) = <<s, id>> => f \in Held \/ f.seq # f.total,
         s \in Active' => s \in Active /\ sending'[s] = sending[s],
         <<s, id>> \in sent' => <<s, id>> \in sent
  PROVE  Traced(s, id)'
  <1>1. \A q : Has(s, id, q) => Has(s, id, q)' BY DEF Has, Message
  <1>2. \A f \in Located' : Message(f) = <<s, id>> => \A q \in 1 .. f.seq : Has(s, id, q)'
    BY <1>1 DEF Traced
  <1>3. s \in Active' /\ sending'[s].frag.msg = id =>
          \A q \in 1 .. sending'[s].frag.seq :
            Has(s, id, q)' \/ (q = sending'[s].frag.seq /\ sending'[s].at = "write")
    BY <1>1 DEF Traced
  <1>4. <<s, id>> \in sent' =>
          \E g \in Located' : Message(g) = <<s, id>> /\ g.seq = g.total
    BY DEF Traced
  <1>5. \A f \in Held' : Message(f) = <<s, id>> => f.seq # f.total
    BY DEF Traced
  <1> QED BY <1>2, <1>3, <1>4, <1>5 DEF Traced, Message

(* A step that moves no fragment keeps LossInv. *)
LEMMA SameLoss ==
  ASSUME LossInv, UNCHANGED <<broken, returned>>,
         \A s \in Senders : restarts[s] \subseteq restarts'[s],
         Located' = Located, Held' = Held, sent' = sent,
         \A s \in Active' : s \in Active /\ sending'[s] = sending[s]
  PROVE  LossInv'
  <1> SUFFICES ASSUME NEW s \in Senders, NEW id \in 1 .. NoMod,
                      Unharmed(s, id)', ~Complete(s, id)'
               PROVE  Traced(s, id)'
    BY DEF LossInv
  <1>1. Unharmed(s, id) /\ ~Complete(s, id) BY HarmStays
  <1>2. Traced(s, id) BY <1>1 DEF LossInv
  <1>3. \A f \in Held' : f \in Held BY DEF Held
  <1> QED BY <1>2, <1>3, TracedKept
(* A step of the receiver that may lose fragments and returns nothing. *)
LEMMA LosingSteps ==
  ASSUME LossInv, UNCHANGED <<senderVars, returned>>, broken \subseteq broken',
         Located' \subseteq Located, Held' \subseteq Held,
         \A f \in Located : f \in Located' \/ Message(f) \in broken'
  PROVE  LossInv'
  <1> SUFFICES ASSUME NEW s \in Senders, NEW id \in 1 .. NoMod,
                      Unharmed(s, id)', ~Complete(s, id)'
               PROVE  Traced(s, id)'
    BY DEF LossInv
  <1>1. Unharmed(s, id) /\ ~Complete(s, id) BY HarmStays DEF senderVars
  <1>2. Traced(s, id) BY <1>1 DEF LossInv
  <1>3. <<s, id>> \notin broken' BY DEF Unharmed
  <1>4. \A f : Message(f) = <<s, id>> => (f \in Located' <=> f \in Located)
    BY <1>3
  <1>5. s \in Active' => s \in Active /\ sending'[s] = sending[s]
    BY DEF senderVars, Active
  <1>6. sent' = sent BY DEF senderVars
  <1> QED BY <1>2, <1>4, <1>5, <1>6, TracedKept

(* A frame that arrives stays on the way, or is damaged and so breaks its  *)
(* message.                                                                *)
LEMMA ArriveLoss ==
  ASSUME TypeOK, LossInv, NEW s \in Senders, NEW i \in DOMAIN air[s],
         NEW frame \in {air[s][i], Corrupt}, Arrive(s, i, frame)
  PROVE  LossInv'
  <1> PICK h : h = air[s][i] OBVIOUS
  <1>1. /\ InLine' = InLine \cup ({frame} \ {Corrupt})
        /\ h \in InAir /\ InAir = InAir' \cup {h}
        /\ UNCHANGED <<senderVars, receiverVars>> /\ Held' = Held
    BY ArriveMoves
  <1>2. broken' = IF frame = Corrupt THEN broken \cup {Message(h)} ELSE broken
    BY DEF Arrive
  <1>3. frame = Corrupt \/ frame = h OBVIOUS
  <1>4. \A f \in Located : f \in Located' \/ Message(f) \in broken'
    BY <1>1, <1>2, <1>3 DEF Located
  <1>5. h \in Fragment /\ h # Corrupt BY <1>1, PartsType, Constants
  <1>6. Located' \subseteq Located BY <1>1, <1>3 DEF Located
  <1> QED BY <1>1, <1>2, <1>4, <1>6, LosingSteps DEF receiverVars

(* What ReadFrame and ReceivePacket throw away breaks its message. *)
LEMMA LosingLoss ==
  ASSUME TypeOK, LossInv, MakeRoom \/ TakeCorrupt \/ GetPacketTimeout
  PROVE  LossInv'
  <1>1. CASE MakeRoom
    <2> PICK h : h = Head(RecvPacketCh) OBVIOUS
    <2>1. /\ InLine = InLine' \cup ({h} \ {Corrupt})
          /\ UNCHANGED <<senderVars, receiverVars>>
          /\ InAir' = InAir /\ Held' = Held
      BY <1>1, MakeRoomMoves
    <2>2. broken' = IF h = Corrupt THEN broken ELSE broken \cup {Message(h)}
      BY <1>1 DEF MakeRoom
    <2>3. Located' \subseteq Located BY <2>1 DEF Located
    <2>4. \A f \in Located : f \in Located' \/ Message(f) \in broken'
      BY <2>1, <2>2 DEF Located
    <2> QED BY <2>1, <2>2, <2>3, <2>4, LosingSteps DEF receiverVars
  <1>2. CASE TakeCorrupt \/ GetPacketTimeout
    <2>1. /\ InLine = InLine' /\ InAir' = InAir /\ Held' = {}
          /\ UNCHANGED <<senderVars, returned>>
          /\ \A f \in Held : Message(f) \in broken'
          /\ broken \subseteq broken'
      BY <1>2, TakeCorruptMoves, TimeoutMoves, ForgetMoves
    <2>2. Located' \subseteq Located BY <2>1 DEF Located
    <2>3. \A f \in Located : f \in Located' \/ Message(f) \in broken'
      BY <2>1 DEF Located
    <2> QED BY <2>1, <2>2, <2>3, LosingSteps
  <1> QED BY <1>1, <1>2
(* When a part of an unharmed message is taken, receivedData has only      *)
(* parts of the same message under its index.                              *)
LEMMA SameIndexSameMessage ==
  ASSUME TypeOK, PartsInv, IndexInv, OrderInv, driver = "xbee",
         NEW s \in Senders, NEW id \in 1 .. NoMod, Unharmed(s, id),
         NEW frag \in InLine, Message(frag) = <<s, id>>,
         NEW f \in ToSet(receivedData[Index(frag)])
  PROVE  Message(f) = <<s, id>>
  <1>1. frag \in Fragment /\ frag \in Parts BY PartsType DEF Parts, Out
  <1>2. Index(frag) \in Indices BY <1>1, FragmentFields
  <1>3. f \in Held BY <1>2 DEF Held
  <1>4. f \in Fragment /\ f \in Parts BY <1>3, PartsType DEF Parts, Out
  <1>5. Index(f) = Index(frag) BY <1>2 DEF IndexInv
  <1>6. frag.src = s /\ frag.msg = id /\ f.src = s /\ f.no = frag.no
    BY <1>5 DEF Index, Message
  <1>7. Ahead(f, frag) BY <1>3 DEF OrderInv
  <1>8. f.msg \in Nat \ {0} /\ f.msg <= id
    BY <1>4, <1>6, <1>7, FragmentFields DEF Ahead
  <1>9. restarts[s] \cap f.msg .. id - 1 = {} BY <1>8 DEF Unharmed
  <1>10. id < f.msg + NoMod BY <1>8, Constants
  <1>11. f.msg = frag.msg BY <1>1, <1>4, <1>6, <1>8, <1>9, <1>10, SameNumber
  <1> QED BY <1>6, <1>11 DEF Message
(* The last part of an unharmed message finds all others in receivedData.  *)
LEMMA LastPart ==
  ASSUME TypeOK, PartsInv, IndexInv, OrderInv, driver = "xbee",
         NEW s \in Senders, NEW id \in 1 .. NoMod, Unharmed(s, id), Traced(s, id),
         NEW frag, Message(frag) = <<s, id>>, frag \in InLine,
         \A g \in InLine \ {frag} : Ahead(frag, g),
         frag.seq = frag.total
  PROVE  Len(receivedData[Index(frag)]) + 1 = frag.total
  <1> PICK x : x = Index(frag) OBVIOUS
  <1> PICK q : q = receivedData[x] OBVIOUS
  <1> PICK M : M = frag.total - 1 OBVIOUS
  <1>1. frag \in Fragment /\ frag \in Parts BY PartsType DEF Parts, Out
  <1>2. x \in Indices /\ M \in Nat /\ frag.total = M + 1 /\ frag.seq = M + 1
    <2>1. x \in Indices /\ frag.total \in 1 .. 255 BY <1>1, FragmentFields
    <2>2. \A N \in 1 .. 255 : N - 1 \in Nat /\ N = (N - 1) + 1 OBVIOUS
    <2> QED BY <2>1, <2>2
  <1>3. q \in Seq(Fragment) /\ ToSet(q) \subseteq Held
    BY <1>2 DEF TypeOK, Held
  <1> PICK n : n = Len(q) OBVIOUS
  <1>4. n \in Nat /\ DOMAIN q = 1 .. n BY <1>3, LenProperties
  <1>5. \A i \in 1 .. n : q[i] \in ToSet(q) /\ q[i] \in Fragment
    BY <1>3, <1>4, ElementOfSeq DEF ToSet
  <1>6. \A i \in 1 .. n : Message(q[i]) = <<s, id>>
    BY <1>5, SameIndexSameMessage
  <1>7. \A i \in 1 .. n : q[i].seq \in 1 .. M
    <2> TAKE i \in 1 .. n
    <2>1. Ahead(q[i], frag) BY <1>3, <1>5 DEF OrderInv
    <2>2. q[i].src = frag.src /\ q[i].msg = frag.msg BY <1>6 DEF Message
    <2>3. q[i].seq \in Nat \ {0} /\ frag.msg \in Nat
      BY <1>1, <1>5, FragmentFields
    <2>4. q[i].seq < M + 1 BY <1>2, <2>1, <2>2, <2>3 DEF Ahead
    <2>5. \A a \in Nat \ {0} : a < M + 1 => a \in 1 .. M BY <1>2
    <2> QED BY <2>3, <2>4, <2>5
  <1>8. ASSUME NEW i \in 1 .. n, NEW j \in 1 .. n, i < j
        PROVE  q[i].seq < q[j].seq
    <2>1. q[i] # Corrupt /\ q[j] # Corrupt BY <1>5, Constants
    <2>2. Sorted(q) BY <1>2 DEF OrderInv
    <2>3. Ahead(q[i], q[j]) BY <1>4, <1>8, <2>1, <2>2 DEF Sorted
    <2>4. Message(q[i]) = Message(q[j]) /\ q[i].msg \in Nat
      BY <1>5, <1>6, FragmentFields
    <2>5. q[i].src = q[j].src /\ q[i].msg = q[j].msg BY <2>4 DEF Message
    <2> QED BY <2>3, <2>4, <2>5 DEF Ahead
  <1>9. ASSUME NEW k \in 1 .. M PROVE \E i \in 1 .. n : q[i].seq = k
    <2>1. k \in 1 .. frag.seq
      <3>1. k \in 1 .. M + 1 BY <1>2
      <3> QED BY <1>2, <3>1
    <2>2. Has(s, id, k) BY <2>1 DEF Traced, Located
    <2> PICK g \in Located : Message(g) = <<s, id>> /\ g.seq = k BY <2>2 DEF Has
    <2>3. g \in Fragment /\ g \in Parts BY PartsType DEF Located, Parts, Out
    <2>4. g.src = frag.src /\ g.msg = frag.msg BY DEF Message
    <2>5. ~Ahead(frag, g) /\ g # frag
      <3>1. frag.msg \in Nat BY <1>1, FragmentFields
      <3>2. k < M + 1 /\ ~(M + 1 < k) /\ k # M + 1 BY <1>2
      <3> QED BY <1>2, <2>4, <3>1, <3>2 DEF Ahead
    <2>6. g \notin InAir /\ g \notin InLine BY <2>5 DEF OrderInv
    <2>7. g \in Held BY <2>6 DEF Located
    <2> PICK y \in Indices : g \in ToSet(receivedData[y]) BY <2>7 DEF Held
    <2>8. Index(g) = y BY DEF IndexInv
    <2>9. Agree(g, frag) BY <1>1, <2>3 DEF PartsInv
    <2>10. y = x BY <2>4, <2>8, <2>9 DEF Agree, Index, Message
    <2> QED BY <1>4, <2>10 DEF ToSet
  <1> DEFINE t == [i \in 1 .. n |-> q[i].seq]
  <1>10. t \in [1 .. n -> 1 .. M] BY <1>7
  <1>11. \A i, j \in 1 .. n : i < j => t[i] < t[j] BY <1>8
  <1>12. \A k \in 1 .. M : \E i \in 1 .. n : t[i] = k BY <1>9
  <1> HIDE DEF t
  <1>13. M <= n BY <1>2, <1>4, <1>10, <1>12, Covering
  <1>14. n <= M
    <2>1. CASE n = 0 BY <1>2, <2>1
    <2>2. CASE n # 0
      <3>1. 1 <= n /\ n \in Int /\ M \in Int /\ 1 \in Int BY <1>2, <1>4, <2>2
      <3>2. n - 1 <= M - 1 BY <1>10, <1>11, <3>1, Increasing
      <3> QED BY <3>1, <3>2
    <2> QED BY <2>1, <2>2
  <1>15. n = M BY <1>2, <1>4, <1>13, <1>14
  <1> QED BY <1>2, <1>15

(* A fragment that is taken is held, or completes its message. *)
LEMMA TakeFragmentLoss ==
  ASSUME TypeOK, PartsInv, IndexInv, OrderInv, LossInv, driver = "xbee", TakeFragment
  PROVE  LossInv'
  <1> DEFINE f0 == Head(RecvPacketCh)
             all0 == Append(receivedData[Index(f0)], f0)
             x0 == Index(f0)
  <1> PICK frag : frag = f0 OBVIOUS
  <1> PICK x : x = x0 OBVIOUS
  <1> PICK all : all = all0 OBVIOUS
  <1>1. /\ frag \in Fragment /\ x = Index(frag) /\ x \in Indices
        /\ Line' = Tail(Line) /\ Line # <<>> /\ Head(Line) = frag
        /\ InLine = InLine' \cup {frag} /\ frag \in InLine
        /\ UNCHANGED <<senderVars, air>> /\ InAir' = InAir
        /\ all \in Seq(Fragment) /\ all # <<>> /\ all[Len(all)] = frag
        /\ ToSet(all) = ToSet(receivedData[x]) \cup {frag}
    BY TakeFragmentMoves
  <1>2. \/ /\ Len(all) = frag.total
           /\ returned' = Append(returned, all)
           /\ Forget({Message(frag)})
        \/ /\ Len(all) # frag.total
           /\ UNCHANGED <<returned, broken>>
           /\ Held' = Held \cup {frag}
    BY TakeFragmentMoves
  <1>3. receivedData[x] \in Seq(Fragment) /\ all = Append(receivedData[x], frag)
    BY <1>1 DEF TypeOK
  <1>4. Len(all) = Len(receivedData[x]) + 1 /\ Len(receivedData[x]) \in Nat
    BY <1>1, <1>3, AppendProperties, LenProperties
  <1> HIDE DEF f0, all0, x0
  <1>5. ToSet(receivedData[x]) \subseteq Held BY <1>1 DEF Held
  <1>6. \A g \in InLine \ {frag} : Ahead(frag, g)
    <2> DEFINE Frame == Fragment \cup {Corrupt}
    <2> PICK q : q = Line OBVIOUS
    <2>1. q \in Seq(Frame) /\ q # <<>> /\ Sorted(q)
      BY <1>1, PartsType DEF OrderInv
    <2> HIDE DEF Frame
    <2>2. Sorted(Tail(q)) /\ (Head(q) # Corrupt =>
            \A g \in ToSet(Tail(q)) \ {Corrupt} : Ahead(Head(q), g))
      BY <2>1, SortedTail
    <2>3. \A g \in InLine' : Ahead(frag, g) BY <1>1, <2>2, Constants DEF InLine
    <2> QED BY <1>1, <2>3
  <1> SUFFICES ASSUME NEW s \in Senders, NEW id \in 1 .. NoMod,
                      Unharmed(s, id)', ~Complete(s, id)'
               PROVE  Traced(s, id)'
    BY DEF LossInv
  <1>7. broken \subseteq broken' BY <1>2, ForgetMoves
  <1>8. returned \in Seq(Seq(Fragment)) BY DEF TypeOK
  <1>9. \A k \in DOMAIN returned : k \in DOMAIN returned' /\ returned'[k] = returned[k]
    <2>1. CASE UNCHANGED returned BY <2>1
    <2>2. CASE returned' = Append(returned, all)
      <3> PICK n : n = Len(returned) OBVIOUS
      <3>1. /\ returned' \in Seq(Seq(Fragment)) /\ Len(returned') = n + 1 /\ n \in Nat
            /\ \A k \in 1 .. n : returned'[k] = returned[k]
        BY <1>1, <1>8, <2>2, AppendProperties, LenProperties
      <3>2. DOMAIN returned = 1 .. n /\ DOMAIN returned' = 1 .. n + 1
        BY <1>8, <3>1, LenProperties
      <3> QED BY <3>1, <3>2
    <2> QED BY <1>2, <2>1, <2>2
  <1>10. Unharmed(s, id) /\ ~Complete(s, id)
    BY <1>1, <1>7, <1>9, HarmStays DEF senderVars
  <1>11. Traced(s, id) BY <1>10 DEF LossInv
  <1>12. s \in Active' => s \in Active /\ sending'[s] = sending[s]
    BY <1>1 DEF senderVars, Active
  <1>13. sent' = sent BY <1>1 DEF senderVars
  <1>14. CASE Len(all) = frag.total /\ returned' = Append(returned, all)
              /\ Forget({Message(frag)})
    <2>1. Message(frag) # <<s, id>>
      <3> SUFFICES ASSUME Message(frag) = <<s, id>> PROVE FALSE OBVIOUS
      <3>1. \A f \in ToSet(all) : Message(f) = <<s, id>>
        BY <1>1, <1>10, SameIndexSameMessage
      <3>2. Sorted(all)
        <4>1. \A f \in ToSet(receivedData[x]) : Ahead(f, frag)
          BY <1>1, <1>5 DEF OrderInv
        <4> QED BY <1>1, <1>3, <4>1, SortedAppend DEF OrderInv
      <3>3. ToSet(all) \subseteq Parts BY <1>1, <1>5 DEF Parts, Out
      <3>4. DOMAIN all = 1 .. Len(all) /\ Len(all) \in Nat \ {0}
        BY <1>1, LenProperties, EmptySeq
      <3>5. \A i \in DOMAIN all : Message(all[i]) = <<s, id>>
        BY <3>1 DEF ToSet
      <3>6. \A i \in DOMAIN all : Message(all[i]) = Message(all[1])
        BY <3>4, <3>5
      <3>7. Intact(all) BY <1>1, <1>14, <3>2, <3>3, <3>6, WholeMessage
      <3> PICK k : k = Len(returned) + 1 OBVIOUS
      <3>8. k \in DOMAIN returned' /\ returned'[k] = all
        <4>1. /\ returned' \in Seq(Seq(Fragment)) /\ Len(returned') = k
              /\ returned'[k] = all /\ k \in Nat \ {0}
          BY <1>1, <1>8, <1>14, AppendProperties, LenProperties
        <4> QED BY <4>1, LenProperties
      <3>9. Message(all[1]) = <<s, id>> BY <3>4, <3>5
      <3>10. Complete(s, id)' BY <3>7, <3>8, <3>9 DEF Complete, Intact, Message
      <3> QED BY <3>10
    <2>2. <<s, id>> \notin broken' BY DEF Unharmed
    <2>3. Held' = {} /\ \A f \in Held : Message(f) # <<s, id>>
      BY <1>14, <2>1, <2>2, ForgetMoves
    <2>4. \A f : Message(f) = <<s, id>> => (f \in Located' <=> f \in Located)
      BY <1>1, <2>1, <2>3 DEF Located
    <2> QED BY <1>11, <1>12, <1>13, <2>3, <2>4, TracedKept
  <1>15. CASE /\ Len(all) # frag.total
              /\ UNCHANGED <<returned, broken>>
              /\ Held' = Held \cup {frag}
    <2>1. Message(frag) = <<s, id>> => frag.seq # frag.total
      BY <1>1, <1>4, <1>6, <1>10, <1>11, <1>15, LastPart
    <2>2. \A f \in Held' : Message(f) = <<s, id>> => f \in Held \/ f.seq # f.total
      BY <1>15, <2>1
    <2>3. Located' = Located BY <1>1, <1>15 DEF Located
    <2> QED BY <1>11, <1>12, <1>13, <2>2, <2>3, TracedKept
  <1> QED BY <1>2, <1>14, <1>15

(* Of a new message no fragment has been sent. *)
LEMMA StartLoss ==
  ASSUME TypeOK, LossInv, NEW s \in Senders, NEW total \in Totals, NEW to \in Tos,
         StartMessage(s, total, to)
  PROVE  LossInv'
  <1>1. /\ UNCHANGED <<restarts, sent, broken, air, pending, RecvPacketCh, receiverVars>>
    BY DEF StartMessage
  <1>2. Located' = Located /\ Held' = Held
    BY <1>1, SenderMoves DEF Located, InAir
  <1>3. /\ sending'[s].at = "write" /\ sending'[s].frag.seq = 1
        /\ \A t \in Senders \ {s} : sending'[t] = sending[t]
        /\ Active' = Active \cup {s}
    <2> PICK frag : frag = sending'[s].frag OBVIOUS
    <2>1. frag = [src |-> s, to |-> to, no |-> NextNo(s), seq |-> 1,
                  total |-> total, msg |-> started[s] + 1]
      BY StartMoves
    <2>2. frag.seq = 1 BY <2>1
    <2> QED BY <2>2, StartMoves
  <1> SUFFICES ASSUME NEW t \in Senders, NEW id \in 1 .. NoMod,
                      Unharmed(t, id)', ~Complete(t, id)'
               PROVE  Traced(t, id)'
    BY DEF LossInv
  <1>4. Unharmed(t, id) /\ ~Complete(t, id) BY <1>1, HarmStays DEF receiverVars
  <1>5. Traced(t, id) BY <1>4 DEF LossInv
  <1>6. CASE t # s
    <2>1. t \in Active' => t \in Active /\ sending'[t] = sending[t]
      BY <1>3, <1>6 DEF Active
    <2> QED BY <1>1, <1>2, <1>5, <2>1, TracedKept
  <1>7. CASE t = s
    <2>1. \A q : Has(s, id, q)' = Has(s, id, q) BY <1>2 DEF Has, Message
    <2>2. \A q \in 1 .. sending'[s].frag.seq : q = sending'[s].frag.seq BY <1>3
    <2> QED BY <1>1, <1>2, <1>3, <1>5, <1>7, <2>1, <2>2 DEF Traced, Message
  <1> QED BY <1>6, <1>7

(* A frame that is written is on its way, or breaks its message. *)
LEMMA WriteLoss ==
  ASSUME TypeOK, PartsInv, LossInv, NEW s \in Senders, WriteFrame(s)
  PROVE  LossInv'
  <1> PICK frag : frag = sending[s].frag OBVIOUS
  <1>1. UNCHANGED <<restarts, sent, pending, RecvPacketCh, receiverVars>>
    BY DEF WriteFrame
  <1>2. InLine' = InLine /\ Held' = Held BY <1>1, SenderMoves
  <1>3. /\ s \in Active /\ frag \in Fragment /\ sending[s].at = "write"
        /\ sending'[s].at = "status" /\ sending'[s].frag = frag
        /\ \A t \in Senders \ {s} : sending'[t] = sending[t]
        /\ Active' = Active
    BY WriteMoves
  <1>4. \/ InAir' = InAir \cup {frag} /\ UNCHANGED broken
        \/ InAir' = InAir /\ broken' = broken \cup {Message(frag)}
    BY WriteMoves
  <1>5. frag.src = s BY <1>3 DEF PartsInv
  <1> SUFFICES ASSUME NEW t \in Senders, NEW id \in 1 .. NoMod,
                      Unharmed(t, id)', ~Complete(t, id)'
               PROVE  Traced(t, id)'
    BY DEF LossInv
  <1>6. Unharmed(t, id) /\ ~Complete(t, id)
    BY <1>1, <1>4, HarmStays DEF receiverVars
  <1>7. Traced(t, id) BY <1>6 DEF LossInv
  <1>8. <<t, id>> \notin broken' BY DEF Unharmed
  <1>9. CASE Message(frag) # <<t, id>>
    <2>1. \A f : Message(f) = <<t, id>> => (f \in Located' <=> f \in Located)
      BY <1>2, <1>4, <1>9 DEF Located
    <2>2. CASE t # s
      <3>1. t \in Active' => t \in Active /\ sending'[t] = sending[t]
        BY <1>3, <2>2 DEF Active
      <3> QED BY <1>1, <1>2, <1>7, <2>1, <3>1, TracedKept
    <2>3. CASE t = s
      <3>1. sending'[s].frag.msg # id BY <1>3, <1>5, <1>9, <2>3 DEF Message
      <3>2. \A q : Has(s, id, q) => Has(s, id, q)'
        BY <2>1, <2>3 DEF Has, Message
      <3> QED BY <1>1, <1>2, <1>7, <2>1, <2>3, <3>1, <3>2 DEF Traced, Message
    <2> QED BY <2>2, <2>3
  <1>10. CASE Message(frag) = <<t, id>>
    <2>1. t = s /\ frag.msg = id BY <1>5, <1>10 DEF Message
    <2>2. Located' = Located \cup {frag} BY <1>2, <1>4, <1>8, <1>10 DEF Located
    <2>3. \A q : Has(s, id, q) => Has(s, id, q)' BY <2>2 DEF Has, Message
    <2>4. Has(s, id, frag.seq)' BY <1>10, <2>1, <2>2 DEF Has, Message
    <2>5. \A q \in 1 .. frag.seq : Has(s, id, q)'
      BY <1>3, <1>7, <2>1, <2>3, <2>4 DEF Traced
    <2>6. \A f \in Located' : Message(f) = <<s, id>> => \A q \in 1 .. f.seq : Has(s, id, q)'
      BY <1>7, <2>1, <2>2, <2>3, <2>5 DEF Traced
    <2>7. <<s, id>> \in sent' =>
            \E g \in Located' : Message(g) = <<s, id>> /\ g.seq = g.total
      BY <1>1, <1>7, <2>1, <2>2 DEF Traced
    <2>8. \A f \in Held' : Message(f) = <<s, id>> => f.seq # f.total
      BY <1>2, <1>7, <2>1 DEF Traced
    <2> QED BY <1>3, <2>1, <2>5, <2>6, <2>7, <2>8 DEF Traced, Message
  <1> QED BY <1>9, <1>10

(* When SendPacket returns true, the last fragment was on its way. *)
LEMMA StatusOkLoss ==
  ASSUME TypeOK, PartsInv, LossInv, NEW s \in Senders, StatusOk(s)
  PROVE  LossInv'
  <1> PICK frag : frag = sending[s].frag OBVIOUS
  <1> PICK next : next = sending'[s].frag OBVIOUS
  <1>1. UNCHANGED <<restarts, broken, air, pending, RecvPacketCh, receiverVars>>
    BY DEF StatusOk
  <1>2. Located' = Located /\ Held' = Held
    BY <1>1, SenderMoves DEF Located, InAir
  <1>3. /\ s \in Active /\ frag \in Fragment /\ sending[s].at = "status"
        /\ \A t \in Senders \ {s} : sending'[t] = sending[t]
    BY StatusOkMoves
  <1>4. \/ /\ sending'[s].at = "write" /\ next = [frag EXCEPT !.seq = @ + 1]
           /\ Active' = Active /\ UNCHANGED sent
        \/ /\ ~(frag.seq < frag.total) /\ Active' = Active \ {s}
           /\ sent' = sent \cup {Message(frag)}
    BY StatusOkMoves
  <1>5. frag.src = s /\ frag \in Parts
    BY <1>3 DEF PartsInv, Parts, BeingSent
  <1>6. frag.seq \in Nat BY <1>3, FragmentFields
  <1> SUFFICES ASSUME NEW t \in Senders, NEW id \in 1 .. NoMod,
                      Unharmed(t, id)', ~Complete(t, id)'
               PROVE  Traced(t, id)'
    BY DEF LossInv
  <1>7. Unharmed(t, id) /\ ~Complete(t, id) BY <1>1, HarmStays DEF receiverVars
  <1>8. Traced(t, id) BY <1>7 DEF LossInv
  <1>9. CASE t # s
    <2>1. t \in Active' => t \in Active /\ sending'[t] = sending[t]
      BY <1>3, <1>4, <1>9 DEF Active
    <2>2. <<t, id>> \in sent' => <<t, id>> \in sent
      BY <1>4, <1>5, <1>9 DEF Message
    <2> QED BY <1>2, <1>8, <2>1, <2>2, TracedKept
  <1>10. CASE t = s
    <2>1. \A q : Has(s, id, q)' = Has(s, id, q) BY <1>2 DEF Has, Message
    <2>2. frag.msg = id => \A q \in 1 .. frag.seq : Has(s, id, q)
      BY <1>3, <1>8, <1>10 DEF Traced
    <2>3. s \in Active' /\ next.msg = id =>
            \A q \in 1 .. next.seq :
              Has(s, id, q)' \/ (q = next.seq /\ sending'[s].at = "write")
      <3> SUFFICES ASSUME s \in Active', next.msg = id, NEW q \in 1 .. next.seq
                   PROVE  Has(s, id, q)' \/ (q = next.seq /\ sending'[s].at = "write")
        OBVIOUS
      <3>1. sending'[s].at = "write" /\ next = [frag EXCEPT !.seq = @ + 1]
        BY <1>4
      <3>2. next.seq = frag.seq + 1 /\ frag.msg = id BY <1>3, <3>1 DEF Fragment
      <3>3. q \in 1 .. frag.seq \/ q = next.seq BY <1>6, <3>2
      <3> QED BY <2>1, <2>2, <3>1, <3>2, <3>3
    <2>4. <<s, id>> \in sent' =>
            \E g \in Located' : Message(g) = <<s, id>> /\ g.seq = g.total
      <3>1. CASE <<s, id>> \in sent BY <1>2, <1>8, <1>10, <3>1 DEF Traced
      <3>2. CASE <<s, id>> \in sent' /\ <<s, id>> \notin sent
        <4>1. ~(frag.seq < frag.total) /\ Message(frag) = <<s, id>>
          BY <1>4, <3>2
        <4>2. frag.msg = id BY <4>1 DEF Message
        <4>3. frag.seq \in Nat \ {0} /\ frag.total \in 1 .. 255 /\ frag.seq <= frag.total
          BY <1>3, <1>5, FragmentFields DEF PartsInv
        <4>4. \A a \in Nat, b \in 1 .. 255 : a <= b /\ ~(a < b) => a = b OBVIOUS
        <4>5. frag.seq = frag.total BY <4>1, <4>3, <4>4
        <4>6. frag.seq \in 1 .. frag.seq
          <5>1. \A a \in Nat \ {0} : a \in 1 .. a OBVIOUS
          <5> QED BY <4>3, <5>1
        <4>7. Has(s, id, frag.seq) BY <2>2, <4>2, <4>6
        <4> PICK g \in Located : Message(g) = <<s, id>> /\ g.seq = frag.seq
          BY <4>7 DEF Has
        <4>8. g \in Parts BY DEF Located, Parts, Out
        <4>9. g.total = frag.total BY <1>5, <4>1, <4>8 DEF PartsInv, Agree
        <4> QED BY <1>2, <4>5, <4>9
      <3> QED BY <3>1, <3>2
    <2>5. /\ \A f \in Located' : Message(f) = <<s, id>> => \A q \in 1 .. f.seq : Has(s, id, q)'
          /\ \A f \in Held' : Message(f) = <<s, id>> => f.seq # f.total
      BY <1>2, <1>8, <1>10, <2>1 DEF Traced
    <2> QED BY <1>10, <2>3, <2>4, <2>5 DEF Traced, Message
  <1> QED BY <1>9, <1>10

LEMMA NextLoss ==
  ASSUME TypeOK, PartsInv, IndexInv, driver # "vxbee" => OrderInv,
         driver = "xbee" => LossInv, [Next]_vars, driver' = "xbee"
  PROVE  LossInv'
  <1>1. driver' = driver
    BY DEF Next, vars, StartMessage, RefuseMessage, WriteFrame, StatusOk,
       StatusBad,
           Restart, Arrive, MakeRoom, TakeFragment, TakeCorrupt, GetPacketTimeout
  <1>2. OrderInv /\ LossInv /\ driver = "xbee" BY <1>1
  <1>3. ASSUME UNCHANGED <<broken, air, pending, RecvPacketCh, receiverVars, sent>>,
               \A s \in Senders : restarts[s] \subseteq restarts'[s],
               \A s \in Active' : s \in Active /\ sending'[s] = sending[s]
        PROVE  LossInv'
    <2>1. Located' = Located /\ Held' = Held
      BY <1>3, SenderMoves DEF Located, InAir
    <2>2. UNCHANGED <<broken, returned>> BY <1>3 DEF receiverVars
    <2> QED BY <1>2, <1>3, <2>1, <2>2, SameLoss
  <1>4. CASE UNCHANGED vars BY <1>3, <1>4 DEF vars, senderVars, Active
  <1>5. CASE Receive
    BY <1>2, <1>5, ArriveLoss, LosingLoss, TakeFragmentLoss DEF Receive
  <1>6. CASE \E s \in Senders, total \in Totals, to \in Tos : StartMessage(s, total, to)
    BY <1>2, <1>6, StartLoss
  <1>7. CASE \E s \in Senders : WriteFrame(s) \/ StatusOk(s)
    BY <1>2, <1>7, WriteLoss, StatusOkLoss
  <1>8. CASE \E s \in Senders : RefuseMessage(s)
    BY <1>3, <1>8 DEF RefuseMessage, Active
  <1>9. CASE \E s \in Senders : StatusBad(s)
    <2> PICK s \in Senders : StatusBad(s) BY <1>9
    <2>1. UNCHANGED <<broken, air, pending, RecvPacketCh, receiverVars, sent, restarts>>
      BY DEF StatusBad
    <2>2. \A t \in Active' : t \in Active /\ sending'[t] = sending[t]
      BY <1>2, StatusBadMoves DEF Active
    <2> QED BY <1>3, <2>1, <2>2
  <1>10. CASE \E s \in Senders : Restart(s)
    <2> PICK s \in Senders : Restart(s) BY <1>10
    <2>1. UNCHANGED <<broken, air, pending, RecvPacketCh, receiverVars, sent>>
      BY DEF Restart
    <2>2. \A t \in Active' : t \in Active /\ sending'[t] = sending[t]
      BY RestartMoves DEF Active
    <2>3. \A t \in Senders : restarts[t] \subseteq restarts'[t] BY RestartMoves
    <2> QED BY <1>3, <2>1, <2>2, <2>3
  <1> QED BY <1>4, <1>5, <1>6, <1>7, <1>8, <1>9, <1>10 DEF Next, Receive

-----------------------------------------------------------------------------
(* The theorems *)

(* All states that can be reached satisfy ReassemblyInv. *)
LEMMA ReassemblyInvariant == Spec => []ReassemblyInv
  <1>1. Init => ReassemblyInv
    BY InitType, InitParts, InitIndex, InitOrder, InitLoss DEF ReassemblyInv
  <1>2. ReassemblyInv /\ [Next]_vars => ReassemblyInv'
    <2> SUFFICES ASSUME ReassemblyInv, [Next]_vars PROVE ReassemblyInv' OBVIOUS
    <2>1. TypeOK' /\ PartsInv' /\ IndexInv'
      BY NextType, NextParts, NextIndex DEF ReassemblyInv
    <2>2. driver' # "vxbee" => OrderInv' BY NextOrder DEF ReassemblyInv
    <2>3. driver' = "xbee" => LossInv' BY NextLoss DEF ReassemblyInv
    <2> QED BY <2>1, <2>2, <2>3 DEF ReassemblyInv
  <1> QED BY <1>1, <1>2, PTL DEF Spec

(* What ReceivePacket returns is a message that was sent, whole and in     *)
(* order, although it only counts the fragments of an index and never      *)
(* looks at their Seq (xbee.go:189-195, wifi.go:161-167), but for the      *)
(* exceptions that ReturnsMessages names: numbers that came round or began *)
(* anew (xbee.go:81, 163), senders that vxbee and wifi do not tell apart   *)
(* (wifi.go:123), fragments that vxbee sent twice or that overtook each    *)
(* other (virtual_xbee/xbee.go:168-176).                                   *)
THEOREM ReceivedMessagesAreSent == Spec => []ReturnsMessages
  <1>1. ReassemblyInv => ReturnsMessages BY ReturnsRight DEF ReassemblyInv
  <1> QED BY <1>1, ReassemblyInvariant, PTL

(* No fragment is used in two messages, with the drivers that send each    *)
(* fragment once: ReceivePacket deletes what it returns, with all          *)
(* unfinished messages (xbee.go:194-200, wifi.go:166-172).                 *)
THEOREM FragmentsAreUsedOnce == Spec => []UsedOnce
  <1>1. ReassemblyInv => UsedOnce
    BY DEF ReassemblyInv, OrderInv, UsedOnce
  <1> QED BY <1>1, ReassemblyInvariant, PTL

(* A message that SendPacket of the xbee driver called sent, and whose     *)
(* number no message before it had, is lost only where a fragment of it    *)
(* is: in the air, when ReadFrame takes the oldest frame out of a full     *)
(* RecvPacketCh (xbee/reader.go:126-131), or when ReceivePacket leaves     *)
(* unfinished messages behind (xbee.go:181-188, 196-198).                  *)
THEOREM UnbrokenMessagesArrive == Spec => []NothingElseLoses
  <1>1. ReassemblyInv => NothingElseLoses
    <2> SUFFICES ASSUME ReassemblyInv, driver = "xbee",
                        NEW s \in Senders, NEW id \in 1 .. NoMod,
                        <<s, id>> \in sent, Unharmed(s, id), ~Complete(s, id)
                 PROVE  \/ \E i \in DOMAIN air[s] : air[s][i].msg = id
                        \/ pending \notin {Nothing, Corrupt} /\ Message(pending) = <<s, id>>
                        \/ \E i \in DOMAIN RecvPacketCh :
                             RecvPacketCh[i] # Corrupt /\ Message(RecvPacketCh[i]) = <<s, id>>
      BY DEF NothingElseLoses, Unharmed, Complete
    <2>1. TypeOK /\ PartsInv /\ LossInv BY DEF ReassemblyInv
    <2>2. Traced(s, id) BY <2>1 DEF LossInv
    <2> PICK g \in Located : Message(g) = <<s, id>> /\ g.seq = g.total
      BY <2>2 DEF Traced
    <2>3. g \notin Held BY <2>2 DEF Traced
    <2>4. CASE g \in InAir
      <3> PICK t \in Senders : g \in ToSet(air[t]) BY <2>4 DEF InAir
      <3>1. g.src = t /\ g.src = s /\ g.msg = id BY <2>1 DEF PartsInv, Message
      <3> QED BY <3>1 DEF ToSet
    <2>5. CASE g \in InLine
      <3>1. g # Corrupt /\ g \in ToSet(Line) BY <2>5 DEF InLine
      <3>2. CASE pending = Nothing
        <4>1. g \in ToSet(RecvPacketCh) BY <3>1, <3>2 DEF Line
        <4> QED BY <3>1, <4>1 DEF ToSet
      <3>3. CASE pending # Nothing
        <4> DEFINE Frame == Fragment \cup {Corrupt}
        <4>1. pending \in Frame /\ RecvPacketCh \in Seq(Frame)
          BY <2>1, <3>3 DEF TypeOK
        <4> HIDE DEF Frame
        <4>2. ToSet(Append(RecvPacketCh, pending)) = ToSet(RecvPacketCh) \cup {pending}
          BY <4>1, SetAppend
        <4>3. g \in ToSet(RecvPacketCh) \/ g = pending
          BY <3>1, <3>3, <4>2 DEF Line
        <4> QED BY <3>1, <3>3, <4>3 DEF ToSet
      <3> QED BY <3>2, <3>3
    <2> QED BY <2>3, <2>4, <2>5 DEF Located
  <1> QED BY <1>1, ReassemblyInvariant, PTL

-----------------------------------------------------------------------------
(* Reassembly implements MessageChannel *)

ChannelStep == [Channel!Next]_(Channel!channelVars)

(* One more message is returned. *)
LEMMA ReceivedAppend ==
  ASSUME TypeOK, NEW m \in Seq(Fragment), returned' = Append(returned, m),
         driver # "vxbee", driver' = driver
  PROVE  Received' = Append(Received, Contents(m))
  <1> DEFINE n == Len(returned)
             S == {Contents(q) : q \in Seq(Fragment)}
             x == Received'
             y == Append(Received, Contents(m))
  <1>1. /\ returned \in Seq(Seq(Fragment)) /\ n \in Nat
        /\ DOMAIN returned = 1 .. n
    BY LenProperties DEF TypeOK
  <1>2. /\ returned' \in Seq(Seq(Fragment)) /\ Len(returned') = n + 1
        /\ \A k \in 1 .. n : returned'[k] = returned[k]
        /\ returned'[n + 1] = m
    BY <1>1, AppendProperties
  <1>3. DOMAIN returned' = 1 .. n + 1 BY <1>2, LenProperties
  <1>4. /\ Contents(m) \in S
        /\ \A k \in 1 .. n : Contents(returned[k]) \in S
    BY <1>1, ElementOfSeq
  <1> HIDE DEF n, S
  <1>5. /\ Received \in Seq(S) /\ Len(Received) = n
        /\ \A k \in 1 .. n : Received[k] = Contents(returned[k])
    BY <1>1, <1>4 DEF Received
  <1>6. /\ y \in Seq(S) /\ Len(y) = n + 1
        /\ \A k \in 1 .. n : y[k] = Received[k]
        /\ y[n + 1] = Contents(m)
    <2> PICK r : r = Received OBVIOUS
    <2> PICK c : c = Contents(m) OBVIOUS
    <2>1. r \in Seq(S) /\ c \in S /\ Len(r) = n BY <1>4, <1>5
    <2>2. /\ Append(r, c) \in Seq(S) /\ Len(Append(r, c)) = n + 1
          /\ \A k \in 1 .. n : Append(r, c)[k] = r[k]
          /\ Append(r, c)[n + 1] = c
      BY <2>1, AppendProperties
    <2> QED BY <2>2
  <1>7. \A k \in 1 .. n + 1 : k \in 1 .. n \/ k = n + 1 BY <1>1
  <1>8. x = [k \in 1 .. n + 1 |-> Contents(returned'[k])]
    BY <1>3 DEF Received
  <1> HIDE DEF x, y
  <1>9. \A k \in 1 .. n + 1 : x[k] = Contents(returned'[k]) BY <1>8
  <1>10. \A k \in 1 .. n + 1 : x[k] = y[k]
    BY <1>2, <1>5, <1>6, <1>7, <1>9
  <1>11. x \in Seq(S) /\ Len(x) = n + 1
    <2>1. \A k \in 1 .. n + 1 : Contents(returned'[k]) \in S
      BY <1>2, <1>4, <1>7
    <2> QED BY <1>1, <1>8, <2>1
  <1>12. x = y BY <1>6, <1>10, <1>11, SeqEqual
  <1> QED BY <1>12 DEF x, y

(* A whole message is as long as any of its fragments says; its last       *)
(* fragment has the last Seq.                                              *)
LEMMA IntactFields ==
  ASSUME NEW m \in Seq(Fragment), m # <<>>, Intact(m)
  PROVE  /\ Len(m) \in DOMAIN m /\ 1 \in DOMAIN m /\ Len(m) \in Nat
         /\ m[1] \in Fragment /\ m[Len(m)] \in Fragment
         /\ m[Len(m)].seq = Len(m) /\ m[Len(m)].total = Len(m)
         /\ Message(m[Len(m)]) = Message(m[1])
  <1> PICK n : n = Len(m) OBVIOUS
  <1>1. DOMAIN m = 1 .. n /\ n \in Nat \ {0} BY LenProperties, EmptySeq
  <1>2. 1 \in 1 .. n /\ n \in 1 .. n BY <1>1
  <1>3. m[1] \in Fragment /\ m[n] \in Fragment BY <1>1, <1>2, ElementOfSeq
  <1>4. m[1].total = n /\ m[n] = [m[1] EXCEPT !.seq = n]
    BY <1>1, <1>2 DEF Intact
  <1>5. /\ m[n].seq = n /\ m[n].total = n
        /\ m[n].src = m[1].src /\ m[n].msg = m[1].msg
    BY <1>3, <1>4 DEF Fragment
  <1> QED BY <1>1, <1>2, <1>3, <1>5 DEF Message

(* The sender of the message that is returned has sent it, and none of its *)
(* messages returned before is the same or a later one.                    *)
LEMMA ReturnedIsNewest ==
  ASSUME TypeOK, PartsInv, IndexInv, OrderInv, driver # "vxbee", TakeFragment,
         NEW all \in Seq(Fragment), all # <<>>, Intact(all),
         all[Len(all)] = Head(RecvPacketCh)
  PROVE  LET m == Message(all[1]) IN
         /\ m[1] \in Senders /\ m[2] \in 1 .. started[m[1]]
         /\ Channel!Newest(m[1], m[2])
  <1> PICK frag : frag = Head(RecvPacketCh) OBVIOUS
  <1> PICK n : n = Len(all) OBVIOUS
  <1>1. /\ frag \in InLine /\ frag \in Fragment
    BY TakeFragmentMoves
  <1>2. /\ frag.seq = n /\ frag.total = n /\ n \in Nat
        /\ Message(all[1]) = Message(frag)
    BY IntactFields
  <1>3. /\ frag.src \in Senders /\ frag.msg \in Nat \ {0}
        /\ frag.msg <= started[frag.src] /\ started[frag.src] \in Nat
    <2>1. frag \in Parts BY <1>1 DEF Parts, Out
    <2> QED BY <1>1, <2>1, FragmentFields DEF PartsInv, TypeOK
  <1>4. Message(all[1])[1] = frag.src /\ Message(all[1])[2] = frag.msg
    BY <1>2 DEF Message
  <1>5. ASSUME NEW k \in DOMAIN Received,
               NEW x \in Received[k], x[1] = frag.src
        PROVE  x[2] < frag.msg
    <2> PICK m : m = returned[k] OBVIOUS
    <2>1. k \in DOMAIN returned /\ Received[k] = Contents(m)
      BY <1>5 DEF Received
    <2>2. Intact(m) /\ x = Message(m[1])
      BY <1>5, <2>1 DEF Contents
    <2>3. m \in Seq(Fragment) /\ m # <<>>
      BY <2>1, ElementOfSeq, LenProperties DEF TypeOK, IndexInv
    <2> PICK l : l = m[Len(m)] OBVIOUS
    <2>4. /\ l \in Fragment /\ l.seq = Len(m) /\ l.total = Len(m)
          /\ Len(m) \in Nat /\ Message(l) = x /\ Len(m) \in DOMAIN m
      BY <2>2, <2>3, IntactFields
    <2>5. l \in Returned BY <2>1, <2>4 DEF Returned, ToSet
    <2>6. Ahead(l, frag) BY <1>1, <1>5, <2>5 DEF OrderInv
    <2>7. x[1] = l.src /\ x[2] = l.msg /\ l.msg \in Nat
      BY <2>4, FragmentFields DEF Message
    <2>8. l.msg < frag.msg \/ (l.msg = frag.msg /\ l.seq < frag.seq)
      BY <1>5, <2>6, <2>7 DEF Ahead
    <2>9. ASSUME l.msg = frag.msg PROVE l.seq = frag.seq
      <3>1. Message(l) = Message(frag) BY <1>5, <2>7, <2>9 DEF Message
      <3>2. l \in Parts /\ frag \in Parts BY <1>1, <2>5 DEF Parts, Out
      <3>3. l.total = frag.total BY <3>1, <3>2 DEF PartsInv, Agree
      <3> QED BY <1>2, <2>4, <3>3
    <2> QED BY <1>2, <1>3, <2>4, <2>7, <2>8, <2>9
  <1> QED BY <1>3, <1>4, <1>5 DEF Channel!Newest

(* With xbee, while every number is used once, nothing can be mixed up. *)
LEMMA NothingAliased ==
  ASSUME TypeOK, PartsInv, ~Ambiguous, NEW m \in Seq(Fragment),
         ToSet(m) \subseteq Parts
  PROVE  driver = "xbee" /\ ~Aliased(m)
  <1>1. /\ driver = "xbee"
        /\ \A s \in Senders : restarts[s] = {} /\ started[s] <= NoMod
    <2>1. \A s \in Senders : started[s] \in Nat /\ NoMod \in Nat
      BY Constants DEF TypeOK
    <2> QED BY <2>1 DEF Ambiguous
  <1>2. ASSUME NEW i \in DOMAIN m
        PROVE  /\ m[i].src \in Senders /\ m[i].msg \in Nat \ {0}
               /\ m[i].msg <= NoMod
    <2>1. m[i] \in Parts BY DEF ToSet
    <2>2. m[i] \in Fragment BY ElementOfSeq, LenProperties
    <2>3. /\ m[i].src \in Senders /\ m[i].msg \in Nat \ {0}
          /\ m[i].msg <= started[m[i].src]
      BY <2>1, <2>2, FragmentFields DEF PartsInv
    <2> QED BY <1>1, <2>3, Constants DEF TypeOK
  <1> QED BY <1>1, <1>2, Constants DEF Aliased

(* ReceivePacket returns. *)
LEMMA ReturnImplements ==
  ASSUME ReassemblyInv, ReturnsMessages', TakeFragment, returned' # returned,
         driver # "vxbee"
  PROVE  Channel!Next
  <1>0. TypeOK /\ PartsInv /\ IndexInv /\ OrderInv
    BY DEF ReassemblyInv
  <1> DEFINE frag == Head(RecvPacketCh)
             all0 == Append(receivedData[Index(frag)], frag)
  <1> PICK all : all = all0 OBVIOUS
  <1>1. /\ all \in Seq(Fragment) /\ all # <<>> /\ all[Len(all)] = frag
        /\ returned' = Append(returned, all)
        /\ UNCHANGED <<driver, senderVars>>
        /\ ToSet(all) = ToSet(receivedData[Index(frag)]) \cup {frag}
        /\ Index(frag) \in Indices /\ frag \in InLine
    BY <1>0, TakeFragmentMoves
  <1> HIDE DEF all0
  <1>2. Received' = Append(Received, Contents(all))
    BY <1>0, <1>1, ReceivedAppend
  <1>3. started' = started /\ Ambiguous' = Ambiguous
    BY <1>1 DEF senderVars, Ambiguous
  <1>4. CASE Intact(all)
    <2> PICK m : m = Message(all[1]) OBVIOUS
    <2>1. /\ m[1] \in Senders /\ m[2] \in 1 .. started[m[1]]
          /\ Channel!Newest(m[1], m[2])
      BY <1>0, <1>1, <1>4, ReturnedIsNewest
    <2>2. m = <<m[1], m[2]>> BY DEF Message
    <2>3. Contents(all) = {<<m[1], m[2]>>} BY <1>4, <2>2 DEF Contents
    <2> PICK s \in Senders : s = m[1] BY <2>1
    <2>4. Channel!Receive(s) BY <1>2, <1>3, <2>1, <2>3 DEF Channel!Receive
    <2> QED BY <2>4 DEF Channel!Next
  <1>5. CASE ~Intact(all)
    <2>1. Contents(all) = {} BY <1>5 DEF Contents
    <2>2. Ambiguous
      <3> SUFFICES ASSUME ~Ambiguous PROVE FALSE OBVIOUS
      <3>1. ToSet(all) \subseteq Parts
        BY <1>1 DEF Parts, Out, Held
      <3>2. driver = "xbee" /\ ~Aliased(all)
        BY <1>0, <1>1, <3>1, NothingAliased
      <3> PICK k \in DOMAIN returned' : returned'[k] = all
        <4>1. /\ returned' \in Seq(Seq(Fragment)) /\ Len(returned') = Len(returned) + 1
              /\ returned'[Len(returned) + 1] = all /\ Len(returned) \in Nat
          BY <1>0, <1>1, AppendProperties, LenProperties DEF TypeOK
        <4> QED BY <4>1, LenProperties
      <3>3. Intact(all) \/ Aliased(all)' \/ driver' # "xbee"
        BY DEF ReturnsMessages
      <3>4. Aliased(all)' = Aliased(all) BY <1>1 DEF Aliased, senderVars
      <3> QED BY <1>1, <1>5, <3>2, <3>3, <3>4
    <2>3. Channel!ReceiveGarbled
      BY <1>2, <1>3, <2>1, <2>2 DEF Channel!ReceiveGarbled
    <2> QED BY <2>3 DEF Channel!Next
  <1> QED BY <1>4, <1>5

(* The senders' steps begin messages, make the numbers ambiguous, or are   *)
(* not seen.                                                               *)
LEMMA SenderImplements ==
  ASSUME TypeOK, NEW s \in Senders, UNCHANGED <<driver, returned>>,
         \/ started' = [started EXCEPT ![s] = @ + 1] /\ restarts' = restarts
         \/ Restart(s)
         \/ started' = started /\ restarts' = restarts
  PROVE  ChannelStep
  <1>1. Received' = Received BY DEF Received
  <1>2. CASE started' = [started EXCEPT ![s] = @ + 1] /\ restarts' = restarts
    <2>1. Ambiguous => Ambiguous'
      <3>1. \A t \in Senders : started[t] > NoMod => started'[t] > NoMod
        BY <1>2, Constants DEF TypeOK
      <3> QED BY <1>2, <3>1 DEF Ambiguous
    <2>2. Ambiguous \in BOOLEAN /\ Ambiguous' \in BOOLEAN BY DEF Ambiguous
    <2>3. Ambiguous' \in {Ambiguous, TRUE} BY <2>1, <2>2
    <2>4. Channel!Begin(s) BY <1>1, <1>2, <2>3 DEF Channel!Begin
    <2> QED BY <2>4 DEF ChannelStep, Channel!Next
  <1>3. CASE Restart(s)
    <2>1. started' = started /\ restarts' = [restarts EXCEPT ![s] = @ \cup {started[s]}]
      BY <1>3 DEF Restart
    <2>2. restarts'[s] # {} BY <2>1 DEF TypeOK
    <2>3. Ambiguous' BY <2>2 DEF Ambiguous
    <2>4. Ambiguous' = TRUE BY <2>3 DEF Ambiguous
    <2>5. Channel!GetAmbiguous BY <1>1, <2>1, <2>4 DEF Channel!GetAmbiguous
    <2> QED BY <2>5 DEF ChannelStep, Channel!Next
  <1>4. CASE started' = started /\ restarts' = restarts
    <2>1. Ambiguous' = Ambiguous BY <1>4 DEF Ambiguous
    <2> QED BY <1>1, <1>4, <2>1 DEF ChannelStep, Channel!channelVars
  <1> QED BY <1>2, <1>3, <1>4

LEMMA ChannelStutters ==
  ASSUME UNCHANGED <<driver, started, restarts>>,
         driver = "vxbee" \/ returned' = returned
  PROVE  ChannelStep
  <1>1. Received' = Received /\ Ambiguous' = Ambiguous
    BY DEF Received, Ambiguous
  <1> QED BY <1>1 DEF ChannelStep, Channel!channelVars

(* Every step is a step of MessageChannel or is not seen there. *)
LEMMA NextImplements ==
  ASSUME ReassemblyInv, ReturnsMessages', [Next]_vars
  PROVE  ChannelStep
  <1>0. TypeOK BY DEF ReassemblyInv
  <1>1. ASSUME NEW s \in Senders,
               \/ \E total \in Totals, to \in Tos : StartMessage(s, total, to)
               \/ RefuseMessage(s)
               \/ Restart(s)
        PROVE  ChannelStep
    <2>1. /\ UNCHANGED <<driver, returned>>
          /\ \/ started' = [started EXCEPT ![s] = @ + 1] /\ restarts' = restarts
             \/ Restart(s)
      BY <1>1 DEF StartMessage, RefuseMessage, Restart, receiverVars
    <2> QED BY <1>0, <2>1, SenderImplements
  <1>2. ASSUME NEW s \in Senders, WriteFrame(s) \/ StatusOk(s) \/ StatusBad(s)
        PROVE  ChannelStep
    BY <1>2, ChannelStutters DEF WriteFrame, StatusOk, StatusBad, receiverVars
  <1>3. ASSUME NEW s \in Senders, NEW i \in DOMAIN air[s],
               Arrive(s, i, air[s][i]) \/ Arrive(s, i, Corrupt)
        PROVE  ChannelStep
    BY <1>3, ChannelStutters DEF Arrive, receiverVars, senderVars
  <1>4. CASE MakeRoom \/ TakeCorrupt \/ GetPacketTimeout
    BY <1>4, ChannelStutters
    DEF MakeRoom, TakeCorrupt, GetPacketTimeout, receiverVars, senderVars
  <1>5. CASE TakeFragment
    <2>1. CASE driver = "vxbee" \/ returned' = returned
      BY <1>5, <2>1, ChannelStutters DEF TakeFragment, senderVars
    <2>2. CASE driver # "vxbee" /\ returned' # returned
      BY <1>5, <2>2, ReturnImplements DEF ChannelStep
    <2> QED BY <2>1, <2>2
  <1>6. CASE UNCHANGED vars
    BY <1>6, ChannelStutters DEF vars, senderVars, receiverVars
  <1> QED BY <1>1, <1>2, <1>3, <1>4, <1>5, <1>6 DEF Next

LEMMA InitImplements == Init => Channel!Init
  <1> SUFFICES ASSUME Init PROVE Channel!Init OBVIOUS
  <1>1. Received = <<>> BY DEF Init, Received
  <1>2. Ambiguous \in BOOLEAN BY DEF Ambiguous
  <1> QED BY <1>1, <1>2 DEF Init, Channel!Init

(* xbee and wifi are the channel that MessageChannel describes, for any    *)
(* number of senders, messages and restarts: with xbee what is received is *)
(* always a message that was sent until numbers come round (xbee.go:163)   *)
(* or begin anew (xbee.go:81), and with both the messages of a sender are  *)
(* received in the order of its SendPackets, none twice, whatever is lost  *)
(* (xbee.go:189-200, wifi.go:161-172).                                     *)
THEOREM DriversAreMessageChannels == Spec => ImplementsMessageChannel
  <1>1. ReassemblyInv /\ ReturnsMessages' /\ [Next]_vars
          => [Channel!Next]_(Channel!channelVars)
    BY NextImplements DEF ChannelStep
  <1> QED
    BY <1>1, InitImplements, ReassemblyInvariant, ReceivedMessagesAreSent, PTL
    DEF Spec, ImplementsMessageChannel, Channel!Spec
=============================================================================
