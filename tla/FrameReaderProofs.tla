-------------------------- MODULE FrameReaderProofs --------------------------
(***************************************************************************)
(* Theorems about FrameReader, for any frames, any number of them and any  *)
(* capacities of the channels, with reads of an idle port, calls of Stop   *)
(* and Start, and another Reader in the program.                           *)
(***************************************************************************)
EXTENDS FrameReader, SequenceTheorems, TLAPS

-----------------------------------------------------------------------------
(* The inductive invariant *)

Byte == Nat
Frames == {Encode(s) : s \in Shapes}

FrameReading ==
  [pc: {"search", "length", "body", "put", "makeRoom", "putAgain", "off",
        "panic"}, frame: Seq(Byte), got: Seq(Byte)]
Channels == {"bytes", "resp", "packet"}

TypeInv ==
  /\ driver \in Drivers
  /\ wire \in Seq(Byte) /\ Len(wire) <= ByteCap
  /\ writer \in [Writers -> Seq(Byte)]
  /\ rb \in [pc: {"read", "have", "off"}, data: Byte]
  /\ RecvByteCh \in Seq(Byte) /\ Len(RecvByteCh) <= ByteCap
  /\ rf \in FrameReading
  /\ RecvCh \in [Kinds -> 0 .. FrameCap]
  /\ ctl \in [pc: {"running", "clear", "take", "wait", "stopped"},
              todo: Seq(Channels)]
  /\ ctl.pc = "take" => ctl.todo # <<>>
  /\ cancelled \in BOOLEAN /\ disturbed \in BOOLEAN
  /\ other \in {"none", "off", "on", "stopped"} /\ cancel \in {"own", "other"}
  /\ due \in Seq(Frames)

(* The bytes that came and that no frame has taken, in order: those that   *)
(* ReadFrame has put together, those in RecvByteCh, the one that ReadByte  *)
(* has, those in the port, and what is left to write of a frame.           *)
Collected == rf.frame \o rf.got
InHand == IF rb.pc = "have" THEN <<rb.data>> ELSE <<>>
Unwritten ==
  IF Midst THEN writer[CHOOSE w \in Writers : writer[w] # <<>>] ELSE <<>>
Coming == RecvByteCh \o (InHand \o (wire \o Unwritten))
Stream == Collected \o Coming

(* The frames of fs are in the stream, in order and each in one piece, at  *)
(* the places at, and no delimiter is outside of them.                     *)
HoldsAt(stream, fs, at) ==
  /\ \A i \in DOMAIN fs :
       /\ at[i] + Len(fs[i]) <= Len(stream) + 1
       /\ \A j \in DOMAIN fs[i] : stream[at[i] + j - 1] = fs[i][j]
       /\ \A k \in DOMAIN fs : i < k => at[i] + Len(fs[i]) <= at[k]
  /\ \A p \in DOMAIN stream :
       stream[p] = Delimiter =>
         \E i \in DOMAIN fs : at[i] <= p /\ p < at[i] + Len(fs[i])

Holds(stream, fs) ==
  \E at \in [DOMAIN fs -> DOMAIN stream] : HoldsAt(stream, fs, at)

(* What ReadFrame has put together is the beginning of a frame. *)
Begun ==
  /\ rf.pc \in {"search", "length"} =>
       /\ rf.got = <<>>
       /\ rf.frame = IF rf.pc = "search" THEN <<>> ELSE <<Delimiter>>
  /\ rf.pc = "body" => /\ Len(rf.frame) = 2 /\ rf.frame[1] = Delimiter
                       /\ Len(rf.got) < Rest(rf.frame[2])
  /\ rf.pc \in {"put", "makeRoom", "putAgain"} =>
       rf.got = <<>> /\ due # <<>> /\ rf.frame = Head(due)

(* A frame is being written by one writer at most. *)
OneMidst ==
  \A v, w \in Writers : writer[v] # <<>> /\ writer[w] # <<>> => v = w

StreamInv ==
  /\ Holds(Stream, due) /\ Begun /\ OneMidst
  /\ ~cancelled /\ ctl.pc = "running"
  /\ rf.pc \notin {"off", "panic"} /\ rb.pc # "off"

ReaderInv == TypeInv /\ (~disturbed => StreamInv)

-----------------------------------------------------------------------------
(* Bytes that move from one sequence to the next *)

(* A byte as a sequence. *)
LEMMA Single ==
  ASSUME NEW b \in Byte
  PROVE  <<b>> \in Seq(Byte) /\ Len(<<b>>) = 1 /\ <<b>>[1] = b
  OBVIOUS

(* The second byte of a frame. *)
LEMMA Second ==
  ASSUME NEW q \in Seq(Byte), NEW b \in Byte
  PROVE  Len(q) = 1 =>
           /\ Append(q, b) \in Seq(Byte) /\ Append(q, b) # <<>>
           /\ Len(Append(q, b)) = 2
           /\ Append(q, b)[1] = q[1] /\ Append(q, b)[2] = b
  <1>1. /\ Append(q, b) \in Seq(Byte) /\ Append(q, b) # <<>>
        /\ Len(Append(q, b)) = Len(q) + 1
        /\ \A i \in 1 .. Len(q) : Append(q, b)[i] = q[i]
        /\ Append(q, b)[Len(q) + 1] = b
    BY AppendProperties
  <1>2. Len(q) = 1 => 1 \in 1 .. Len(q) /\ Len(q) + 1 = 2 OBVIOUS
  <1> QED BY <1>1, <1>2

(* The first byte of r, appended to q, leaves the two together the same.   *)
LEMMA HeadMoves ==
  ASSUME NEW q \in Seq(Byte), NEW r \in Seq(Byte), r # <<>>
  PROVE  /\ Head(r) \in Byte /\ Tail(r) \in Seq(Byte)
         /\ Append(q, Head(r)) \in Seq(Byte)
         /\ r = <<Head(r)>> \o Tail(r)
         /\ q \o r = Append(q, Head(r)) \o Tail(r)
  <1> DEFINE h == Head(r)
             t == Tail(r)
  <1>1. h \in Byte /\ t \in Seq(Byte) /\ Len(t) = Len(r) - 1
        /\ (\A i \in 1 .. Len(t) : t[i] = r[i + 1]) /\ h = r[1]
    BY HeadTailProperties
  <1>2. Len(r) \in Nat \ {0} BY LenProperties, EmptySeq
  <1> HIDE DEF h, t
  <1>3. <<h>> \in Seq(Byte) /\ Len(<<h>>) = 1 /\ <<h>>[1] = h BY <1>1, Single
  <1>4. r = <<h>> \o t
    <2>1. /\ <<h>> \o t \in Seq(Byte) /\ Len(<<h>> \o t) = 1 + Len(t)
          /\ \A i \in 1 .. 1 + Len(t) :
               (<<h>> \o t)[i] = IF i <= 1 THEN <<h>>[i] ELSE t[i - 1]
      BY <1>1, <1>3, ConcatProperties
    <2>2. ASSUME NEW i \in 1 .. Len(r) PROVE r[i] = (<<h>> \o t)[i]
      <3>1. CASE i = 1 BY <1>1, <1>2, <1>3, <2>1, <3>1
      <3>2. CASE i # 1
        <4>1. i - 1 \in 1 .. Len(t) /\ i \in 1 .. 1 + Len(t) /\ ~ (i <= 1)
              /\ (i - 1) + 1 = i
          BY <1>1, <1>2, <3>2
        <4> QED BY <1>1, <2>1, <4>1
      <3> QED BY <3>1, <3>2
    <2>3. Len(r) = Len(<<h>> \o t) BY <1>1, <1>2, <2>1
    <2> QED BY <2>1, <2>2, <2>3, SeqEqual
  <1>5. Append(q, h) = q \o <<h>> /\ Append(q, h) \in Seq(Byte)
    BY <1>1, AppendIsConcat, AppendProperties
  <1>6. (q \o <<h>>) \o t = q \o (<<h>> \o t)
    BY <1>1, <1>3, ConcatAssociative
  <1> QED BY <1>1, <1>4, <1>5, <1>6 DEF h, t

-----------------------------------------------------------------------------
(* The shape of a frame *)

(* The byte that tells the kind of a frame. *)
LEMMA TypeBytes == \A k \in Kinds : TypeByte[k] \in Nat
  BY DEF TypeByte, Kinds

(* How many bytes follow a length field: wifi counts the checksum in it. *)
LEMMA RestOf ==
  ASSUME NEW n \in Nat, NEW x \in {1, 2}, driver = "wifi" <=> x = 2
  PROVE  Rest(n + x) = n + 2
  <1>1. CASE driver = "wifi" BY <1>1 DEF Rest
  <1>2. CASE driver # "wifi" BY <1>2 DEF Rest
  <1> QED BY <1>1, <1>2

(* A frame is a head, a payload and a checksum. *)
LEMMA FrameParts ==
  ASSUME NEW f \in Frames
  PROVE  \E pay \in Seq(Byte), sum \in Byte, kind \in Kinds, x \in {1, 2} :
           /\ f = <<Delimiter, Len(pay) + x, TypeByte[kind]>> \o pay \o <<sum>>
           /\ driver = "wifi" <=> x = 2
  <1> PICK s \in Shapes : f = Encode(s) BY DEF Frames
  <1>1. s.kind \in Kinds /\ s.payload \in Seq(0 .. 100) /\ s.sum \in 0 .. 100
    BY FrameReaderAssumption
  <1>2. 0 .. 100 \subseteq Byte BY DEF Byte
  <1>3. s.payload \in Seq(Byte) /\ s.sum \in Byte BY <1>1, <1>2, SeqMonotonic
  <1>4. CASE driver = "wifi"
    <2>1. f = <<Delimiter, Len(s.payload) + 2, TypeByte[s.kind]>> \o s.payload
              \o <<s.sum>>
      BY <1>4 DEF Encode
    <2> QED BY <1>1, <1>3, <1>4, <2>1
  <1>5. CASE driver # "wifi"
    <2>1. f = <<Delimiter, Len(s.payload) + 1, TypeByte[s.kind]>> \o s.payload
              \o <<s.sum>>
      BY <1>5 DEF Encode
    <2>2. 1 \in {1, 2} /\ (driver = "wifi" <=> 1 = 2) BY <1>5
    <2> QED BY <1>1, <1>3, <2>1, <2>2
  <1> QED BY <1>4, <1>5

(* A frame has four bytes and its payload; the second byte tells ReadFrame *)
(* how many follow, the third its kind.                                    *)
LEMMA FrameShape ==
  ASSUME NEW f \in Frames
  PROVE  /\ f \in Seq(Byte) /\ Len(f) \in Nat /\ Len(f) >= 4 /\ f # <<>>
         /\ f[1] = Delimiter /\ f[2] \in Nat /\ Rest(f[2]) = Len(f) - 2
         /\ Len(f) - 2 > 0 /\ KindOf(f) # {} /\ Validated(f)
         /\ Head(f) = Delimiter
  <1> PICK pay \in Seq(Byte), sum \in Byte, kind \in Kinds, x \in {1, 2} :
        /\ f = <<Delimiter, Len(pay) + x, TypeByte[kind]>> \o pay \o <<sum>>
        /\ driver = "wifi" <=> x = 2
    BY FrameParts
  <1> PICK t : t = TypeByte[kind] OBVIOUS
  <1>1. t \in Nat /\ Len(pay) \in Nat BY TypeBytes, LenProperties
  <1> PICK l : l = Len(pay) + x OBVIOUS
  <1>2. l \in Nat BY <1>1
  <1> DEFINE a == <<Delimiter, l, t>>
             b == a \o pay
             z == <<sum>>
  <1>3. f = b \o z OBVIOUS
  <1>4. /\ a \in Seq(Byte) /\ Len(a) = 3 /\ a[1] = Delimiter /\ a[2] = l
        /\ a[3] = t
    <2>1. Delimiter \in Byte BY FrameReaderAssumption DEF Byte
    <2> QED BY <1>1, <1>2, <2>1 DEF Byte
  <1>5. z \in Seq(Byte) /\ Len(z) = 1 BY Single
  <1>6. Rest(l) = Len(pay) + 2 BY <1>1, RestOf
  <1>7. kind \in {k \in Kinds : t = TypeByte[k]} OBVIOUS
  <1> HIDE DEF a, b, z
  <1>8. /\ b \in Seq(Byte) /\ Len(b) = 3 + Len(pay)
        /\ \A i \in 1 .. 3 : b[i] = a[i]
    <2>1. /\ b \in Seq(Byte) /\ Len(b) = Len(a) + Len(pay)
          /\ \A i \in 1 .. Len(a) + Len(pay) :
               b[i] = IF i <= Len(a) THEN a[i] ELSE pay[i - Len(a)]
      BY <1>4, ConcatProperties DEF b
    <2> QED BY <1>1, <1>4, <2>1
  <1>9. /\ f \in Seq(Byte) /\ Len(f) = 4 + Len(pay)
        /\ \A i \in 1 .. 3 : f[i] = a[i]
    <2>1. /\ f \in Seq(Byte) /\ Len(f) = Len(b) + 1
          /\ \A i \in 1 .. Len(b) + 1 :
               f[i] = IF i <= Len(b) THEN b[i] ELSE z[i - Len(b)]
      BY <1>3, <1>5, <1>8, ConcatProperties
    <2> QED BY <1>1, <1>8, <2>1
  <1>10. f[1] = Delimiter /\ f[2] = l /\ f[3] = t BY <1>4, <1>9
  <1>11. KindOf(f) # {} BY <1>7, <1>10 DEF KindOf
  <1>12. Validated(f) BY DEF Validated, Frames
  <1>13. f # <<>> /\ Head(f) = f[1]
    BY <1>1, <1>9, EmptySeq, HeadTailProperties
  <1>14. Len(f) \in Nat /\ Len(f) >= 4 /\ Len(f) - 2 = Len(pay) + 2
         /\ Len(f) - 2 > 0
    BY <1>1, <1>9
  <1> QED BY <1>2, <1>6, <1>9, <1>10, <1>11, <1>12, <1>13, <1>14

-----------------------------------------------------------------------------
(* The frames in a stream *)

(* The frames that are due have the shape of frames. *)
LEMMA FrameOf ==
  ASSUME NEW fs \in Seq(Frames), NEW i \in DOMAIN fs
  PROVE  /\ fs[i] \in Frames /\ Len(fs[i]) \in Nat /\ Len(fs[i]) >= 4
         /\ DOMAIN fs[i] = 1 .. Len(fs[i]) /\ fs[i][1] = Delimiter
         /\ 1 \in DOMAIN fs[i]
  <1>1. fs[i] \in Frames BY LenProperties, ElementOfSeq
  <1>2. fs[i] \in Seq(Byte) /\ Len(fs[i]) \in Nat /\ Len(fs[i]) >= 4
        /\ fs[i][1] = Delimiter
    BY <1>1, FrameShape
  <1> QED BY <1>1, <1>2, LenProperties

(* A byte that is no delimiter may come after the frames, *)
LEMMA HoldsJunk ==
  ASSUME NEW S \in Seq(Byte), NEW fs \in Seq(Frames), Holds(S, fs),
         NEW b \in Byte, b # Delimiter
  PROVE  Holds(S \o <<b>>, fs)
  <1> DEFINE T == S \o <<b>>
  <1>1. /\ DOMAIN S = 1 .. Len(S) /\ Len(S) \in Nat
        /\ DOMAIN fs = 1 .. Len(fs) /\ Len(fs) \in Nat
    BY LenProperties
  <1>2. /\ T \in Seq(Byte) /\ Len(T) = Len(S) + 1
        /\ (\A i \in 1 .. Len(S) : T[i] = S[i]) /\ T[Len(S) + 1] = b
    BY AppendIsConcat, AppendProperties
  <1>3. DOMAIN T = 1 .. Len(S) + 1 BY <1>2, LenProperties
  <1> HIDE DEF T
  <1> PICK at \in [DOMAIN fs -> DOMAIN S] : HoldsAt(S, fs, at)
    BY DEF Holds, HoldsAt
  <1>4. at \in [DOMAIN fs -> DOMAIN T] BY <1>1, <1>3
  <1>5. ASSUME NEW i \in DOMAIN fs
        PROVE  /\ at[i] + Len(fs[i]) <= Len(T) + 1
               /\ \A j \in DOMAIN fs[i] : T[at[i] + j - 1] = fs[i][j]
               /\ \A k \in DOMAIN fs : i < k => at[i] + Len(fs[i]) <= at[k]
    <2>1. Len(fs[i]) \in Nat /\ DOMAIN fs[i] = 1 .. Len(fs[i]) BY FrameOf
    <2>2. at[i] \in 1 .. Len(S) /\ at[i] + Len(fs[i]) <= Len(S) + 1
      BY <1>1 DEF HoldsAt
    <2>3. ASSUME NEW j \in DOMAIN fs[i] PROVE T[at[i] + j - 1] = fs[i][j]
      <3>1. at[i] + j - 1 \in 1 .. Len(S) BY <1>1, <2>1, <2>2
      <3> QED BY <1>2, <3>1 DEF HoldsAt
    <2> QED BY <1>1, <1>2, <2>1, <2>2, <2>3 DEF HoldsAt
  <1>6. ASSUME NEW p \in DOMAIN T, T[p] = Delimiter
        PROVE  \E i \in DOMAIN fs : at[i] <= p /\ p < at[i] + Len(fs[i])
    <2>1. p # Len(S) + 1 BY <1>2, <1>6
    <2>2. p \in DOMAIN S /\ S[p] = Delimiter BY <1>1, <1>2, <1>3, <1>6, <2>1
    <2> QED BY <2>2 DEF HoldsAt
  <1>7. HoldsAt(T, fs, at) BY <1>5, <1>6 DEF HoldsAt
  <1> QED BY <1>4, <1>7 DEF Holds, HoldsAt, T
(* or before them; *)
LEMMA HoldsSkip ==
  ASSUME NEW S \in Seq(Byte), NEW fs \in Seq(Frames), NEW b \in Byte,
         b # Delimiter, Holds(<<b>> \o S, fs)
  PROVE  Holds(S, fs)
  <1> DEFINE T == <<b>> \o S
  <1>1. /\ DOMAIN S = 1 .. Len(S) /\ Len(S) \in Nat
        /\ DOMAIN fs = 1 .. Len(fs) /\ Len(fs) \in Nat
    BY LenProperties
  <1>2. /\ T \in Seq(Byte) /\ Len(T) = Len(S) + 1
        /\ (\A i \in 1 .. Len(S) : T[i + 1] = S[i]) /\ T[1] = b
    <2>1. <<b>> \in Seq(Byte) /\ Len(<<b>>) = 1 /\ <<b>>[1] = b BY Single
    <2>2. /\ T \in Seq(Byte) /\ Len(T) = 1 + Len(S)
          /\ \A i \in 1 .. 1 + Len(S) :
               T[i] = IF i <= 1 THEN <<b>>[i] ELSE S[i - 1]
      BY <2>1, ConcatProperties
    <2>3. ASSUME NEW i \in 1 .. Len(S) PROVE T[i + 1] = S[i]
      <3>1. i + 1 \in 1 .. 1 + Len(S) /\ ~ (i + 1 <= 1) /\ (i + 1) - 1 = i
        BY <1>1
      <3> QED BY <2>2, <3>1
    <2>4. 1 \in 1 .. 1 + Len(S) BY <1>1
    <2> QED BY <1>1, <2>1, <2>2, <2>3, <2>4
  <1>3. DOMAIN T = 1 .. Len(S) + 1 BY <1>2, LenProperties
  <1> HIDE DEF T
  <1> PICK at \in [DOMAIN fs -> DOMAIN T] : HoldsAt(T, fs, at)
    BY DEF Holds, HoldsAt, T
  <1> DEFINE to == [i \in DOMAIN fs |-> at[i] - 1]
  <1>4. ASSUME NEW i \in DOMAIN fs
        PROVE  /\ at[i] \in 2 .. Len(S) + 1 /\ Len(fs[i]) \in Nat
               /\ at[i] + Len(fs[i]) <= Len(S) + 2
               /\ DOMAIN fs[i] = 1 .. Len(fs[i])
    <2>1. /\ Len(fs[i]) \in Nat /\ DOMAIN fs[i] = 1 .. Len(fs[i])
          /\ fs[i][1] = Delimiter /\ 1 \in DOMAIN fs[i]
      BY FrameOf
    <2>2. at[i] \in 1 .. Len(S) + 1 /\ at[i] + Len(fs[i]) <= Len(S) + 2
      BY <1>1, <1>2, <1>3 DEF HoldsAt
    <2>3. T[at[i] + 1 - 1] = Delimiter BY <2>1 DEF HoldsAt
    <2>4. at[i] + 1 - 1 = at[i] BY <2>2
    <2>5. at[i] # 1 BY <1>2, <2>3, <2>4
    <2> QED BY <2>1, <2>2, <2>5
  <1>5. to \in [DOMAIN fs -> DOMAIN S]
    <2> SUFFICES ASSUME NEW i \in DOMAIN fs PROVE at[i] - 1 \in 1 .. Len(S)
      BY <1>1
    <2> QED BY <1>1, <1>4
  <1>6. ASSUME NEW i \in DOMAIN fs
        PROVE  /\ to[i] + Len(fs[i]) <= Len(S) + 1
               /\ \A j \in DOMAIN fs[i] : S[to[i] + j - 1] = fs[i][j]
               /\ \A k \in DOMAIN fs : i < k => to[i] + Len(fs[i]) <= to[k]
    <2>1. to[i] = at[i] - 1 OBVIOUS
    <2>2. ASSUME NEW j \in DOMAIN fs[i] PROVE S[to[i] + j - 1] = fs[i][j]
      <3>1. to[i] + j - 1 \in 1 .. Len(S) /\ (to[i] + j - 1) + 1 = at[i] + j - 1
        BY <1>1, <1>4, <2>1
      <3> HIDE DEF to
      <3>2. T[at[i] + j - 1] = fs[i][j] BY DEF HoldsAt
      <3> QED BY <1>2, <3>1, <3>2
    <2>3. ASSUME NEW k \in DOMAIN fs, i < k PROVE to[i] + Len(fs[i]) <= to[k]
      <3>1. at[i] + Len(fs[i]) <= at[k] BY <2>3 DEF HoldsAt
      <3>2. to[k] = at[k] - 1 OBVIOUS
      <3> HIDE DEF to
      <3> QED BY <1>4, <2>1, <3>1, <3>2
    <2> HIDE DEF to
    <2> QED BY <1>1, <1>4, <2>1, <2>2, <2>3
  <1>7. ASSUME NEW p \in DOMAIN S, S[p] = Delimiter
        PROVE  \E i \in DOMAIN fs : to[i] <= p /\ p < to[i] + Len(fs[i])
    <2>1. p + 1 \in DOMAIN T /\ T[p + 1] = Delimiter
      BY <1>1, <1>2, <1>3, <1>7
    <2> PICK i \in DOMAIN fs : at[i] <= p + 1 /\ p + 1 < at[i] + Len(fs[i])
      BY <2>1 DEF HoldsAt
    <2>2. to[i] <= p /\ p < to[i] + Len(fs[i]) BY <1>1, <1>4
    <2> QED BY <2>2
  <1> HIDE DEF to
  <1>8. HoldsAt(S, fs, to) BY <1>6, <1>7 DEF HoldsAt
  <1> QED BY <1>5, <1>8 DEF Holds, HoldsAt
(* the last frame may be followed by another; *)
LEMMA HoldsFrame ==
  ASSUME NEW S \in Seq(Byte), NEW fs \in Seq(Frames), Holds(S, fs),
         NEW f \in Frames
  PROVE  Holds(S \o f, Append(fs, f))
  <1> DEFINE T == S \o f
             gs == Append(fs, f)
  <1>1. /\ DOMAIN S = 1 .. Len(S) /\ Len(S) \in Nat
        /\ DOMAIN fs = 1 .. Len(fs) /\ Len(fs) \in Nat
    BY LenProperties
  <1>2. f \in Seq(Byte) /\ Len(f) \in Nat /\ Len(f) >= 4 /\ f[1] = Delimiter
        /\ DOMAIN f = 1 .. Len(f)
    BY FrameShape, LenProperties
  <1>3. /\ T \in Seq(Byte) /\ Len(T) = Len(S) + Len(f)
        /\ \A i \in 1 .. Len(S) + Len(f) :
             T[i] = IF i <= Len(S) THEN S[i] ELSE f[i - Len(S)]
    BY <1>2, ConcatProperties
  <1>4. DOMAIN T = 1 .. Len(S) + Len(f) BY <1>3, LenProperties
  <1>5. /\ gs \in Seq(Frames) /\ Len(gs) = Len(fs) + 1
        /\ \A i \in 1 .. Len(fs) : gs[i] = fs[i]
        /\ gs[Len(fs) + 1] = f
    BY AppendProperties
  <1>6. DOMAIN gs = 1 .. Len(fs) + 1 BY <1>5, LenProperties
  <1> HIDE DEF T, gs
  <1> PICK at \in [DOMAIN fs -> DOMAIN S] : HoldsAt(S, fs, at)
    BY DEF Holds, HoldsAt
  <1> DEFINE to == [i \in DOMAIN gs |->
                      IF i = Len(fs) + 1 THEN Len(S) + 1 ELSE at[i]]
  <1>7. to[Len(fs) + 1] = Len(S) + 1
    <2>1. Len(fs) + 1 \in DOMAIN gs BY <1>1, <1>6
    <2> QED BY <2>1
  <1>8. ASSUME NEW i \in 1 .. Len(fs)
        PROVE  to[i] = at[i] /\ at[i] \in 1 .. Len(S) /\ i \in DOMAIN fs
    <2>1. i \in DOMAIN gs /\ i # Len(fs) + 1 BY <1>1, <1>6
    <2>2. to[i] = at[i] BY <2>1
    <2> QED BY <1>1, <2>2
  <1>9. to \in [DOMAIN gs -> DOMAIN T]
    <2> SUFFICES ASSUME NEW i \in 1 .. Len(fs) + 1 PROVE to[i] \in DOMAIN T
      BY <1>6
    <2>1. CASE i = Len(fs) + 1
      <3> HIDE DEF to
      <3> QED BY <1>1, <1>2, <1>4, <1>7, <2>1
    <2>2. CASE i # Len(fs) + 1
      <3>1. i \in 1 .. Len(fs) BY <1>1, <2>2
      <3>2. to[i] \in 1 .. Len(S) BY <1>8, <3>1
      <3> HIDE DEF to
      <3> QED BY <1>1, <1>2, <1>4, <3>2
    <2> QED BY <2>1, <2>2
  <1> HIDE DEF to
  <1>10. ASSUME NEW i \in DOMAIN gs
         PROVE  /\ to[i] + Len(gs[i]) <= Len(T) + 1
                /\ \A j \in DOMAIN gs[i] : T[to[i] + j - 1] = gs[i][j]
                /\ \A k \in DOMAIN gs : i < k => to[i] + Len(gs[i]) <= to[k]
    <2>1. CASE i = Len(fs) + 1
      <3>1. ASSUME NEW j \in 1 .. Len(f) PROVE T[Len(S) + 1 + j - 1] = f[j]
        <4>1. /\ Len(S) + 1 + j - 1 \in 1 .. Len(S) + Len(f)
              /\ ~ (Len(S) + 1 + j - 1 <= Len(S))
              /\ (Len(S) + 1 + j - 1) - Len(S) = j
          BY <1>1, <1>2
        <4> QED BY <1>3, <4>1
      <3>2. Len(S) + 1 + Len(f) <= Len(T) + 1 BY <1>1, <1>2, <1>3
      <3>3. \A k \in DOMAIN gs : ~ (i < k) BY <1>1, <1>6, <2>1
      <3> QED BY <1>2, <1>5, <1>7, <2>1, <3>1, <3>2, <3>3
    <2>2. CASE i # Len(fs) + 1
      <3>1. i \in 1 .. Len(fs) BY <1>1, <1>6, <2>2
      <3>2. /\ to[i] = at[i] /\ at[i] \in 1 .. Len(S) /\ i \in DOMAIN fs
            /\ gs[i] = fs[i]
        BY <1>5, <1>8, <3>1
      <3>3. Len(fs[i]) \in Nat /\ DOMAIN fs[i] = 1 .. Len(fs[i])
        BY <3>2, FrameOf
      <3>4. at[i] + Len(fs[i]) <= Len(S) + 1 BY <3>2 DEF HoldsAt
      <3>5. ASSUME NEW j \in DOMAIN fs[i] PROVE T[at[i] + j - 1] = fs[i][j]
        <4>1. at[i] + j - 1 \in 1 .. Len(S) BY <1>1, <3>2, <3>3, <3>4
        <4>2. at[i] + j - 1 \in 1 .. Len(S) + Len(f) /\ at[i] + j - 1 <= Len(S)
          BY <1>1, <1>2, <4>1
        <4>3. T[at[i] + j - 1] = S[at[i] + j - 1] BY <1>3, <4>2
        <4> QED BY <3>2, <4>3 DEF HoldsAt
      <3>6. ASSUME NEW k \in DOMAIN gs, i < k
            PROVE  at[i] + Len(fs[i]) <= to[k]
        <4>1. CASE k = Len(fs) + 1 BY <1>7, <3>4, <4>1
        <4>2. CASE k # Len(fs) + 1
          <5>1. k \in 1 .. Len(fs) BY <1>1, <1>6, <4>2
          <5> QED BY <1>8, <3>2, <3>6, <5>1 DEF HoldsAt
        <4> QED BY <4>1, <4>2
      <3>7. at[i] + Len(fs[i]) <= Len(T) + 1
        BY <1>1, <1>2, <1>3, <3>2, <3>3, <3>4
      <3> QED BY <3>2, <3>5, <3>6, <3>7
    <2> QED BY <2>1, <2>2
  <1>11. ASSUME NEW p \in DOMAIN T, T[p] = Delimiter
         PROVE  \E i \in DOMAIN gs : to[i] <= p /\ p < to[i] + Len(gs[i])
    <2>1. CASE p <= Len(S)
      <3>1. p \in DOMAIN S /\ S[p] = Delimiter
        BY <1>1, <1>2, <1>3, <1>4, <1>11, <2>1
      <3> PICK i \in DOMAIN fs : at[i] <= p /\ p < at[i] + Len(fs[i])
        BY <3>1 DEF HoldsAt
      <3>2. to[i] = at[i] /\ gs[i] = fs[i] /\ i \in DOMAIN gs
        BY <1>1, <1>5, <1>6, <1>8
      <3> QED BY <3>2
    <2>2. CASE ~ (p <= Len(S))
      <3>1. Len(S) + 1 <= p /\ p < Len(S) + 1 + Len(f)
        BY <1>1, <1>2, <1>4, <2>2
      <3>2. Len(fs) + 1 \in DOMAIN gs BY <1>1, <1>6
      <3> QED BY <1>5, <1>7, <3>1, <3>2
    <2> QED BY <2>1, <2>2
  <1>12. HoldsAt(T, gs, to) BY <1>10, <1>11 DEF HoldsAt
  <1> QED BY <1>9, <1>12 DEF Holds, HoldsAt, T, gs

(* if there is a delimiter in front, there begins the first frame, *)
LEMMA HoldsFirst ==
  ASSUME NEW S \in Seq(Byte), NEW fs \in Seq(Frames), Holds(S, fs),
         S # <<>>, S[1] = Delimiter
  PROVE  /\ fs # <<>> /\ Head(fs) \in Frames /\ Len(Head(fs)) <= Len(S)
         /\ \A j \in 1 .. Len(Head(fs)) : S[j] = Head(fs)[j]
  <1>1. /\ DOMAIN S = 1 .. Len(S) /\ Len(S) \in Nat \ {0}
        /\ DOMAIN fs = 1 .. Len(fs) /\ Len(fs) \in Nat
    BY LenProperties, EmptySeq
  <1> PICK at \in [DOMAIN fs -> DOMAIN S] : HoldsAt(S, fs, at)
    BY DEF Holds, HoldsAt
  <1>2. 1 \in DOMAIN S BY <1>1
  <1> PICK i \in DOMAIN fs : at[i] <= 1 /\ 1 < at[i] + Len(fs[i])
    BY <1>2 DEF HoldsAt
  <1>3. at[i] = 1 BY <1>1
  <1>4. 1 \in DOMAIN fs BY <1>1
  <1>5. i = 1
    <2> SUFFICES ASSUME i # 1 PROVE FALSE OBVIOUS
    <2>1. 1 < i BY <1>1
    <2>2. at[1] + Len(fs[1]) <= at[i] BY <1>4, <2>1 DEF HoldsAt
    <2>3. Len(fs[1]) \in Nat /\ Len(fs[1]) >= 4 BY <1>4, FrameOf
    <2>4. at[1] \in 1 .. Len(S) BY <1>1, <1>4
    <2> QED BY <1>3, <2>2, <2>3, <2>4
  <1>6. fs # <<>> BY <1>4, EmptySeq
  <1>7. Head(fs) = fs[1] BY <1>6, HeadTailProperties
  <1>8. /\ fs[1] \in Frames /\ Len(fs[1]) \in Nat
        /\ DOMAIN fs[1] = 1 .. Len(fs[1])
    BY <1>4, FrameOf
  <1>9. at[1] + Len(fs[1]) <= Len(S) + 1 BY <1>4 DEF HoldsAt
  <1>10. Len(fs[1]) <= Len(S) BY <1>1, <1>3, <1>5, <1>8, <1>9
  <1>11. ASSUME NEW j \in 1 .. Len(fs[1]) PROVE S[j] = fs[1][j]
    <2>1. S[at[1] + j - 1] = fs[1][j] BY <1>4, <1>8 DEF HoldsAt
    <2>2. at[1] + j - 1 = j BY <1>3, <1>5
    <2> QED BY <2>1, <2>2
  <1> QED BY <1>6, <1>7, <1>8, <1>10, <1>11

(* Places in a sequence, and in the rest of it after its first n elements, *)
LEMMA ShiftLeft ==
  ASSUME NEW n \in Nat, NEW r \in Nat, NEW a \in Nat, NEW l \in Nat, l >= 4,
         1 + n <= a, a + l <= n + r + 1
  PROVE  a - n \in 1 .. r /\ a = n + (a - n) /\ (a - n) + l <= r + 1
  OBVIOUS

(* and back, *)
LEMMA ShiftRight ==
  ASSUME NEW n \in Nat, NEW r \in Nat, NEW l \in Nat, NEW t \in 1 .. r,
         t + l <= r + 1, NEW j \in 1 .. l
  PROVE  t + j - 1 \in 1 .. r /\ n + (t + j - 1) = n + t + j - 1
  OBVIOUS

(* and which of them are inside of a frame. *)
LEMMA ShiftWithin ==
  ASSUME NEW n \in Nat, NEW r \in Nat, NEW l \in Nat, NEW t \in Nat,
         NEW p \in 1 .. r, n + t <= n + p, n + p < n + t + l
  PROVE  t <= p /\ p < t + l
  OBVIOUS

(* and when it is taken, the others are left. *)
LEMMA HoldsRest ==
  ASSUME NEW R \in Seq(Byte), NEW fs \in Seq(Frames), fs # <<>>,
         Holds(Head(fs) \o R, fs)
  PROVE  Holds(R, Tail(fs))
  <1> DEFINE f == Head(fs)
             gs == Tail(fs)
             S == f \o R
  <1>1. /\ DOMAIN R = 1 .. Len(R) /\ Len(R) \in Nat
        /\ DOMAIN fs = 1 .. Len(fs) /\ Len(fs) \in Nat \ {0}
    BY LenProperties, EmptySeq
  <1>2. /\ f \in Frames /\ f = fs[1] /\ gs \in Seq(Frames)
        /\ Len(gs) = Len(fs) - 1 /\ \A i \in 1 .. Len(gs) : gs[i] = fs[i + 1]
    BY HeadTailProperties
  <1>3. DOMAIN gs = 1 .. Len(fs) - 1 BY <1>2, LenProperties
  <1> HIDE DEF f, gs
  <1>4. f \in Seq(Byte) /\ Len(f) \in Nat /\ Len(f) >= 4 /\ f[1] = Delimiter
    BY <1>2, FrameShape
  <1> PICK n, r : n = Len(f) /\ r = Len(R) OBVIOUS
  <1>0. n \in Nat /\ n >= 4 /\ r \in Nat BY <1>1, <1>4
  <1>5. /\ S \in Seq(Byte) /\ Len(S) = n + r
        /\ \A i \in 1 .. n + r :
             S[i] = IF i <= n THEN f[i] ELSE R[i - n]
    BY <1>4, ConcatProperties
  <1>6. DOMAIN S = 1 .. n + r BY <1>5, LenProperties
  <1>7. ASSUME NEW p \in 1 .. r
        PROVE  n + p \in DOMAIN S /\ S[n + p] = R[p]
    <2>1. /\ n + p \in 1 .. n + r /\ ~ (n + p <= n)
          /\ n + p - n = p
      BY <1>0
    <2> QED BY <1>5, <1>6, <2>1
  <1>8. Holds(S, fs) BY DEF f
  <1> HIDE DEF S
  <1> PICK at \in [DOMAIN fs -> DOMAIN S] : HoldsAt(S, fs, at)
    BY <1>8 DEF Holds, HoldsAt
  <1>9. at[1] = 1
    <2>0. 1 \in 1 .. n + r /\ 1 <= n BY <1>0
    <2>1. S[1] = Delimiter /\ 1 \in DOMAIN S BY <1>4, <1>5, <1>6, <2>0
    <2> PICK i \in DOMAIN fs : at[i] <= 1 /\ 1 < at[i] + Len(fs[i])
      BY <2>1 DEF HoldsAt
    <2>2. at[i] = 1 BY <1>1, <1>4, <1>6
    <2>3. 1 \in DOMAIN fs BY <1>1
    <2>4. Len(fs[1]) \in Nat /\ Len(fs[1]) >= 4 /\ at[1] \in 1 .. n + r
      BY <1>6, <2>3, FrameOf
    <2>5. 1 < i => at[1] + Len(fs[1]) <= at[i] BY <2>3 DEF HoldsAt
    <2>6. i = 1 BY <1>1, <2>2, <2>4, <2>5
    <2> QED BY <2>2, <2>6
  <1> DEFINE to == [i \in DOMAIN gs |-> at[i + 1] - n]
  <1>10. ASSUME NEW i \in DOMAIN gs
         PROVE  /\ i + 1 \in DOMAIN fs /\ gs[i] = fs[i + 1]
                /\ to[i] = at[i + 1] - n
                /\ to[i] \in 1 .. r /\ at[i + 1] = n + to[i]
                /\ Len(gs[i]) \in Nat /\ DOMAIN gs[i] = 1 .. Len(gs[i])
                /\ to[i] + Len(gs[i]) <= r + 1
    <2>1. i + 1 \in DOMAIN fs /\ gs[i] = fs[i + 1] /\ 1 < i + 1 /\ 1 \in DOMAIN fs
      BY <1>1, <1>2, <1>3
    <2>2. to[i] = at[i + 1] - n OBVIOUS
    <2>3. at[1] + Len(fs[1]) <= at[i + 1] BY <2>1 DEF HoldsAt
    <2>4. at[i + 1] \in 1 .. n + r BY <1>6, <2>1
    <2>5. /\ Len(fs[i + 1]) \in Nat /\ Len(fs[i + 1]) >= 4
          /\ DOMAIN fs[i + 1] = 1 .. Len(fs[i + 1])
      BY <2>1, FrameOf
    <2>6. at[i + 1] + Len(fs[i + 1]) <= n + r + 1
      BY <1>5, <2>1 DEF HoldsAt
    <2> PICK a, l : a = at[i + 1] /\ l = Len(fs[i + 1]) OBVIOUS
    <2>7. /\ a \in Nat /\ l \in Nat /\ l >= 4 /\ 1 + n <= a
          /\ a + l <= n + r + 1
      BY <1>2, <1>9, <2>3, <2>4, <2>5, <2>6
    <2>8. /\ a - n \in 1 .. r /\ a = n + (a - n)
          /\ (a - n) + l <= r + 1
      BY <1>0, <2>7, ShiftLeft
    <2> HIDE DEF to
    <2> QED BY <2>1, <2>2, <2>5, <2>8
  <1>11. to \in [DOMAIN gs -> DOMAIN R]
    <2>1. \A i \in DOMAIN gs : at[i + 1] - n \in DOMAIN R BY <1>1, <1>10
    <2> QED BY <2>1
  <1> HIDE DEF to
  <1>12. ASSUME NEW i \in DOMAIN gs
         PROVE  /\ to[i] + Len(gs[i]) <= r + 1
                /\ \A j \in DOMAIN gs[i] : R[to[i] + j - 1] = gs[i][j]
                /\ \A k \in DOMAIN gs : i < k => to[i] + Len(gs[i]) <= to[k]
    <2>1. ASSUME NEW j \in DOMAIN gs[i] PROVE R[to[i] + j - 1] = gs[i][j]
      <3>1. /\ to[i] + j - 1 \in 1 .. r
            /\ n + (to[i] + j - 1) = n + to[i] + j - 1
        <4>1. /\ to[i] \in 1 .. r /\ to[i] + Len(gs[i]) <= r + 1
              /\ Len(gs[i]) \in Nat /\ j \in 1 .. Len(gs[i])
          BY <1>10
        <4> QED BY <1>0, <4>1, ShiftRight
      <3>2. S[at[i + 1] + j - 1] = gs[i][j] BY <1>10 DEF HoldsAt
      <3>3. S[n + (to[i] + j - 1)] = gs[i][j] BY <1>10, <3>1, <3>2
      <3> QED BY <1>7, <3>1, <3>3
    <2>2. ASSUME NEW k \in DOMAIN gs, i < k PROVE to[i] + Len(gs[i]) <= to[k]
      <3>1. i + 1 < k + 1 BY <1>3, <2>2
      <3>2. at[i + 1] + Len(fs[i + 1]) <= at[k + 1]
        BY <1>10, <3>1 DEF HoldsAt
      <3>3. /\ to[i] \in Nat /\ to[k] \in Nat /\ Len(gs[i]) \in Nat
            /\ n + to[i] + Len(gs[i]) <= n + to[k]
        BY <1>10, <3>2
      <3> QED BY <1>0, <3>3
    <2> QED BY <1>10, <2>1, <2>2
  <1>13. ASSUME NEW p \in DOMAIN R, R[p] = Delimiter
         PROVE  \E i \in DOMAIN gs : to[i] <= p /\ p < to[i] + Len(gs[i])
    <2>1. n + p \in DOMAIN S /\ S[n + p] = Delimiter /\ p \in 1 .. r
      BY <1>1, <1>7, <1>13
    <2> PICK i \in DOMAIN fs :
          at[i] <= n + p /\ n + p < at[i] + Len(fs[i])
      BY <2>1 DEF HoldsAt
    <2>2. i # 1
      <3> SUFFICES ASSUME i = 1 PROVE FALSE OBVIOUS
      <3>1. n + p < 1 + n BY <1>2, <1>9
      <3> QED BY <1>0, <2>1, <3>1
    <2> PICK k : k = i - 1 OBVIOUS
    <2>3. k \in DOMAIN gs /\ k + 1 = i BY <1>1, <1>3, <2>2
    <2>4. n + to[k] <= n + p /\ n + p < n + to[k] + Len(gs[k])
          /\ to[k] \in Nat /\ Len(gs[k]) \in Nat
      BY <1>10, <2>3
    <2>5. to[k] <= p /\ p < to[k] + Len(gs[k])
      BY <1>0, <1>1, <2>1, <2>4, ShiftWithin
    <2> QED BY <2>3, <2>5
  <1>14. HoldsAt(R, gs, to) BY <1>12, <1>13 DEF HoldsAt
  <1> QED BY <1>11, <1>14 DEF Holds, HoldsAt, gs

-----------------------------------------------------------------------------
(* Types *)

(* The rest of a sequence. *)
LEMMA TailKept ==
  ASSUME NEW S, NEW q \in Seq(S), q # <<>>
  PROVE  /\ Tail(q) \in Seq(S) /\ Head(q) \in S
         /\ Len(q) \in Nat \ {0} /\ Len(Tail(q)) = Len(q) - 1
  BY HeadTailProperties, LenProperties, EmptySeq

(* What becomes of ReadFrame when it has a length, or all of a frame. *)
LEMMA FrameReadingType ==
  ASSUME NEW frame \in Seq(Byte)
  PROVE  Finished(frame) \in FrameReading /\ WithLength(frame) \in FrameReading
  <1>1. <<>> \in Seq(Byte) BY EmptySeq
  <1>2. /\ [Searching EXCEPT !.frame = frame] \in FrameReading
        /\ [Searching EXCEPT !.pc = "panic"] \in FrameReading
        /\ [Searching EXCEPT !.pc = "put", !.frame = frame] \in FrameReading
        /\ Searching \in FrameReading
        /\ [pc |-> "body", frame |-> frame, got |-> <<>>] \in FrameReading
    BY <1>1 DEF Searching, FrameReading
  <1>3. Finished(frame) \in FrameReading
    BY <1>2, Zenon DEF Finished
  <1>4. WithLength(frame) \in FrameReading
    BY <1>2, <1>3, Zenon DEF WithLength
  <1> QED BY <1>3, <1>4

LEMMA InitType == Init => TypeInv
  <1> SUFFICES ASSUME Init PROVE TypeInv OBVIOUS
  <1>1. /\ <<>> \in Seq(Byte) /\ <<>> \in Seq(Channels) /\ <<>> \in Seq(Frames)
        /\ Len(<<>>) = 0
    BY EmptySeq
  <1>2. ByteCap \in Nat /\ FrameCap \in Nat BY FrameReaderAssumption
  <1>3. 0 \in Byte /\ 0 \in 0 .. FrameCap /\ 0 <= ByteCap BY <1>2 DEF Byte
  <1>4. rf \in FrameReading BY <1>1 DEF Init, Searching, FrameReading
  <1>5. rb \in [pc: {"read", "have", "off"}, data: Byte]
    BY <1>3 DEF Init, Reading
  <1>6. writer \in [Writers -> Seq(Byte)] /\ RecvCh \in [Kinds -> 0 .. FrameCap]
    BY <1>1, <1>3 DEF Init
  <1> QED BY <1>1, <1>3, <1>4, <1>5, <1>6 DEF Init, TypeInv

LEMMA FramesKept == driver' = driver => Frames' = Frames /\ Writers' = Writers
  BY DEF Frames, Encode, Writers

(* Bytes come to the port. *)
LEMMA PortType ==
  ASSUME TypeInv, NEW w \in Writers,
         WriteRest(w) \/ \E s \in Shapes : WriteFirst(w, s)
  PROVE  TypeInv'
  <1>1. ByteCap \in Nat /\ Len(wire) \in Nat
    BY FrameReaderAssumption, LenProperties DEF TypeInv
  <1>2. Writers' = Writers BY DEF WriteRest, WriteFirst, Writers
  <1>3. ASSUME WriteRest(w) PROVE TypeInv'
    <2>1. /\ writer[w] \in Seq(Byte) /\ writer[w] # <<>>
          /\ Head(writer[w]) \in Byte /\ Tail(writer[w]) \in Seq(Byte)
      BY <1>3, TailKept DEF WriteRest, TypeInv
    <2>2. writer' \in [Writers' -> Seq(Byte)]
      BY <1>2, <1>3, <2>1 DEF WriteRest, TypeInv
    <2>3. wire' \in Seq(Byte) /\ Len(wire') = Len(wire) + 1
      BY <1>3, <2>1, AppendProperties DEF WriteRest, TypeInv
    <2>4. Len(wire') <= ByteCap
      BY <1>1, <1>3, <2>3 DEF WriteRest
    <2> QED BY <1>3, <2>2, <2>3, <2>4, FramesKept
        DEF WriteRest, TypeInv, readVars, ctlVars, otherVars
  <1>4. ASSUME NEW s \in Shapes, WriteFirst(w, s) PROVE TypeInv'
    <2>1. /\ Encode(s) \in Frames /\ Encode(s) \in Seq(Byte)
          /\ Encode(s) # <<>>
      BY FrameShape DEF Frames
    <2> PICK e : e = Encode(s) OBVIOUS
    <2>2. Head(e) \in Byte /\ Tail(e) \in Seq(Byte) /\ e \in Frames
      BY <2>1, TailKept
    <2>3. writer' \in [Writers' -> Seq(Byte)]
      BY <1>2, <1>4, <2>2 DEF WriteFirst, TypeInv
    <2>4. wire' \in Seq(Byte) /\ Len(wire') = Len(wire) + 1
      BY <1>4, <2>2, AppendProperties DEF WriteFirst, TypeInv
    <2>5. Len(wire') <= ByteCap
      BY <1>1, <1>4, <2>4 DEF WriteFirst
    <2>6. Frames' = Frames BY <1>4 DEF WriteFirst, Frames, Encode
    <2>7. due' \in Seq(Frames')
      BY <1>4, <2>2, <2>6, AppendProperties DEF WriteFirst, TypeInv
    <2>8. disturbed' \in BOOLEAN BY <1>4 DEF WriteFirst, TypeInv
    <2> QED BY <1>4, <2>3, <2>4, <2>5, <2>7, <2>8
        DEF WriteFirst, TypeInv, readVars, ctlVars, otherVars
  <1> QED BY <1>3, <1>4

LEMMA ReadByteType ==
  ASSUME TypeInv, ReadByteStep \/ ReadByteReturns
  PROVE  TypeInv'
  <1>1. ByteCap \in Nat /\ Len(wire) \in Nat /\ Len(RecvByteCh) \in Nat
        /\ rb.data \in Byte
    BY FrameReaderAssumption, LenProperties DEF TypeInv
  <1>2. driver' = driver
    BY DEF ReadByteStep, ReadPort, ReadNothing, PutByte, DropByte,
           ReadByteReturns
  <1>3. Frames' = Frames /\ Writers' = Writers BY <1>2, FramesKept
  <1>4. ASSUME ReadPort PROVE TypeInv'
    <2>1. /\ Head(wire) \in Byte /\ Tail(wire) \in Seq(Byte)
          /\ Len(Tail(wire)) = Len(wire) - 1
      BY <1>4, TailKept DEF ReadPort, TypeInv
    <2>2. Len(wire') <= ByteCap BY <1>1, <1>4, <2>1 DEF ReadPort, TypeInv
    <2>3. rb' \in [pc: {"read", "have", "off"}, data: Byte]
      BY <1>4, <2>1 DEF ReadPort
    <2> QED BY <1>3, <1>4, <2>1, <2>2, <2>3
        DEF ReadPort, TypeInv, ctlVars, otherVars
  <1>5. ASSUME ReadNothing PROVE TypeInv'
    BY <1>3, <1>5 DEF ReadNothing, TypeInv, portVars, ctlVars, otherVars
  <1>6. ASSUME PutByte PROVE TypeInv'
    <2>1. RecvByteCh' \in Seq(Byte) /\ Len(RecvByteCh') = Len(RecvByteCh) + 1
      BY <1>1, <1>6, AppendProperties DEF PutByte, TypeInv
    <2>2. Len(RecvByteCh') <= ByteCap BY <1>1, <1>6, <2>1 DEF PutByte
    <2> QED BY <1>3, <1>6, <2>1, <2>2
        DEF PutByte, TypeInv, portVars, ctlVars, otherVars
  <1>7. ASSUME DropByte PROVE TypeInv'
    BY <1>3, <1>7 DEF DropByte, TypeInv, portVars, ctlVars, otherVars
  <1>8. ASSUME ReadByteReturns PROVE TypeInv'
    BY <1>3, <1>8 DEF ReadByteReturns, TypeInv, portVars, ctlVars, otherVars
  <1> QED BY <1>4, <1>5, <1>6, <1>7, <1>8 DEF ReadByteStep

LEMMA TakeByteType ==
  ASSUME TypeInv, TakeByte \/ BytesCancelled
  PROVE  TypeInv'
  <1>1. driver' = driver BY DEF TakeByte, BytesCancelled
  <1>2. Frames' = Frames /\ Writers' = Writers BY <1>1, FramesKept
  <1>3. /\ rf.frame \in Seq(Byte) /\ rf.got \in Seq(Byte) /\ rf \in FrameReading
        /\ RecvByteCh \in Seq(Byte) /\ Len(RecvByteCh) <= ByteCap
    BY DEF TypeInv, FrameReading
  <1>4. ByteCap \in Nat /\ Len(RecvByteCh) \in Nat
    BY <1>3, FrameReaderAssumption, LenProperties
  <1>5. ASSUME TakeByte PROVE TypeInv'
    <2> DEFINE b == Head(RecvByteCh)
               got == Append(rf.got, b)
    <2>1. /\ b \in Byte /\ Tail(RecvByteCh) \in Seq(Byte)
          /\ Len(Tail(RecvByteCh)) = Len(RecvByteCh) - 1
      BY <1>3, <1>5, TailKept DEF TakeByte
    <2>2. Len(RecvByteCh') <= ByteCap /\ RecvByteCh' \in Seq(Byte)
      BY <1>3, <1>4, <1>5, <2>1 DEF TakeByte
    <2>3. /\ Append(rf.frame, b) \in Seq(Byte) /\ got \in Seq(Byte)
          /\ rf.frame \o got \in Seq(Byte)
      BY <1>3, <2>1, AppendProperties, ConcatProperties
    <2>4. /\ WithLength(Append(rf.frame, b)) \in FrameReading
          /\ Finished(rf.frame \o got) \in FrameReading
      BY <2>3, FrameReadingType
    <2>5. rf' \in {rf, [rf EXCEPT !.pc = "length", !.frame = Append(@, b)],
                   WithLength(Append(rf.frame, b)), Finished(rf.frame \o got),
                   [rf EXCEPT !.got = got]}
      BY <1>5, Zenon DEF TakeByte
    <2>6. /\ [rf EXCEPT !.pc = "length", !.frame = Append(@, b)] \in FrameReading
          /\ [rf EXCEPT !.got = got] \in FrameReading
      BY <1>3, <2>3 DEF FrameReading
    <2>7. rf' \in FrameReading BY <1>3, <2>4, <2>5, <2>6
    <2> QED BY <1>2, <1>5, <2>2, <2>7
        DEF TakeByte, TypeInv, portVars, ctlVars, otherVars
  <1>6. ASSUME BytesCancelled PROVE TypeInv'
    <2>1. rf' \in FrameReading
      BY <1>3, <1>6, FrameReadingType DEF BytesCancelled
    <2> QED BY <1>2, <1>6, <2>1
        DEF BytesCancelled, TypeInv, portVars, ctlVars, otherVars
  <1> QED BY <1>5, <1>6

(* A channel of frames is never below 0 and never above its capacity. *)
LEMMA RoomType ==
  ASSUME NEW k \in Kinds, RecvCh \in [Kinds -> 0 .. FrameCap]
  PROVE  /\ RecvCh[k] > 0 => [RecvCh EXCEPT ![k] = @ - 1] \in [Kinds -> 0 .. FrameCap]
         /\ RecvCh[k] < FrameCap =>
              [RecvCh EXCEPT ![k] = @ + 1] \in [Kinds -> 0 .. FrameCap]
  <1>1. FrameCap \in Nat /\ RecvCh[k] \in 0 .. FrameCap
    BY FrameReaderAssumption
  <1>2. RecvCh[k] > 0 => RecvCh[k] - 1 \in 0 .. FrameCap BY <1>1
  <1>3. RecvCh[k] < FrameCap => RecvCh[k] + 1 \in 0 .. FrameCap BY <1>1
  <1> QED BY <1>2, <1>3

LEMMA FrameChannelType ==
  ASSUME TypeInv,
         \/ \E k \in Kinds : PutFrame(k) \/ Full(k) \/ MakeRoom(k) \/ TakeFrame(k)
         \/ ReadFrameReturns
  PROVE  TypeInv'
  <1>1. driver' = driver
    BY DEF PutFrame, Full, MakeRoom, TakeFrame, ReadFrameReturns
  <1>2. Frames' = Frames /\ Writers' = Writers BY <1>1, FramesKept
  <1>3. rf \in FrameReading /\ RecvCh \in [Kinds -> 0 .. FrameCap]
    BY DEF TypeInv
  <1>4. Searching \in FrameReading BY EmptySeq DEF Searching, FrameReading
  <1>5. ASSUME NEW pc \in {"makeRoom", "putAgain", "off"}
        PROVE  [rf EXCEPT !.pc = pc] \in FrameReading
    BY <1>3 DEF FrameReading
  <1>6. ASSUME NEW k \in Kinds, PutFrame(k) PROVE TypeInv'
    <2>1. RecvCh' \in [Kinds -> 0 .. FrameCap]
      BY <1>3, <1>6, RoomType DEF PutFrame
    <2>2. due' \in Seq(Frames)
      BY <1>6, TailKept DEF PutFrame, TypeInv
    <2> QED BY <1>2, <1>4, <1>6, <2>1, <2>2
        DEF PutFrame, TypeInv, portVars, ctlVars, otherVars
  <1>7. ASSUME NEW k \in Kinds, Full(k) PROVE TypeInv'
    BY <1>2, <1>5, <1>7 DEF Full, TypeInv, portVars, ctlVars, otherVars
  <1>8. ASSUME NEW k \in Kinds, MakeRoom(k) PROVE TypeInv'
    <2>1. RecvCh' \in [Kinds -> 0 .. FrameCap]
      BY <1>3, <1>8, RoomType DEF MakeRoom
    <2> QED BY <1>2, <1>5, <1>8, <2>1
        DEF MakeRoom, TypeInv, portVars, ctlVars, otherVars
  <1>9. ASSUME NEW k \in Kinds, TakeFrame(k) PROVE TypeInv'
    <2>1. RecvCh' \in [Kinds -> 0 .. FrameCap]
      BY <1>3, <1>9, RoomType DEF TakeFrame
    <2> QED BY <1>2, <1>9, <2>1
        DEF TakeFrame, TypeInv, portVars, ctlVars, otherVars
  <1>10. ASSUME ReadFrameReturns PROVE TypeInv'
    BY <1>2, <1>5, <1>10
       DEF ReadFrameReturns, TypeInv, portVars, ctlVars, otherVars
  <1> QED BY <1>6, <1>7, <1>8, <1>9, <1>10

LEMMA StopType ==
  ASSUME TypeInv, Stop \/ StopStep \/ Start \/ OtherStart \/ OtherStop
  PROVE  TypeInv'
  <1>1. driver' = driver
    BY DEF Stop, StopStep, ClearLooks, ClearTakes, Cancel, Stopped, Start,
           OtherStart, OtherStop
  <1>2. Frames' = Frames /\ Writers' = Writers BY <1>1, FramesKept
  <1>3. ASSUME Stop PROVE TypeInv'
    <2>1. Cleared \in Seq(Channels) BY DEF Cleared, Channels
    <2> QED BY <1>2, <1>3, <2>1 DEF Stop, TypeInv, portVars, readVars, otherVars
  <1>4. ASSUME ClearLooks PROVE TypeInv'
    <2>1. Tail(ctl.todo) \in Seq(Channels)
      BY <1>4, TailKept DEF ClearLooks, TypeInv
    <2> QED BY <1>2, <1>4, <2>1
        DEF ClearLooks, TypeInv, portVars, readVars, otherVars
  <1>5. ASSUME ClearTakes PROVE TypeInv'
    <2> DEFINE c == Head(ctl.todo)
    <2>1. c \in Channels BY <1>5, TailKept DEF ClearTakes, TypeInv
    <2>2. ByteCap \in Nat /\ Len(RecvByteCh) \in Nat
      BY FrameReaderAssumption, LenProperties DEF TypeInv
    <2>3. RecvByteCh' \in Seq(Byte) /\ Len(RecvByteCh') <= ByteCap
      <3>1. CASE c = "bytes"
        <4>1. RecvByteCh # <<>>
          <5>1. Len(RecvByteCh) > 0 BY <1>5, <3>1 DEF ClearTakes, Length
          <5> QED BY <5>1, EmptySeq
        <4>2. /\ Tail(RecvByteCh) \in Seq(Byte)
              /\ Len(Tail(RecvByteCh)) = Len(RecvByteCh) - 1
          BY <4>1, TailKept DEF TypeInv
        <4>3. RecvByteCh' = Tail(RecvByteCh) BY <1>5, <3>1 DEF ClearTakes
        <4> QED BY <2>2, <4>2, <4>3 DEF TypeInv
      <3>2. CASE c # "bytes" BY <1>5, <3>2 DEF ClearTakes, TypeInv
      <3> QED BY <3>1, <3>2
    <2>4. RecvCh' \in [Kinds -> 0 .. FrameCap]
      <3>1. CASE c = "bytes" BY <1>5, <3>1 DEF ClearTakes, TypeInv
      <3>2. CASE c # "bytes"
        <4>1. c \in Kinds BY <2>1, <3>2 DEF Channels, Kinds
        <4>2. RecvCh[c] > 0 /\ RecvCh' = [RecvCh EXCEPT ![c] = @ - 1]
          BY <1>5, <3>2 DEF ClearTakes, Length
        <4> QED BY <4>1, <4>2, RoomType DEF TypeInv
      <3> QED BY <3>1, <3>2
    <2> HIDE DEF c
    <2> QED BY <1>2, <1>5, <2>3, <2>4
        DEF ClearTakes, TypeInv, portVars, otherVars
  <1>6. ASSUME Cancel PROVE TypeInv'
    BY <1>2, <1>6 DEF Cancel, TypeInv, portVars, readVars, otherVars
  <1>7. ASSUME Stopped PROVE TypeInv'
    BY <1>2, <1>7 DEF Stopped, TypeInv, portVars, readVars, otherVars
  <1>8. ASSUME Start PROVE TypeInv'
    <2>1. Searching \in FrameReading BY EmptySeq DEF Searching, FrameReading
    <2>2. Reading \in [pc: {"read", "have", "off"}, data: Byte]
      BY DEF Reading, Byte
    <2> QED BY <1>2, <1>8, <2>1, <2>2 DEF Start, TypeInv, portVars
  <1>9. ASSUME OtherStart PROVE TypeInv'
    BY <1>2, <1>9 DEF OtherStart, TypeInv, portVars, readVars
  <1>10. ASSUME OtherStop PROVE TypeInv'
    BY <1>2, <1>10 DEF OtherStop, TypeInv, portVars, readVars
  <1> QED BY <1>3, <1>4, <1>5, <1>6, <1>7, <1>8, <1>9, <1>10 DEF StopStep

LEMMA TypeStep == TypeInv /\ [Next]_vars => TypeInv'
  <1> SUFFICES ASSUME TypeInv, [Next]_vars PROVE TypeInv' OBVIOUS
  <1>1. CASE UNCHANGED vars
    <2>1. Frames' = Frames /\ Writers' = Writers BY <1>1, FramesKept DEF vars
    <2> QED BY <1>1, <2>1
        DEF vars, TypeInv, portVars, readVars, ctlVars, otherVars
  <1>2. CASE Next
    BY <1>2, PortType, ReadByteType, TakeByteType, FrameChannelType, StopType
       DEF Next, ReadFrameStep
  <1> QED BY <1>1, <1>2

(* The capacities of the channels are respected, and every part of the     *)
(* reader is in a state that it may be in: xbee/reader.go:96-197,          *)
(* virtual_xbee/reader.go:94-189 and wifi/reader.go:129-239.               *)
THEOREM FrameReaderTypeCorrect == Spec => []TypeOK
  <1>1. TypeInv => TypeOK
    BY DEF TypeInv, TypeOK, FrameReading
  <1> QED BY <1>1, InitType, TypeStep, PTL DEF Spec

-----------------------------------------------------------------------------
(* The stream of bytes *)

(* The parts of the stream are sequences of bytes. *)
LEMMA StreamType ==
  ASSUME TypeInv
  PROVE  /\ rf.frame \in Seq(Byte) /\ rf.got \in Seq(Byte)
         /\ Collected \in Seq(Byte) /\ InHand \in Seq(Byte)
         /\ RecvByteCh \in Seq(Byte) /\ wire \in Seq(Byte)
         /\ Unwritten \in Seq(Byte)
         /\ wire \o Unwritten \in Seq(Byte)
         /\ InHand \o (wire \o Unwritten) \in Seq(Byte)
         /\ Coming \in Seq(Byte) /\ Stream \in Seq(Byte)
  <1>1. /\ rf.frame \in Seq(Byte) /\ rf.got \in Seq(Byte)
        /\ RecvByteCh \in Seq(Byte) /\ wire \in Seq(Byte) /\ rb.data \in Byte
    BY DEF TypeInv, FrameReading
  <1>2. Unwritten \in Seq(Byte)
    <2>1. CASE Midst
      <3>1. (CHOOSE w \in Writers : writer[w] # <<>>) \in Writers
        BY <2>1 DEF Midst
      <3> QED BY <2>1, <3>1 DEF Unwritten, TypeInv
    <2>2. CASE ~Midst BY <2>2, EmptySeq DEF Unwritten
    <2> QED BY <2>1, <2>2
  <1>3. InHand \in Seq(Byte) BY <1>1, Single, EmptySeq DEF InHand
  <1>4. Collected \in Seq(Byte) BY <1>1, ConcatProperties DEF Collected
  <1>5. wire \o Unwritten \in Seq(Byte) BY <1>1, <1>2, ConcatProperties
  <1>6. InHand \o (wire \o Unwritten) \in Seq(Byte)
    BY <1>3, <1>5, ConcatProperties
  <1>7. Coming \in Seq(Byte) BY <1>1, <1>6, ConcatProperties DEF Coming
  <1>8. Stream \in Seq(Byte) BY <1>4, <1>7, ConcatProperties DEF Stream
  <1> QED BY <1>1, <1>2, <1>3, <1>4, <1>5, <1>6, <1>7, <1>8

(* CHOOSE finds the only writer that is inside of a frame. *)
LEMMA ChooseOnly ==
  ASSUME NEW W, NEW f, NEW w \in W, \A v \in W \ {w} : f[v] = <<>>
  PROVE  (IF \E v \in W : f[v] # <<>> THEN f[CHOOSE v \in W : f[v] # <<>>]
          ELSE <<>>) = f[w]
  <1>1. CASE f[w] = <<>>
    <2>1. ~ \E v \in W : f[v] # <<>> BY <1>1
    <2> QED BY <1>1, <2>1
  <1>2. CASE f[w] # <<>>
    <2>1. \A v \in W : f[v] # <<>> <=> v = w BY <1>2
    <2>2. (CHOOSE v \in W : f[v] # <<>>) = w BY <2>1
    <2> QED BY <1>2, <2>2
  <1> QED BY <1>1, <1>2

(* Between frames nothing is left to write. *)
LEMMA Quiet ==
  ASSUME ~Midst
  PROVE  Unwritten = <<>> /\ \A w \in Writers : writer[w] = <<>>
  BY DEF Midst, Unwritten

(* Associativity, in a form that is used where it is asked for. *)
Regroups(a, b, c) == (a \o b) \o c = a \o (b \o c) /\ a \o b \in Seq(Byte)

LEMMA Associative == \A a, b, c \in Seq(Byte) : Regroups(a, b, c)
  BY ConcatAssociative, ConcatProperties DEF Regroups

AddsLast(a, b, c, d, e) ==
  a \o (b \o (c \o (d \o e))) = (a \o (b \o (c \o d))) \o e

LEMMA FiveParts ==
  ASSUME NEW a \in Seq(Byte), NEW b \in Seq(Byte), NEW c \in Seq(Byte),
         NEW d \in Seq(Byte), NEW e \in Seq(Byte)
  PROVE  AddsLast(a, b, c, d, e)
  <1>1. Regroups(c, d, e) BY Associative
  <1>2. PICK x \in Seq(Byte) : x = c \o d BY <1>1 DEF Regroups
  <1>3. Regroups(b, x, e) BY Associative
  <1>4. PICK y \in Seq(Byte) : y = b \o x BY <1>3 DEF Regroups
  <1>5. Regroups(a, y, e) BY Associative
  <1>6. c \o (d \o e) = x \o e BY <1>1, <1>2 DEF Regroups
  <1>7. b \o (x \o e) = y \o e BY <1>3, <1>4 DEF Regroups
  <1>8. a \o (y \o e) = (a \o y) \o e BY <1>5 DEF Regroups
  <1> QED BY <1>2, <1>4, <1>6, <1>7, <1>8 DEF AddsLast

-----------------------------------------------------------------------------
(* Steps that keep the stream whole *)

(* What ReadFrame has begun stays begun when due grows at its end. *)
LEMMA BegunKept ==
  ASSUME Begun, UNCHANGED <<driver, rf>>, due # <<>> => Head(due') = Head(due),
         due # <<>> => due' # <<>>
  PROVE  Begun'
  BY DEF Begun, Rest

(* At the start the stream is empty. *)
LEMMA StreamInit == Init => StreamInv
  <1> SUFFICES ASSUME Init PROVE StreamInv OBVIOUS
  <1>1. rf.frame = <<>> /\ rf.got = <<>> /\ rf.pc = "search"
    BY DEF Init, Searching
  <1>2. ~Midst BY DEF Init, Midst
  <1>3. InHand = <<>> BY DEF Init, Reading, InHand
  <1>4. <<>> \o <<>> = <<>> BY EmptySeq, ConcatEmptySeq
  <1>5. Stream = <<>>
    BY <1>1, <1>3, <1>2, <1>4, Quiet DEF Init, Stream, Collected, Coming
  <1>6. Holds(<<>>, <<>>)
    <2>1. DOMAIN <<>> = {} OBVIOUS
    <2> DEFINE at == [i \in {} |-> i]
    <2>2. at \in [DOMAIN <<>> -> DOMAIN <<>>] BY <2>1
    <2> QED BY <2>1, <2>2 DEF Holds, HoldsAt
  <1>7. OneMidst BY DEF Init, OneMidst
  <1>8. Begun BY <1>1 DEF Begun
  <1> QED BY <1>1, <1>5, <1>6, <1>7, <1>8 DEF Init, StreamInv, Reading

(* A new frame comes after all others of the stream, *)
LEMMA WriteFirstStream ==
  ASSUME TypeInv, StreamInv, NEW w \in Writers, NEW s \in Shapes,
         WriteFirst(w, s), ~disturbed'
  PROVE  StreamInv'
  <1> PICK e : e = Encode(s) OBVIOUS
  <1>1. e \in Frames /\ e \in Seq(Byte) /\ e # <<>> /\ Len(e) >= 4
        /\ Len(e) \in Nat
    BY FrameShape DEF Frames
  <1>2. /\ ~Midst /\ wire' = Append(wire, Head(e))
        /\ writer' = [writer EXCEPT ![w] = Tail(e)]
        /\ due' = Append(due, e)
        /\ UNCHANGED <<driver, readVars, ctlVars>>
    BY DEF WriteFirst
  <1>3. writer \in [Writers -> Seq(Byte)] /\ due \in Seq(Frames)
    BY DEF TypeInv
  <1>4. Writers' = Writers BY <1>2, FramesKept
  <1>5. Unwritten = <<>> /\ \A v \in Writers : writer[v] = <<>>
    BY <1>2, Quiet
  <1>6. /\ writer'[w] = Tail(e) /\ \A v \in Writers \ {w} : writer'[v] = <<>>
    BY <1>2, <1>3, <1>5
  <1>7. OneMidst' BY <1>4, <1>6 DEF OneMidst
  <1>8. Unwritten' = Tail(e)
    <2>1. /\ w \in Writers' /\ \A v \in Writers' \ {w} : writer'[v] = <<>>
      BY <1>4, <1>6
    <2> QED BY <1>6, <2>1, ChooseOnly DEF Unwritten, Midst
  <1>9. UNCHANGED <<rf, rb, RecvByteCh, cancelled, ctl>>
    BY <1>2 DEF readVars, ctlVars
  <1>10. wire' \o Unwritten' = wire \o e
    <2>1. wire \in Seq(Byte) BY StreamType
    <2>2. wire \o e = Append(wire, Head(e)) \o Tail(e)
      BY <1>1, <2>1, HeadMoves
    <2> QED BY <1>2, <1>8, <2>2
  <1>11. Stream' = Stream \o e
    <2>1. Stream' = Collected \o (RecvByteCh \o (InHand \o (wire \o e)))
      BY <1>9, <1>10 DEF Stream, Coming, Collected, InHand
    <2>2. Stream = Collected \o (RecvByteCh \o (InHand \o wire))
      BY <1>5, StreamType, ConcatEmptySeq DEF Stream, Coming
    <2>3. Collected \o (RecvByteCh \o (InHand \o (wire \o e)))
            = (Collected \o (RecvByteCh \o (InHand \o wire))) \o e
      <3>1. /\ Collected \in Seq(Byte) /\ RecvByteCh \in Seq(Byte)
            /\ InHand \in Seq(Byte) /\ wire \in Seq(Byte)
        BY StreamType
      <3>2. AddsLast(Collected, RecvByteCh, InHand, wire, e)
        BY <1>1, <3>1, FiveParts
      <3> QED BY <3>2 DEF AddsLast
    <2> QED BY <2>1, <2>2, <2>3
  <1>12. Holds(Stream', due')
    BY <1>1, <1>2, <1>3, <1>11, StreamType, HoldsFrame DEF StreamInv
  <1>13. due' # <<>> /\ (due # <<>> => Head(due') = Head(due))
    BY <1>1, <1>2, <1>3, AppendProperties, HeadTailAppend
  <1>14. Begun' BY <1>2, <1>9, <1>13, BegunKept DEF StreamInv
  <1> QED BY <1>7, <1>9, <1>12, <1>14 DEF StreamInv

(* and the rest of its bytes move on to the port. *)
LEMMA WriteRestStream ==
  ASSUME TypeInv, StreamInv, NEW w \in Writers, WriteRest(w)
  PROVE  StreamInv'
  <1>1. /\ writer[w] # <<>> /\ wire' = Append(wire, Head(writer[w]))
        /\ writer' = [writer EXCEPT ![w] = Tail(writer[w])]
        /\ UNCHANGED <<driver, readVars, ctlVars, due>>
    BY DEF WriteRest
  <1>2. writer \in [Writers -> Seq(Byte)] BY DEF TypeInv
  <1>3. Writers' = Writers BY <1>1, FramesKept
  <1>4. \A v \in Writers \ {w} : writer[v] = <<>>
    BY <1>1 DEF StreamInv, OneMidst
  <1>5. writer'[w] = Tail(writer[w])
        /\ \A v \in Writers \ {w} : writer'[v] = <<>>
    BY <1>1, <1>2, <1>4
  <1>6. OneMidst' BY <1>3, <1>5 DEF OneMidst
  <1>7. Unwritten = writer[w] BY <1>4, ChooseOnly DEF Unwritten, Midst
  <1>8. Unwritten' = Tail(writer[w])
    <2>1. /\ w \in Writers' /\ \A v \in Writers' \ {w} : writer'[v] = <<>>
      BY <1>3, <1>5
    <2> QED BY <1>5, <2>1, ChooseOnly DEF Unwritten, Midst
  <1>9. UNCHANGED <<rf, rb, RecvByteCh, cancelled, ctl>>
    BY <1>1 DEF readVars, ctlVars
  <1>10. wire' \o Unwritten' = wire \o Unwritten
    BY <1>1, <1>2, <1>7, <1>8, HeadMoves, StreamType
  <1>11. Stream' = Stream
    BY <1>9, <1>10 DEF Stream, Coming, Collected, InHand
  <1>12. Begun' BY <1>1, <1>9, BegunKept DEF StreamInv
  <1> QED BY <1>1, <1>6, <1>9, <1>11, <1>12 DEF StreamInv

(* A step of ReadByte leaves the writers and ReadFrame alone. *)
LEMMA OthersKept ==
  ASSUME StreamInv, UNCHANGED <<driver, writer, rf, due, cancelled, ctl>>
  PROVE  /\ Begun' /\ OneMidst' /\ Unwritten' = Unwritten
         /\ ~cancelled' /\ ctl'.pc = "running"
         /\ rf'.pc \notin {"off", "panic"} /\ Collected' = Collected
  <1>1. Writers' = Writers BY FramesKept
  <1>2. OneMidst' BY <1>1 DEF StreamInv, OneMidst
  <1>3. Unwritten' = Unwritten BY <1>1 DEF Unwritten, Midst
  <1>4. Begun' BY BegunKept DEF StreamInv
  <1> QED BY <1>2, <1>3, <1>4 DEF StreamInv, Collected

(* ReadByte takes a byte out of the port, *)
LEMMA ReadPortStream ==
  ASSUME TypeInv, StreamInv, ReadPort
  PROVE  StreamInv'
  <1>1. /\ rb.pc = "read" /\ wire # <<>> /\ wire' = Tail(wire)
        /\ rb' = [pc |-> "have", data |-> Head(wire)]
        /\ UNCHANGED <<driver, writer, rf, due, cancelled, ctl, RecvByteCh>>
    BY DEF ReadPort, ctlVars
  <1>2. InHand = <<>> /\ InHand' = <<Head(wire)>> BY <1>1 DEF InHand
  <1>3. wire = <<Head(wire)>> \o Tail(wire) /\ Tail(wire) \in Seq(Byte)
        /\ <<Head(wire)>> \in Seq(Byte)
    BY <1>1, StreamType, HeadMoves, Single
  <1>4. InHand \o (wire \o Unwritten) = InHand' \o (wire' \o Unwritten)
    <2>1. InHand \o (wire \o Unwritten) = wire \o Unwritten
      BY <1>2, StreamType, ConcatEmptySeq
    <2>2. (<<Head(wire)>> \o Tail(wire)) \o Unwritten
            = <<Head(wire)>> \o (Tail(wire) \o Unwritten)
      <3>1. PICK h \in Seq(Byte) : h = <<Head(wire)>> BY <1>3
      <3>2. PICK t \in Seq(Byte) : t = Tail(wire) BY <1>3
      <3>3. Unwritten \in Seq(Byte) BY StreamType
      <3>4. (h \o t) \o Unwritten = h \o (t \o Unwritten)
        BY <3>3, Associative DEF Regroups
      <3> QED BY <3>1, <3>2, <3>4
    <2> QED BY <1>1, <1>2, <1>3, <2>1, <2>2
  <1>5. /\ Begun' /\ OneMidst' /\ Unwritten' = Unwritten
        /\ ~cancelled' /\ ctl'.pc = "running"
        /\ rf'.pc \notin {"off", "panic"} /\ Collected' = Collected
    BY <1>1, OthersKept
  <1>6. Stream' = Stream BY <1>1, <1>4, <1>5 DEF Stream, Coming
  <1> QED BY <1>1, <1>5, <1>6 DEF StreamInv

(* and puts it into RecvByteCh. *)
LEMMA PutByteStream ==
  ASSUME TypeInv, StreamInv, PutByte
  PROVE  StreamInv'
  <1>1. /\ rb.pc = "have" /\ RecvByteCh' = Append(RecvByteCh, rb.data)
        /\ rb' = [rb EXCEPT !.pc = "read"]
        /\ UNCHANGED <<driver, writer, rf, due, cancelled, ctl, wire>>
    BY DEF PutByte, ctlVars, portVars
  <1>2. InHand = <<rb.data>> /\ InHand' = <<>> /\ rb.data \in Byte
        /\ rb'.pc = "read"
    BY <1>1 DEF InHand, TypeInv
  <1>3. PICK X \in Seq(Byte) : X = wire \o Unwritten BY StreamType
  <1>4. RecvByteCh' \o (<<>> \o X) = RecvByteCh \o (<<rb.data>> \o X)
    <2>1. Append(RecvByteCh, rb.data) = RecvByteCh \o <<rb.data>>
      BY <1>2, StreamType, AppendIsConcat
    <2>2. (RecvByteCh \o <<rb.data>>) \o X = RecvByteCh \o (<<rb.data>> \o X)
      <3>1. PICK h \in Seq(Byte) : h = <<rb.data>> BY <1>2, Single
      <3>2. RecvByteCh \in Seq(Byte) BY StreamType
      <3>3. (RecvByteCh \o h) \o X = RecvByteCh \o (h \o X)
        BY <3>2, Associative DEF Regroups
      <3> QED BY <3>1, <3>3
    <2>3. <<>> \o X = X BY ConcatEmptySeq
    <2> QED BY <1>1, <2>1, <2>2, <2>3
  <1>5. /\ Begun' /\ OneMidst' /\ Unwritten' = Unwritten
        /\ ~cancelled' /\ ctl'.pc = "running"
        /\ rf'.pc \notin {"off", "panic"} /\ Collected' = Collected
    BY <1>1, OthersKept
  <1>6. Stream' = Stream BY <1>1, <1>2, <1>3, <1>4, <1>5 DEF Stream, Coming
  <1> QED BY <1>1, <1>2, <1>5, <1>6 DEF StreamInv

(* A read that brings nothing repeats the last byte. That does no harm     *)
(* between frames, if the byte is no delimiter.                            *)
LEMMA ReadNothingStream ==
  ASSUME TypeInv, StreamInv, ReadNothing, ~disturbed'
  PROVE  StreamInv'
  <1>1. /\ rb.pc = "read" /\ wire = <<>> /\ wire' = wire
        /\ rb' = [rb EXCEPT !.pc = "have"]
        /\ ~Midst /\ rb.data # Delimiter
        /\ UNCHANGED <<driver, writer, rf, due, cancelled, ctl, RecvByteCh>>
    BY DEF ReadNothing, ctlVars, portVars
  <1>2. InHand = <<>> /\ InHand' = <<rb.data>> /\ rb.data \in Byte
        /\ rb'.pc = "have"
    BY <1>1 DEF InHand, TypeInv
  <1>3. Unwritten = <<>> BY <1>1, Quiet
  <1>4. /\ Begun' /\ OneMidst' /\ Unwritten' = Unwritten
        /\ ~cancelled' /\ ctl'.pc = "running"
        /\ rf'.pc \notin {"off", "panic"} /\ Collected' = Collected
    BY <1>1, OthersKept
  <1>a. PICK d : d = <<rb.data>> OBVIOUS
  <1>5. <<>> \in Seq(Byte) /\ d \in Seq(Byte) BY <1>2, <1>a, EmptySeq, Single
  <1>6. <<>> \o <<>> = <<>> /\ d \o <<>> = d /\ <<>> \o d = d
    BY <1>5, ConcatEmptySeq
  <1>7. Stream = Collected \o (RecvByteCh \o <<>>)
    BY <1>1, <1>2, <1>3, <1>6 DEF Stream, Coming
  <1>8. Stream' = Collected \o (RecvByteCh \o d)
    BY <1>1, <1>2, <1>3, <1>4, <1>6, <1>a DEF Stream, Coming
  <1>9. Stream' = Stream \o d
    <2>1. RecvByteCh \o <<>> = RecvByteCh BY StreamType, ConcatEmptySeq
    <2>2. (Collected \o RecvByteCh) \o d = Collected \o (RecvByteCh \o d)
      <3>1. Regroups(Collected, RecvByteCh, d)
        BY <1>5, StreamType, Associative
      <3> QED BY <3>1 DEF Regroups
    <2> QED BY <1>7, <1>8, <2>1, <2>2
  <1>10. Holds(Stream', due')
    <2>1. due \in Seq(Frames) BY DEF TypeInv
    <2> QED BY <1>1, <1>2, <1>9, <1>a, <2>1, StreamType, HoldsJunk DEF StreamInv
  <1> QED BY <1>2, <1>4, <1>10 DEF StreamInv

-----------------------------------------------------------------------------
(* ReadFrame takes the bytes of the first frame *)

(* A byte that ReadFrame takes is the next of the stream. *)
LEMMA TakenByte ==
  ASSUME TypeInv, RecvByteCh # <<>>, RecvByteCh' = Tail(RecvByteCh),
         UNCHANGED <<driver, wire, writer, rb>>
  PROVE  /\ Head(RecvByteCh) \in Byte /\ Unwritten' = Unwritten
         /\ Append(Collected, Head(RecvByteCh)) \in Seq(Byte)
         /\ Coming' \in Seq(Byte)
         /\ Stream = Append(Collected, Head(RecvByteCh)) \o Coming'
  <1>1. Writers' = Writers BY FramesKept
  <1>2. Unwritten' = Unwritten BY <1>1 DEF Unwritten, Midst
  <1>3. PICK X \in Seq(Byte) : X = InHand \o (wire \o Unwritten)
    BY StreamType
  <1>4. Coming = RecvByteCh \o X BY <1>3 DEF Coming
  <1>5. Coming' = Tail(RecvByteCh) \o X BY <1>2, <1>3 DEF Coming, InHand
  <1>6. Collected \in Seq(Byte) /\ RecvByteCh \in Seq(Byte) BY StreamType
  <1>7. PICK c \in Seq(Byte) : c = Append(Collected, Head(RecvByteCh))
    BY <1>6, HeadMoves
  <1>8. PICK t \in Seq(Byte) : t = Tail(RecvByteCh) BY <1>6, HeadMoves
  <1>9. Head(RecvByteCh) \in Byte /\ Collected \o RecvByteCh = c \o t
    BY <1>6, <1>7, <1>8, HeadMoves
  <1>10. Regroups(Collected, RecvByteCh, X) /\ Regroups(c, t, X)
    BY <1>6, Associative
  <1>11. t \o X \in Seq(Byte) BY ConcatProperties
  <1>12. Collected \o (RecvByteCh \o X) = c \o (t \o X)
    BY <1>9, <1>10 DEF Regroups
  <1> QED BY <1>2, <1>4, <1>5, <1>7, <1>8, <1>9, <1>11, <1>12 DEF Stream

(* If what was collected begins with a delimiter, it and what comes begin  *)
(* with the first frame that is due.                                       *)
LEMMA BeginsFrame ==
  ASSUME NEW fs \in Seq(Frames), NEW p \in Seq(Byte), NEW r \in Seq(Byte),
         Holds(p \o r, fs), p # <<>>, p[1] = Delimiter
  PROVE  /\ fs # <<>> /\ Head(fs) \in Frames
         /\ Len(p) >= 2 => p[2] = Head(fs)[2]
         /\ Len(p) = Len(Head(fs)) => p = Head(fs)
  <1> PICK S : S = p \o r OBVIOUS
  <1>1. Len(p) \in Nat \ {0} /\ Len(r) \in Nat BY LenProperties, EmptySeq
  <1>2. /\ S \in Seq(Byte) /\ Len(S) = Len(p) + Len(r)
        /\ \A i \in 1 .. Len(p) + Len(r) :
             S[i] = IF i <= Len(p) THEN p[i] ELSE r[i - Len(p)]
    BY ConcatProperties
  <1>3. ASSUME NEW i \in 1 .. Len(p) PROVE S[i] = p[i]
    <2>1. i \in 1 .. Len(p) + Len(r) /\ i <= Len(p) BY <1>1
    <2> QED BY <1>2, <2>1
  <1>4. S # <<>> /\ S[1] = Delimiter
    <2>1. 1 \in 1 .. Len(p) /\ Len(S) # 0 BY <1>1, <1>2
    <2> QED BY <1>3, <2>1, EmptySeq
  <1>5. PICK f : f = Head(fs) OBVIOUS
  <1>6. /\ fs # <<>> /\ f \in Frames /\ Len(f) <= Len(S)
        /\ \A j \in 1 .. Len(f) : S[j] = f[j]
    BY <1>2, <1>4, <1>5, HoldsFirst
  <1>7. f \in Seq(Byte) /\ Len(f) \in Nat /\ Len(f) >= 4
    BY <1>6, FrameShape
  <1>8. ASSUME Len(p) >= 2 PROVE p[2] = f[2]
    <2>1. 2 \in 1 .. Len(p) /\ 2 \in 1 .. Len(f) BY <1>1, <1>7, <1>8
    <2> QED BY <1>3, <1>6, <2>1
  <1>9. ASSUME Len(p) = Len(f) PROVE p = f
    <2>1. ASSUME NEW i \in 1 .. Len(p) PROVE p[i] = f[i]
      BY <1>3, <1>6, <1>9
    <2> QED BY <1>7, <1>9, <2>1, SeqEqual
  <1> QED BY <1>5, <1>6, <1>8, <1>9

(* A frame of its full length is put into its channel. *)
LEMMA FinishedFrame ==
  ASSUME NEW f \in Frames
  PROVE  Finished(f) = [Searching EXCEPT !.pc = "put", !.frame = f]
  <1>1. ~ (Len(f) < 3) /\ Validated(f) /\ KindOf(f) # {}
    BY FrameShape
  <1>2. /\ ~ (driver = "xbee" /\ Len(f) < 3) /\ ~ (driver = "vxbee" /\ Len(f) < 3)
        /\ Validated(f) /\ KindOf(f) # {}
    BY <1>1
  <1> HIDE DEF Searching
  <1> QED BY <1>2, Zenon DEF Finished

(* ReadFrame skips a byte that is no delimiter, or goes on with the first  *)
(* frame that is due.                                                      *)
LEMMA TakeByteStream ==
  ASSUME TypeInv, StreamInv, TakeByte
  PROVE  StreamInv'
  <1> PICK b : b = Head(RecvByteCh) OBVIOUS
  <1>1. /\ RecvByteCh # <<>> /\ RecvByteCh' = Tail(RecvByteCh)
        /\ UNCHANGED <<driver, wire, writer, rb, due, cancelled, ctl>>
        /\ \/ /\ rf.pc = "search"
              /\ rf' = IF b = Delimiter
                       THEN [rf EXCEPT !.pc = "length",
                                       !.frame = Append(rf.frame, b)]
                       ELSE rf
           \/ /\ rf.pc = "length"
              /\ rf' = WithLength(Append(rf.frame, b))
           \/ /\ rf.pc = "body"
              /\ rf' = IF Len(Append(rf.got, b)) = Rest(rf.frame[2])
                       THEN Finished(rf.frame \o Append(rf.got, b))
                       ELSE [rf EXCEPT !.got = Append(rf.got, b)]
    BY DEF TakeByte, portVars, ctlVars
  <1>2. /\ b \in Byte /\ Append(Collected, b) \in Seq(Byte)
        /\ Coming' \in Seq(Byte) /\ Stream = Append(Collected, b) \o Coming'
    BY <1>1, TakenByte
  <1>3. Writers' = Writers BY <1>1, FramesKept
  <1>4. OneMidst' BY <1>1, <1>3 DEF StreamInv, OneMidst
  <1>5. /\ rf.frame \in Seq(Byte) /\ rf.got \in Seq(Byte) /\ rf \in FrameReading
        /\ due \in Seq(Frames) /\ <<>> \in Seq(Byte)
    BY EmptySeq DEF TypeInv, FrameReading
  <1>6. Holds(Append(Collected, b) \o Coming', due) BY <1>2 DEF StreamInv
  <1>7. ASSUME Holds(Stream', due), Begun', rf'.pc \notin {"off", "panic"}
        PROVE  StreamInv'
    BY <1>1, <1>4, <1>7 DEF StreamInv
  <1>8. CASE rf.pc = "search"
    <2>1. rf.frame = <<>> /\ rf.got = <<>> BY <1>8 DEF StreamInv, Begun
    <2>2. Collected = <<>> BY <1>5, <2>1, ConcatEmptySeq DEF Collected
    <2>3. Append(<<>>, b) = <<b>> OBVIOUS
    <2>4. CASE b = Delimiter
      <3>1. rf' = [rf EXCEPT !.pc = "length", !.frame = <<Delimiter>>]
        BY <1>1, <1>8, <2>1, <2>3, <2>4
      <3>2. rf'.pc = "length" /\ rf'.frame = <<Delimiter>> /\ rf'.got = <<>>
        BY <1>5, <2>1, <3>1 DEF FrameReading
      <3>3. Begun' BY <3>2 DEF Begun
      <3>4. Collected' = <<Delimiter>>
        <4>1. <<Delimiter>> \in Seq(Byte) BY <1>2, <2>4, Single
        <4> QED BY <3>2, <4>1, ConcatEmptySeq DEF Collected
      <3>5. Stream' = Append(Collected, b) \o Coming'
        BY <2>2, <2>3, <2>4, <3>4 DEF Stream
      <3> QED BY <1>6, <1>7, <3>2, <3>3, <3>5
    <2>5. CASE b # Delimiter
      <3>1. rf' = rf BY <1>1, <1>8, <2>5
      <3>2. Begun' BY <1>1, <3>1, BegunKept DEF StreamInv
      <3>3. Stream' = Coming'
        <4>1. Collected' = <<>> BY <2>2, <3>1 DEF Collected
        <4> QED BY <1>2, <4>1, ConcatEmptySeq DEF Stream
      <3>4. Holds(<<b>> \o Coming', due) BY <1>6, <2>2, <2>3
      <3>5. Holds(Coming', due) BY <1>2, <1>5, <2>5, <3>4, HoldsSkip
      <3> QED BY <1>7, <1>8, <3>1, <3>2, <3>3, <3>5
    <2> QED BY <2>4, <2>5
  <1>9. CASE rf.pc = "length"
    <2>1. rf.frame = <<Delimiter>> /\ rf.got = <<>>
      BY <1>9 DEF StreamInv, Begun
    <2>2. Collected = <<Delimiter>>
      BY <1>5, <2>1, ConcatEmptySeq DEF Collected
    <2>3. PICK F : F = Append(rf.frame, b) OBVIOUS
    <2>4. /\ F \in Seq(Byte) /\ Len(F) = 2 /\ F # <<>> /\ F[1] = Delimiter
          /\ F[2] = b
      <3>1. Delimiter \in Byte BY FrameReaderAssumption DEF Byte
      <3>2. F = Append(<<Delimiter>>, b) BY <2>1, <2>3
      <3>3. PICK q \in Seq(Byte) : q = <<Delimiter>> BY <3>1, Single
      <3>4. Len(q) = 1 /\ q[1] = Delimiter BY <3>1, <3>3, Single
      <3> QED BY <1>2, <3>2, <3>3, <3>4, Second
    <2>5. due # <<>> /\ Head(due) \in Frames /\ F[2] = Head(due)[2]
      <3>1. Holds(F \o Coming', due) BY <1>6, <2>1, <2>2, <2>3
      <3>2. Len(F) >= 2 BY <2>4
      <3> QED BY <1>2, <1>5, <2>4, <3>1, <3>2, BeginsFrame
    <2>6. Rest(F[2]) \in Int /\ Rest(F[2]) > 0 BY <2>5, FrameShape
    <2>7. rf' = [pc |-> "body", frame |-> F, got |-> <<>>]
      <3>1. ~ (Len(F) < 2) /\ Rest(F[2]) # 0 BY <2>4, <2>6
      <3>2. rf' = WithLength(F) BY <1>1, <1>9, <2>3
      <3> QED BY <3>1, <3>2, Zenon DEF WithLength
    <2>8. Begun'
      <3>1. Rest(F[2])' = Rest(F[2]) BY <1>1 DEF Rest
      <3>2. Len(<<>>) < Rest(F[2]) BY <2>6
      <3>3. Len(rf'.got) < Rest(rf.frame[2])'
        BY <1>1, <2>7, <3>2 DEF Rest
      <3> QED BY <2>4, <2>7, <3>3 DEF Begun
    <2>9. Stream' = F \o Coming'
      <3>1. Collected' = F BY <2>4, <2>7, ConcatEmptySeq DEF Collected
      <3> QED BY <3>1 DEF Stream
    <2> QED BY <1>6, <1>7, <2>1, <2>2, <2>3, <2>7, <2>8, <2>9
  <1>10. CASE rf.pc = "body"
    <2>1. /\ Len(rf.frame) = 2 /\ rf.frame[1] = Delimiter
          /\ Len(rf.got) < Rest(rf.frame[2])
      BY <1>10 DEF StreamInv, Begun
    <2>2. PICK got : got = Append(rf.got, b) OBVIOUS
    <2>3. got \in Seq(Byte) /\ Len(got) = Len(rf.got) + 1 /\ Len(rf.got) \in Nat
      BY <1>2, <1>5, <2>2, AppendProperties, LenProperties
    <2>4. PICK P : P = rf.frame \o got OBVIOUS
    <2>5. /\ P \in Seq(Byte) /\ Len(P) = 2 + Len(got)
          /\ P[1] = Delimiter /\ P[2] = rf.frame[2] /\ P # <<>>
      <3>1. /\ P \in Seq(Byte) /\ Len(P) = Len(rf.frame) + Len(got)
            /\ \A i \in 1 .. Len(rf.frame) + Len(got) :
                 P[i] = IF i <= Len(rf.frame) THEN rf.frame[i]
                        ELSE got[i - Len(rf.frame)]
        BY <1>5, <2>3, <2>4, ConcatProperties
      <3>2. /\ Len(P) = 2 + Len(got)
            /\ \A i \in 1 .. 2 + Len(got) : i <= 2 => P[i] = rf.frame[i]
        BY <2>1, <3>1
      <3>3. 1 \in 1 .. 2 + Len(got) /\ 2 \in 1 .. 2 + Len(got) /\ Len(P) # 0
        BY <2>3, <3>2
      <3> QED BY <2>1, <3>1, <3>2, <3>3, EmptySeq
    <2>6. P = Append(Collected, b)
      <3>1. got = rf.got \o <<b>> BY <1>2, <1>5, <2>2, AppendIsConcat
      <3>2. Append(Collected, b) = Collected \o <<b>>
        BY <1>2, AppendIsConcat, StreamType
      <3>3. PICK z \in Seq(Byte) : z = <<b>> BY <1>2, Single
      <3>4. Regroups(rf.frame, rf.got, z) BY <1>5, Associative
      <3> QED BY <2>4, <3>1, <3>2, <3>3, <3>4 DEF Regroups, Collected
    <2>7. /\ due # <<>> /\ Head(due) \in Frames /\ P[2] = Head(due)[2]
          /\ Len(P) = Len(Head(due)) => P = Head(due)
      <3>1. Len(P) >= 2 BY <2>3, <2>5
      <3> QED BY <1>2, <1>5, <1>6, <2>5, <2>6, <3>1, BeginsFrame
    <2>8. /\ Rest(rf.frame[2]) = Len(Head(due)) - 2 /\ Len(Head(due)) \in Nat
      BY <2>5, <2>7, FrameShape
    <2>9. CASE Len(got) = Rest(rf.frame[2])
      <3>1. P = Head(due) BY <2>3, <2>5, <2>7, <2>8, <2>9
      <3>2. rf' = [Searching EXCEPT !.pc = "put", !.frame = P]
        BY <1>1, <1>10, <2>2, <2>4, <2>7, <2>9, <3>1, FinishedFrame
      <3>3. rf'.pc = "put" /\ rf'.frame = P /\ rf'.got = <<>>
        BY <3>2 DEF Searching
      <3>4. Begun' BY <1>1, <2>7, <3>1, <3>3 DEF Begun
      <3>5. Collected' = P BY <2>5, <3>3, ConcatEmptySeq DEF Collected
      <3>6. Stream' = P \o Coming' BY <3>5 DEF Stream
      <3> QED BY <1>6, <1>7, <2>6, <3>3, <3>4, <3>6
    <2>10. CASE Len(got) # Rest(rf.frame[2])
      <3>1. rf' = [rf EXCEPT !.got = got] BY <1>1, <1>10, <2>2, <2>10
      <3>2. rf'.pc = "body" /\ rf'.frame = rf.frame /\ rf'.got = got
        BY <1>5, <1>10, <3>1 DEF FrameReading
      <3>3. Len(got) < Rest(rf.frame[2]) BY <2>1, <2>3, <2>8, <2>10
      <3>4. Rest(rf.frame[2])' = Rest(rf.frame[2])
        BY <1>1, <3>2 DEF Rest
      <3>5. Begun' BY <2>1, <3>2, <3>3, <3>4 DEF Begun
      <3>6. Stream' = P \o Coming'
        BY <2>4, <3>2 DEF Stream, Collected
      <3> QED BY <1>6, <1>7, <2>6, <3>2, <3>5, <3>6
    <2> QED BY <2>9, <2>10
  <1> QED BY <1>1, <1>8, <1>9, <1>10

-----------------------------------------------------------------------------
(* ReadFrame puts the first frame into its channel; the other steps *)

(* The frame that is put into its channel is the first that is due. *)
LEMMA PutFrameStream ==
  ASSUME TypeInv, StreamInv, NEW k \in Kinds, PutFrame(k)
  PROVE  StreamInv'
  <1>1. /\ rf.pc \in {"put", "putAgain"} /\ rf' = Searching
        /\ due' = IF due # <<>> /\ Head(due) = rf.frame THEN Tail(due) ELSE due
        /\ UNCHANGED <<driver, wire, writer, rb, RecvByteCh, cancelled, ctl>>
    BY DEF PutFrame, PutsInto, portVars, ctlVars
  <1>2. rf.got = <<>> /\ due # <<>> /\ rf.frame = Head(due)
    BY <1>1 DEF StreamInv, Begun
  <1>3. due' = Tail(due) BY <1>1, <1>2
  <1>4. Writers' = Writers BY <1>1, FramesKept
  <1>5. Coming' = Coming /\ OneMidst'
    BY <1>1, <1>4
       DEF Coming, InHand, Unwritten, Midst, StreamInv, OneMidst
  <1>6. rf'.pc = "search" /\ rf'.frame = <<>> /\ rf'.got = <<>>
    BY <1>1 DEF Searching
  <1>7. Begun' BY <1>6 DEF Begun
  <1>8. Collected = Head(due)
    BY <1>2, StreamType, ConcatEmptySeq DEF Collected
  <1>9. Stream' = Coming
    <2>1. <<>> \in Seq(Byte) BY EmptySeq
    <2>2. Collected' = <<>> BY <1>6, <2>1, ConcatEmptySeq DEF Collected
    <2> QED BY <1>5, <2>2, StreamType, ConcatEmptySeq DEF Stream
  <1>10. Holds(Head(due) \o Coming, due) BY <1>8 DEF StreamInv, Stream
  <1>11. Holds(Coming, Tail(due))
    <2>1. due \in Seq(Frames) /\ Coming \in Seq(Byte)
      BY StreamType DEF TypeInv
    <2> QED BY <1>2, <1>10, <2>1, HoldsRest
  <1> QED BY <1>1, <1>3, <1>5, <1>6, <1>7, <1>9, <1>11 DEF StreamInv

(* A frame that finds its channel full stays the first that is due. *)
LEMMA FullStream ==
  ASSUME TypeInv, StreamInv, NEW k \in Kinds,
         Full(k) \/ MakeRoom(k) \/ TakeFrame(k)
  PROVE  StreamInv'
  <1>1. /\ UNCHANGED <<driver, due, wire, writer, rb, RecvByteCh, cancelled, ctl>>
        /\ rf' = rf \/ /\ rf.pc \in {"put", "makeRoom"}
                       /\ \/ rf' = [rf EXCEPT !.pc = "makeRoom"]
                          \/ rf' = [rf EXCEPT !.pc = "putAgain"]
    BY DEF Full, MakeRoom, TakeFrame, portVars, ctlVars
  <1>2. rf \in FrameReading BY DEF TypeInv
  <1>3. /\ rf'.frame = rf.frame /\ rf'.got = rf.got
        /\ rf' = rf \/ /\ rf.pc \in {"put", "makeRoom"}
                       /\ rf'.pc \in {"makeRoom", "putAgain"}
    BY <1>1, <1>2 DEF FrameReading
  <1>4. Writers' = Writers BY <1>1, FramesKept
  <1>5. Stream' = Stream /\ OneMidst'
    BY <1>1, <1>3, <1>4
       DEF Stream, Collected, Coming, InHand, Unwritten, Midst, StreamInv, OneMidst
  <1>6. Begun'
    <2>1. CASE rf' = rf BY <1>1, <2>1, BegunKept DEF StreamInv
    <2>2. CASE rf' # rf
      <3>1. rf.got = <<>> /\ due # <<>> /\ rf.frame = Head(due)
        BY <1>3, <2>2 DEF StreamInv, Begun
      <3> QED BY <1>1, <1>3, <2>2, <3>1 DEF Begun
    <2> QED BY <2>1, <2>2
  <1>7. rf'.pc \notin {"off", "panic"} BY <1>3 DEF StreamInv
  <1> QED BY <1>1, <1>5, <1>6, <1>7 DEF StreamInv

LEMMA StreamStep ==
  TypeInv /\ (~disturbed => StreamInv) /\ [Next]_vars
    => (~disturbed' => StreamInv')
  <1> SUFFICES ASSUME TypeInv, ~disturbed => StreamInv, [Next]_vars, ~disturbed'
               PROVE  StreamInv'
    OBVIOUS
  <1>2. CASE UNCHANGED vars
    <2>1. StreamInv BY <1>2 DEF vars
    <2>2. UNCHANGED <<driver, writer, rf, due, cancelled, ctl, wire, rb, RecvByteCh>>
      BY <1>2 DEF vars, portVars, readVars, ctlVars
    <2>3. /\ Begun' /\ OneMidst' /\ Unwritten' = Unwritten
          /\ ~cancelled' /\ ctl'.pc = "running"
          /\ rf'.pc \notin {"off", "panic"} /\ Collected' = Collected
      BY <2>1, <2>2, OthersKept
    <2>4. Stream' = Stream BY <2>2, <2>3 DEF Stream, Coming, InHand
    <2> QED BY <2>1, <2>2, <2>3, <2>4 DEF StreamInv
  <1>3. CASE Next
    <2>1. ~disturbed
      <3>1. disturbed => disturbed'
        BY <1>3
           DEF Next, WriteRest, WriteFirst, ReadByteStep, ReadPort, ReadNothing,
               PutByte, DropByte, ReadByteReturns, ReadFrameStep, TakeByte,
               BytesCancelled, PutFrame, Full, MakeRoom, ReadFrameReturns,
               TakeFrame, Stop, StopStep, ClearLooks, ClearTakes, Cancel,
               Stopped, Start, OtherStart, OtherStop
      <3> QED BY <3>1
    <2>2. StreamInv BY <2>1
    <2>3. ~cancelled /\ ctl.pc = "running" BY <2>2 DEF StreamInv
    <2>4. CASE \E w \in Writers : WriteRest(w) \/ \E s \in Shapes : WriteFirst(w, s)
      BY <2>2, <2>4, WriteRestStream, WriteFirstStream
    <2>5. CASE ReadByteStep
      <3>1. ~DropByte BY DEF DropByte
      <3> QED BY <2>2, <2>5, <3>1, ReadPortStream, ReadNothingStream,
                 PutByteStream
              DEF ReadByteStep
    <2>6. CASE ReadFrameStep
      <3>1. ~BytesCancelled BY <2>3 DEF BytesCancelled
      <3> QED BY <2>2, <2>6, <3>1, TakeByteStream, PutFrameStream, FullStream
              DEF ReadFrameStep
    <2>7. CASE \E k \in Kinds : TakeFrame(k) BY <2>2, <2>7, FullStream
    <2>8. CASE OtherStart \/ OtherStop
      <3>1. UNCHANGED <<driver, writer, rf, due, ctl, wire, rb, RecvByteCh>>
        BY <2>8 DEF OtherStart, OtherStop, portVars, readVars
      <3>2. cancelled' = cancelled
        BY <2>3, <2>8 DEF OtherStart, OtherStop, TypeInv
      <3>3. /\ Begun' /\ OneMidst' /\ Unwritten' = Unwritten
            /\ ~cancelled' /\ ctl'.pc = "running"
            /\ rf'.pc \notin {"off", "panic"} /\ Collected' = Collected
        BY <2>2, <3>1, <3>2, OthersKept
      <3>4. Stream' = Stream BY <3>1, <3>3 DEF Stream, Coming, InHand
      <3> QED BY <2>2, <3>1, <3>3, <3>4 DEF StreamInv
    <2>9. ~ (ReadByteReturns \/ ReadFrameReturns \/ Stop \/ StopStep \/ Start)
      BY <2>3 DEF ReadByteReturns, ReadFrameReturns, Stop, StopStep, ClearLooks,
                  ClearTakes, Cancel, Stopped, Start
    <2> QED BY <1>3, <2>4, <2>5, <2>6, <2>7, <2>8, <2>9 DEF Next
  <1> QED BY <1>2, <1>3

(* While nothing has spoilt the stream (a byte dropped, or repeated where  *)
(* it does harm, two writers at once, or Stop), ReadFrame finds exactly    *)
(* the frames that were written, in order and each once, whatever bytes    *)
(* are in them: ReadFrame, ReadBytes and ReadByte of xbee/reader.go:96-170,*)
(* virtual_xbee/reader.go:94-162 and wifi/reader.go:129-212.               *)
THEOREM FramesAreReadInOrder == Spec => []ReadInOrder
  <1>1. Init => ReaderInv
    BY InitType, StreamInit DEF ReaderInv
  <1>2. ReaderInv /\ [Next]_vars => ReaderInv'
    BY TypeStep, StreamStep DEF ReaderInv
  <1>3. ReaderInv => ReadInOrder
    BY DEF ReaderInv, StreamInv, Begun, ReadInOrder
  <1> QED BY <1>1, <1>2, <1>3, PTL DEF Spec
=============================================================================
