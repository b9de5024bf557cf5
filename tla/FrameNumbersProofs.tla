------------------------- MODULE FrameNumbersProofs -------------------------
(***************************************************************************)
(* Theorems about FrameNumbers, for every modulus of the frame numbers,    *)
(* any number of frames and searches, and answers at any time.             *)
(***************************************************************************)
EXTENDS FrameNumbers, SequenceTheorems, TLAPS

(* What identifies a frame and its answers. *)
Origin(f) == [no |-> f.no, id |-> f.id, job |-> f.job]

Jobs(g) == IF g = "sender" THEN {"transmit"} ELSE Commands

Channel(g) == IF g = "sender" THEN RecvStatusCh ELSE RecvRespCh

(* What g may still find in its channel, now or later. *)
Owed(g) == {Origin(f) : f \in {x \in open : x.job \in Jobs(g)}}
             \cup {Origin(Channel(g)[i]) : i \in DOMAIN Channel(g)}

(* The places where a frame has its number. *)
Numbered == {"write", "wait"} \cup (IF driver = "wifi" THEN {"load", "store"} ELSE {})

Taken(g) == gen[g].pc \in Numbered

(* The places before the frame's own increment of Writer.Seq. *)
Unstored == {"idle", "load", "store"} \cup (IF driver = "wifi" THEN {"take"} ELSE {})

-----------------------------------------------------------------------------
(* The inductive invariant *)

AllJobs == Commands \cup {"transmit"}

Ids == Nat \cup {Earlier}

Origins == [no : Numbers, id : Ids, job : AllJobs]

Places ==
  CASE driver = "wifi" -> {"idle", "take", "load", "store", "write", "wait"}
    [] driver = "xbee" -> {"idle", "load", "store", "test", "reset", "take",
                           "write", "wait"}
    [] OTHER -> {"idle", "load", "store", "take", "write", "wait"}

Statuses == [no : Numbers, id : Ids, job : {"transmit"}, ok : BOOLEAN]
Responses == [no : Numbers, id : Ids, job : Commands, ok : BOOLEAN]

TypeInv ==
  /\ TypeOK
  /\ \A g \in Goroutines :
       gen[g].pc \in Places /\ (gen[g].pc # "idle" => gen[g].job \in Jobs(g))
  /\ open \subseteq [no : Numbers, id : Ids, job : AllJobs, answers : Nat]
  /\ RecvStatusCh \in Seq(Statuses) /\ RecvRespCh \in Seq(Responses)
  /\ boot \in [phase : {"asking", "done", "failed"}, try : 0 .. Tries - 1,
               parts : Seq([id : Ids, job : AllJobs])]
  /\ boot.phase = "asking" => Len(boot.parts) < Len(AddressCommands)
  /\ stores \in Nat /\ lost \in BOOLEAN

(* Frame b was numbered after frame a, and Writer.Seq came round turns     *)
(* times between them.  A turn is FrameMod increments, one less for each   *)
(* time that xbee put 1 in the place of 0.                                 *)
Ahead(no) == IF no = 0 THEN 1 ELSE no

Precedes(a, b) ==
  \E turns \in Nat :
    /\ turns * (FrameMod - 1) + Ahead(b.no) - Ahead(a.no) <= b.id - a.id
    /\ b.id - a.id <= turns * FrameMod + b.no - a.no

(* The number and the id that a frame would get now. *)
Current == [no |-> Seq_, id |-> stores]

Ordered(g) ==
  /\ Taken(g) => Precedes(gen[g], Current)
  /\ \A p \in Owed(g) :
       \/ p.id = Earlier
       \/ Precedes(p, Current) /\ (Taken(g) => Precedes(p, gen[g]))

InOrder == ~lost => \A g \in Goroutines : Ordered(g)

(* Each frame of a goroutine has an id of its own. *)
OwnId(g) ==
  /\ Taken(g) =>
       /\ gen[g].id <= stores
       /\ IF driver = "wifi" THEN gen[g].pc \in {"write", "wait"} => gen[g].id < stores
          ELSE 1 <= gen[g].id
  /\ gen[g].pc \notin Unstored => 1 <= stores
  /\ \A p \in Owed(g) :
       \/ p.id = Earlier
       \/ /\ p.id <= stores
          /\ driver = "wifi" \/ gen[g].pc \in {"test", "reset", "take"} => p.id < stores
          /\ driver = "wifi" \/ 1 <= p.id
          /\ Taken(g) => \/ p.id < gen[g].id
                         \/ gen[g].pc = "wait" /\ p = Origin(gen[g])

OwnIds == \A g \in Goroutines : OwnId(g)

Attempted == boot.try * Len(AddressCommands) + Len(boot.parts)

(* While SetMacAddr asks, the sender waits for Init, no increment is lost, *)
(* and there are not more of them than commands.                           *)
Booting ==
  boot.phase = "asking" =>
    /\ gen["sender"].pc = "idle" /\ ~lost
    /\ gen["asker"].pc = "store" => gen["asker"].tmp = Seq_
    /\ gen["asker"].pc = "reset" => Seq_ = 0
    /\ gen["asker"].pc # "idle" =>
         gen["asker"].job = AddressCommands[Len(boot.parts) + 1]
    /\ stores <= Attempted + 1
    /\ gen["asker"].pc \in Unstored => stores <= Attempted

PartsInOrder ==
  /\ \A i \in DOMAIN boot.parts :
       boot.parts[i].job = AddressCommands[i] \/ boot.parts[i].id = Earlier
  /\ boot.phase = "done" => Len(boot.parts) = Len(AddressCommands)

NodesSoFar ==
  resp # {} =>
    /\ Waits("asker", "ND")
    /\ \A a \in resp : AnswersOwn(gen["asker"].id, a) \/ lost

ZeroInv ==
  driver = "xbee" =>
    \A g \in Goroutines : gen[g].pc = "take" /\ Seq_ = 0 => gen[g].raced

NumbersInv ==
  /\ TypeInv /\ InOrder /\ OwnIds /\ Booting /\ PartsInOrder /\ NodesSoFar
  /\ ZeroInv /\ ConfirmedByOwnStatus /\ NodesAnswerThisSearch /\ ZeroNeedsRace
-----------------------------------------------------------------------------
(* The operators *)

(* The statements on Writer.Seq, in the order of the driver. *)
LEMMA StepsOfWifi ==
  ASSUME driver = "wifi"
  PROVE  /\ Steps[1] = "take"
         /\ After("take") = "load" /\ After("load") = "store"
         /\ After("store") = "write"
  <1>1. Steps = <<"take", "load", "store", "write">>
    BY DEF Steps
  <1>2. 1 .. Len(Steps) - 1 = {1, 2, 3}
    BY <1>1
  <1> QED
    BY <1>1, <1>2 DEF After

LEMMA StepsOfXbee ==
  ASSUME driver = "xbee"
  PROVE  /\ Steps[1] = "load"
         /\ After("load") = "store" /\ After("store") = "test"
         /\ After("test") = "take" /\ After("take") = "write"
  <1>1. Steps = <<"load", "store", "test", "take", "write">>
    BY DEF Steps
  <1>2. 1 .. Len(Steps) - 1 = {1, 2, 3, 4}
    BY <1>1
  <1> QED
    BY <1>1, <1>2 DEF After

LEMMA StepsOfVxbee ==
  ASSUME driver = "vxbee"
  PROVE  /\ Steps[1] = "load"
         /\ After("load") = "store" /\ After("store") = "take"
         /\ After("take") = "write"
  <1>1. Steps = <<"load", "store", "take", "write">>
    BY DEF Steps
  <1>2. 1 .. Len(Steps) - 1 = {1, 2, 3}
    BY <1>1
  <1> QED
    BY <1>1, <1>2 DEF After

(* No increment lies between equal numbers with equal ids. *)
LEMMA PrecedesRefl ==
  ASSUME NEW a, NEW b, a.no \in Numbers, a.id \in Int, a.no = b.no, a.id = b.id
  PROVE  Precedes(a, b)
  <1>1. FrameMod \in Nat
    BY FrameNumbersAssumption
  <1>2. 0 * (FrameMod - 1) = 0 /\ 0 * FrameMod = 0 /\ 0 \in Nat
    BY <1>1
  <1> QED
    BY <1>1, <1>2 DEF Precedes, Ahead, Numbers

(* An increment of Writer.Seq that overwrites none. *)
LEMMA PrecedesIncrement ==
  ASSUME NEW a, NEW n \in Numbers, NEW s \in Nat,
         a.no \in Numbers, a.id \in Int,
         Precedes(a, [no |-> n, id |-> s])
  PROVE  Precedes(a, [no |-> Increased(n), id |-> s + 1])
  <1>1. FrameMod \in Nat /\ FrameMod > 2
    BY FrameNumbersAssumption
  <1>2. PICK turns \in Nat :
          /\ turns * (FrameMod - 1) + Ahead(n) - Ahead(a.no) <= s - a.id
          /\ s - a.id <= turns * FrameMod + n - a.no
    BY DEF Precedes
  <1>3. CASE n + 1 < FrameMod
    <2>1. Increased(n) = n + 1
      BY <1>1, <1>3 DEF Increased, Numbers
    <2>2. turns * (FrameMod - 1) \in Int /\ turns * FrameMod \in Int
      BY <1>1
    <2>3. /\ turns * (FrameMod - 1) + Ahead(n + 1) - Ahead(a.no) <= s + 1 - a.id
          /\ s + 1 - a.id <= turns * FrameMod + (n + 1) - a.no
      BY <1>1, <1>2, <2>2 DEF Ahead, Numbers
    <2> QED
      BY <2>1, <2>3 DEF Precedes
  <1>4. CASE n + 1 = FrameMod
    <2>1. Increased(n) = 0
      BY <1>1, <1>4 DEF Increased, Numbers
    <2>2. /\ (turns + 1) * (FrameMod - 1) = turns * (FrameMod - 1) + FrameMod - 1
          /\ (turns + 1) * FrameMod = turns * FrameMod + FrameMod
          /\ turns * (FrameMod - 1) \in Int /\ turns * FrameMod \in Int
          /\ turns + 1 \in Nat
      BY <1>1
    <2>3. /\ (turns + 1) * (FrameMod - 1) + Ahead(0) - Ahead(a.no) <= s + 1 - a.id
          /\ s + 1 - a.id <= (turns + 1) * FrameMod + 0 - a.no
      BY <1>1, <1>2, <1>4, <2>2 DEF Ahead, Numbers
    <2> QED
      BY <2>1, <2>2, <2>3 DEF Precedes
  <1> QED
    BY <1>1, <1>3, <1>4 DEF Numbers

(* xbee puts 1 in the place of 0. *)
LEMMA PrecedesReset ==
  ASSUME NEW a, NEW s \in Nat, a.no \in Numbers, a.id \in Int,
         Precedes(a, [no |-> 0, id |-> s])
  PROVE  Precedes(a, [no |-> 1, id |-> s])
  <1>1. FrameMod \in Nat
    BY FrameNumbersAssumption
  <1>2. PICK turns \in Nat :
          /\ turns * (FrameMod - 1) + Ahead(0) - Ahead(a.no) <= s - a.id
          /\ s - a.id <= turns * FrameMod + 0 - a.no
    BY DEF Precedes
  <1>3. turns * (FrameMod - 1) \in Int /\ turns * FrameMod \in Int
    BY <1>1
  <1>4. /\ turns * (FrameMod - 1) + Ahead(1) - Ahead(a.no) <= s - a.id
        /\ s - a.id <= turns * FrameMod + 1 - a.no
    BY <1>2, <1>3 DEF Ahead, Numbers
  <1> QED
    BY <1>4 DEF Precedes

(* Two frames with one number are the same, or at least a turn apart. *)
LEMMA SameNumber ==
  ASSUME NEW a, NEW b, a.no \in Numbers, a.id \in Int, b.id \in Int,
         a.no = b.no, Precedes(a, b)
  PROVE  a.id = b.id \/ b.id - a.id >= FrameMod - 1
  <1>1. FrameMod \in Nat /\ FrameMod > 2
    BY FrameNumbersAssumption
  <1>2. PICK turns \in Nat :
          /\ turns * (FrameMod - 1) + Ahead(b.no) - Ahead(a.no) <= b.id - a.id
          /\ b.id - a.id <= turns * FrameMod + b.no - a.no
    BY DEF Precedes
  <1>3. CASE turns = 0
    <2>1. turns * (FrameMod - 1) = 0 /\ turns * FrameMod = 0
      BY <1>1, <1>3
    <2> QED
      BY <1>2, <2>1 DEF Ahead, Numbers
  <1>4. CASE turns # 0
    <2>1. PICK k \in Nat : turns = k + 1
      BY <1>4
    <2>2. turns * (FrameMod - 1) = k * (FrameMod - 1) + (FrameMod - 1)
      BY <1>1, <2>1
    <2>3. k * (FrameMod - 1) \in Nat
      BY <1>1
    <2> QED
      BY <1>1, <1>2, <2>2, <2>3 DEF Ahead, Numbers
  <1> QED
    BY <1>3, <1>4

(* The order of the statements, for the three drivers at once. *)
LEMMA StepOrder ==
  ASSUME driver \in Drivers
  PROVE  /\ Steps[1] = IF driver = "wifi" THEN "take" ELSE "load"
         /\ After("load") = "store"
         /\ After("take") = IF driver = "wifi" THEN "load" ELSE "write"
         /\ After("store") = IF driver = "wifi" THEN "write"
                            ELSE IF driver = "xbee" THEN "test" ELSE "take"
         /\ driver = "xbee" => After("test") = "take"
  <1>1. driver \in {"xbee", "vxbee", "wifi"}
    BY FrameNumbersAssumption
  <1> QED
    BY <1>1, StepsOfWifi, StepsOfXbee, StepsOfVxbee

(* FrameNumbersAssumption, as the steps need it. *)
LEMMA Modulus == FrameMod \in Nat /\ FrameMod > 2 /\ 0 \in Numbers /\ 1 \in Numbers
  BY FrameNumbersAssumption DEF Numbers

-----------------------------------------------------------------------------
(* Steps that leave the numbering alone. *)

(* Goroutines return, or wait. *)
Quiet ==
  /\ UNCHANGED <<driver, Seq_, stores, lost>>
  /\ \A g \in Goroutines : gen'[g] = gen[g] \/ gen'[g] = Idle

NumberStep(g) ==
  Load(g) \/ Store(g) \/ Test(g) \/ Reset(g) \/ Take(g) \/ WriteFrame(g)

AnswerStep ==
  \/ \E f \in open, ok \in BOOLEAN : StatusArrives(f, ok) \/ ResponseArrives(f, ok)
  \/ TakeStatus \/ StatusTimeout \/ TakeNode \/ NodesTimeout
  \/ TakeAddress \/ AddressTimeout

(* The steps on Writer.Seq, those that begin a frame, and the answers. *)
LEMMA NextCases ==
  ASSUME Next
  PROVE  \/ BeginSend \/ BeginAddress \/ BeginSearch
         \/ \E g \in Goroutines : NumberStep(g)
         \/ AnswerStep
  BY DEF Next, NumberStep, AnswerStep

(* An answer leaves the numbering alone. *)
LEMMA AnswerStepQuiet ==
  ASSUME TypeInv, AnswerStep
  PROVE  Quiet
  <1>1. gen \in [Goroutines -> [pc : {"idle", "wait", "load", "store", "test",
                                   "reset", "take", "write"},
           tmp : Numbers, no : Numbers, id : Nat,
           job : Commands \cup {"none", "transmit"}, raced : BOOLEAN]]
    BY DEF TypeInv, TypeOK
  <1>2. "sender" \in Goroutines /\ "asker" \in Goroutines
    BY DEF Goroutines
  <1> QED
    BY <1>1, <1>2 DEF AnswerStep, Quiet, history, StatusArrives,
       ResponseArrives,
       TakeStatus, StatusTimeout, TakeNode, NodesTimeout, TakeAddress,
       AddressTimeout

(* The channels after a step, as sequences of answers. *)
LEMMA ChannelsType ==
  ASSUME TypeInv, AnswerStep
  PROVE  RecvStatusCh' \in Seq(Statuses) /\ RecvRespCh' \in Seq(Responses)
  <1>1. RecvStatusCh \in Seq(Statuses) /\ RecvRespCh \in Seq(Responses)
    BY DEF TypeInv
  <1>2. ASSUME NEW f \in open, NEW ok \in BOOLEAN
        PROVE  /\ f.job = "transmit" => Answer(f, ok) \in Statuses
               /\ f.job # "transmit" => Answer(f, ok) \in Responses
    <2>1. /\ f.no \in Numbers /\ f.id \in Ids
          /\ f.job = "transmit" \/ f.job \in Commands
      BY DEF TypeInv, AllJobs
    <2> QED
      BY <2>1 DEF Answer, Statuses, Responses
  <1>3. /\ RecvStatusCh # <<>> => Tail(RecvStatusCh) \in Seq(Statuses)
        /\ RecvRespCh # <<>> => Tail(RecvRespCh) \in Seq(Responses)
    BY <1>1, HeadTailProperties
  <1>4. ASSUME NEW f \in open, NEW ok \in BOOLEAN, StatusArrives(f, ok)
        PROVE  RecvStatusCh' \in Seq(Statuses) /\ RecvRespCh' = RecvRespCh
    BY <1>1, <1>2, <1>4, AppendProperties DEF StatusArrives
  <1>5. ASSUME NEW f \in open, NEW ok \in BOOLEAN, ResponseArrives(f, ok)
        PROVE  RecvRespCh' \in Seq(Responses) /\ RecvStatusCh' = RecvStatusCh
    BY <1>1, <1>2, <1>5, AppendProperties DEF ResponseArrives
  <1>6. CASE TakeStatus
    BY <1>1, <1>3, <1>6 DEF TakeStatus
  <1>7. CASE TakeNode \/ TakeAddress
    <2>1. RecvRespCh' = Tail(RecvRespCh) \/ RecvRespCh' = <<>>
      BY <1>7 DEF TakeNode, TakeAddress, AfterBoot
    <2>2. RecvRespCh # <<>> /\ RecvStatusCh' = RecvStatusCh
      BY <1>7 DEF TakeNode, TakeAddress
    <2>3. <<>> \in Seq(Responses)
      OBVIOUS
    <2> QED
      BY <1>1, <1>3, <2>1, <2>2, <2>3
  <1>8. CASE StatusTimeout \/ NodesTimeout \/ AddressTimeout
    BY <1>1, <1>8 DEF StatusTimeout, NodesTimeout, AddressTimeout, readerVars
  <1> QED
    BY <1>1, <1>4, <1>5, <1>6, <1>7, <1>8 DEF AnswerStep

(* Nothing is owed to a goroutine but for the frames that it writes.       *)
LEMMA OwedStep ==
  ASSUME TypeInv, Next, NEW g \in Goroutines
  PROVE  \A p \in Owed(g)' : p \in Owed(g) \/ (WriteFrame(g) /\ p = Origin(gen[g]))
  <1>0. g = "sender" \/ g = "asker"
    BY DEF Goroutines
  <1>1. CASE UNCHANGED readerVars
    BY <1>1 DEF Owed, Channel, readerVars
  <1>2. ASSUME NEW h \in Goroutines, WriteFrame(h)
        PROVE  \A p \in Owed(g)' : p \in Owed(g) \/ (h = g /\ p = Origin(gen[g]))
    <2>1. /\ open' \subseteq open \cup {Open(gen[h])}
          /\ RecvStatusCh' = RecvStatusCh /\ RecvRespCh' = RecvRespCh
      BY <1>2 DEF WriteFrame
    <2>2. Open(gen[h]).job = gen[h].job /\ Origin(Open(gen[h])) = Origin(gen[h])
      BY DEF Open, Origin
    <2>3. gen[h].job \in Jobs(h)
      BY <1>2 DEF TypeInv, WriteFrame
    <2>4. gen[h].job \in Jobs(g) => h = g
      BY <1>0, <2>3 DEF Jobs, Commands, Goroutines
    <2> QED
      BY <2>1, <2>2, <2>4 DEF Owed, Channel
  <1>3. ASSUME NEW f \in open, NEW ok \in BOOLEAN, StatusArrives(f, ok)
        PROVE  Owed(g)' \subseteq Owed(g)
    <2>1. Origin(Answer(f, ok)) = Origin(f)
      BY DEF Origin, Answer
    <2>2. RecvStatusCh \in Seq(Statuses)
      BY DEF TypeInv
    <2>3. \A i \in DOMAIN RecvStatusCh' :
            \/ i \in DOMAIN RecvStatusCh /\ RecvStatusCh'[i] = RecvStatusCh[i]
            \/ RecvStatusCh'[i] = Answer(f, ok)
      BY <1>3, <2>2 DEF StatusArrives
    <2>4. /\ open' \subseteq open /\ RecvRespCh' = RecvRespCh
          /\ f.job = "transmit"
      BY <1>3 DEF StatusArrives
    <2> QED
      BY <1>0, <2>1, <2>3, <2>4 DEF Owed, Channel, Jobs
  <1>4. ASSUME NEW f \in open, NEW ok \in BOOLEAN, ResponseArrives(f, ok)
        PROVE  Owed(g)' \subseteq Owed(g)
    <2> DEFINE more == [f EXCEPT !.answers = @ + 1]
    <2>1. Origin(Answer(f, ok)) = Origin(f)
      BY DEF Origin, Answer
    <2>2. RecvRespCh \in Seq(Responses)
      BY DEF TypeInv
    <2>3. \A i \in DOMAIN RecvRespCh' :
            \/ i \in DOMAIN RecvRespCh /\ RecvRespCh'[i] = RecvRespCh[i]
            \/ RecvRespCh'[i] = Answer(f, ok)
      BY <1>4, <2>2 DEF ResponseArrives
    <2>4. f \in [no : Numbers, id : Ids, job : AllJobs, answers : Nat]
      BY DEF TypeInv
    <2>5. more.job = f.job /\ Origin(more) = Origin(f)
      BY <2>4 DEF Origin
    <2>6. /\ open' \subseteq open \cup {more} /\ RecvStatusCh' = RecvStatusCh
          /\ f.job \in Commands
      BY <1>4, <2>4 DEF ResponseArrives, AllJobs
    <2> HIDE DEF more
    <2> QED
      BY <1>0, <2>1, <2>3, <2>5, <2>6 DEF Owed, Channel, Jobs
  <1>5. CASE TakeStatus
    <2>1. RecvStatusCh \in Seq(Statuses) /\ RecvStatusCh # <<>>
      BY <1>5 DEF TypeInv, TakeStatus
    <2>2. \A i \in DOMAIN Tail(RecvStatusCh) :
            i + 1 \in DOMAIN RecvStatusCh /\ Tail(RecvStatusCh)[i] = RecvStatusCh[i + 1]
      BY <2>1
    <2> QED
      BY <1>5, <2>2 DEF TakeStatus, Owed, Channel
  <1>6. CASE TakeNode \/ TakeAddress
    <2>1. RecvRespCh \in Seq(Responses) /\ RecvRespCh # <<>>
      BY <1>6 DEF TypeInv, TakeNode, TakeAddress
    <2>2. \A i \in DOMAIN Tail(RecvRespCh) :
            i + 1 \in DOMAIN RecvRespCh /\ Tail(RecvRespCh)[i] = RecvRespCh[i + 1]
      BY <2>1
    <2>3. RecvRespCh' = Tail(RecvRespCh) \/ RecvRespCh' = <<>>
      BY <1>6 DEF TakeNode, TakeAddress, AfterBoot
    <2>4. \A i \in DOMAIN RecvRespCh' :
            \E j \in DOMAIN RecvRespCh : RecvRespCh'[i] = RecvRespCh[j]
      <3>1. CASE RecvRespCh' = Tail(RecvRespCh)
        BY <2>2, <3>1
      <3>2. CASE RecvRespCh' = <<>>
        <4>1. DOMAIN RecvRespCh' = {}
          BY <3>2
        <4> QED
          BY <4>1
      <3> QED
        BY <2>3, <3>1, <3>2
    <2>5. open' = open /\ RecvStatusCh' = RecvStatusCh
      BY <1>6 DEF TakeNode, TakeAddress
    <2> QED
      BY <2>4, <2>5 DEF Owed, Channel
  <1>7. \/ UNCHANGED readerVars \/ \E h \in Goroutines : WriteFrame(h)
        \/ \E f \in open, ok \in BOOLEAN : StatusArrives(f, ok) \/ ResponseArrives(f, ok)
        \/ TakeStatus \/ TakeNode \/ TakeAddress
    BY DEF Next, BeginSend, BeginAddress, BeginSearch, BeginFrame, Load, Store,
       Test, Reset, Take, StatusTimeout, NodesTimeout, AddressTimeout
  <1> QED
    BY <1>1, <1>2, <1>3, <1>4, <1>5, <1>6, <1>7

-----------------------------------------------------------------------------
(* The type invariant is inductive. *)

(* What a goroutine's step may make of its record. *)
Records ==
  [pc : {"idle", "wait", "load", "store", "test", "reset", "take", "write"},
   tmp : Numbers, no : Numbers, id : Nat,
   job : Commands \cup {"none", "transmit"}, raced : BOOLEAN]

Proper(g, r) ==
  /\ r \in Records /\ r.pc \in Places
  /\ r.pc # "idle" => r.job \in Jobs(g)

GenProper ==
  /\ gen = [g \in Goroutines |-> gen[g]]
  /\ \A g \in Goroutines : Proper(g, gen[g])

LEMMA TypeInvGen ==
  ASSUME TypeInv
  PROVE  GenProper
  BY DEF TypeInv, TypeOK, GenProper, Proper, Records

LEMMA BeginProper ==
  ASSUME TypeInv, BeginSend \/ BeginAddress \/ BeginSearch
  PROVE  GenProper'
  <1>1. Steps[1] \in Places \ {"idle", "wait"}
    BY StepOrder, FrameNumbersAssumption DEF TypeInv, TypeOK, Places
  <1>2. ASSUME NEW g \in Goroutines, NEW job \in Jobs(g), BeginFrame(g, job)
        PROVE  GenProper'
    <2> DEFINE r == [Idle EXCEPT !.pc = Steps[1], !.job = job]
    <2>1. r.pc = Steps[1] /\ r.job = job /\ r \in Records
      BY <1>1, Modulus DEF Idle, Records, Places, Jobs
    <2>2. driver' = driver /\ gen' = [gen EXCEPT ![g] = r]
      BY <1>2 DEF BeginFrame
    <2> HIDE DEF r
    <2> QED
      BY <1>1, <2>1, <2>2, TypeInvGen DEF GenProper, Proper, Places, Jobs
  <1>3. CASE BeginSend
    BY <1>2, <1>3 DEF BeginSend, Goroutines, Jobs
  <1>4. CASE BeginSearch
    BY <1>2, <1>4 DEF BeginSearch, Goroutines, Jobs, Commands
  <1>5. CASE BeginAddress
    <2>1. Len(boot.parts) \in Nat /\ Len(boot.parts) < Len(AddressCommands)
      BY <1>5 DEF TypeInv, BeginAddress
    <2>2. AddressCommands[Len(boot.parts) + 1] \in Commands
      BY <2>1 DEF AddressCommands, Commands
    <2> QED
      BY <1>2, <1>5, <2>2 DEF BeginAddress, Goroutines, Jobs
  <1> QED
    BY <1>3, <1>4, <1>5

LEMMA NumberStepProper ==
  ASSUME TypeInv, NEW g \in Goroutines, NumberStep(g)
  PROVE  GenProper' /\ Seq_' \in Numbers /\ stores' \in Nat /\ lost' \in BOOLEAN
  <1>1. Seq_ \in Numbers /\ stores \in Nat /\ lost \in BOOLEAN /\ driver' = driver
    BY DEF TypeInv, TypeOK, NumberStep, Load, Store, Test, Reset, Take,
       WriteFrame
  <1>2. Proper(g, gen[g]) /\ gen[g] \in Records
    BY TypeInvGen DEF GenProper, Proper
  <1>3. driver \in {"xbee", "vxbee", "wifi"}
    BY FrameNumbersAssumption DEF TypeInv, TypeOK
  <1>4. ASSUME NEW r, gen' = [gen EXCEPT ![g] = r], Proper(g, r)
        PROVE  GenProper'
    BY <1>1, <1>4, TypeInvGen DEF GenProper, Proper, Places
  <1>5. ASSUME NEW pc \in Places, Changed(g, pc), gen[g].pc # "idle"
        PROVE  GenProper'
    <2>1. Proper(g, [gen[g] EXCEPT !.pc = pc])
      BY <1>2, <1>3, <1>5 DEF Proper, Records, Places
    <2>2. ASSUME NEW h \in Goroutines
          PROVE  Proper(h, [gen[h] EXCEPT !.raced = @ \/ Numbering(h)])
      <3>1. Proper(h, gen[h]) /\ Numbering(h) \in BOOLEAN
        BY TypeInvGen DEF GenProper, Numbering
      <3>2. (gen[h].raced \/ Numbering(h)) \in BOOLEAN
        OBVIOUS
      <3> QED
        BY <3>1, <3>2 DEF Proper, Records
    <2>3. gen' = [h \in Goroutines |->
                    IF h = g THEN [gen[g] EXCEPT !.pc = pc]
                    ELSE [gen[h] EXCEPT !.raced = @ \/ Numbering(h)]]
      BY <1>5 DEF Changed
    <2>4. \A h \in Goroutines : Proper(h, gen'[h])
      BY <2>1, <2>2, <2>3
    <2> QED
      BY <1>1, <2>3, <2>4 DEF GenProper, Proper, Places
  <1>6. CASE Load(g)
    <2>1. After("load") \in Places
      BY <1>3, StepOrder DEF TypeInv, TypeOK, Places
    <2> QED
      BY <1>1, <1>2, <1>4, <1>6, <2>1 DEF Load, history, Proper, Records, Places
  <1>7. CASE Store(g)
    <2>1. After("store") \in Places
      BY <1>3, StepOrder DEF TypeInv, TypeOK, Places
    <2>2. Increased(gen[g].tmp) \in Numbers
      BY <1>2, Modulus DEF Increased, Records, Numbers
    <2> QED
      BY <1>1, <1>5, <1>7, <2>1, <2>2 DEF Store
  <1>8. CASE Test(g)
    <2>1. driver = "xbee"
      BY <1>2, <1>3, <1>8 DEF Test, Proper, Places
    <2>2. After("test") \in Places /\ "reset" \in Places
      BY <2>1, StepOrder DEF TypeInv, TypeOK, Places
    <2>3. gen' = [gen EXCEPT ![g] = [gen[g] EXCEPT
                    !.pc = IF Seq_ = 0 THEN "reset" ELSE After("test")]]
      BY <1>8 DEF Test
    <2>4. Proper(g, [gen[g] EXCEPT !.pc = IF Seq_ = 0 THEN "reset" ELSE After("test")])
      BY <1>2, <1>3, <1>8, <2>2 DEF Test, Proper, Records, Places
    <2> QED
      BY <1>1, <1>4, <1>8, <2>3, <2>4 DEF Test, history
  <1>9. CASE Reset(g)
    <2>1. driver = "xbee"
      BY <1>2, <1>3, <1>9 DEF Reset, Proper, Places
    <2>2. After("test") \in Places
      BY <2>1, StepOrder DEF TypeInv, TypeOK, Places
    <2> QED
      BY <1>1, <1>5, <1>9, <2>2, Modulus DEF Reset
  <1>10. CASE Take(g)
    <2>1. After("take") \in Places
      BY <1>3, StepOrder DEF TypeInv, TypeOK, Places
    <2>2. gen' = [gen EXCEPT ![g] = [gen[g] EXCEPT !.pc = After("take"), !.no = Seq_,
                                                  !.id = stores]]
      BY <1>10 DEF Take
    <2>3. Proper(g, [gen[g] EXCEPT !.pc = After("take"), !.no = Seq_, !.id = stores])
      BY <1>1, <1>2, <1>3, <1>10, <2>1 DEF Take, Proper, Records, Places
    <2> QED
      BY <1>1, <1>4, <1>10, <2>2, <2>3 DEF Take, history
  <1>11. CASE WriteFrame(g)
    <2>1. Proper(g, [gen[g] EXCEPT !.pc = "wait"])
      BY <1>2, <1>3, <1>11 DEF WriteFrame, Proper, Records, Places
    <2> QED
      BY <1>1, <1>4, <1>11, <2>1 DEF WriteFrame, history
  <1> QED
    BY <1>6, <1>7, <1>8, <1>9, <1>10, <1>11 DEF NumberStep

(* The frames that the radio module may answer. *)
LEMMA OpenType ==
  ASSUME TypeInv, Next
  PROVE  open' \subseteq [no : Numbers, id : Ids, job : AllJobs, answers : Nat]
  <1> DEFINE Frames == [no : Numbers, id : Ids, job : AllJobs, answers : Nat]
  <1>1. open \subseteq Frames
    BY DEF TypeInv
  <1>2. ASSUME NEW g \in Goroutines, WriteFrame(g)
        PROVE  open' \subseteq Frames
    <2>1. gen[g] \in Records /\ gen[g].job \in AllJobs
      BY <1>2, TypeInvGen DEF GenProper, Proper, WriteFrame, Jobs, AllJobs,
         Goroutines
    <2>2. Open(gen[g]) \in Frames
      BY <2>1 DEF Open, Records, Ids
    <2> QED
      BY <1>1, <1>2, <2>2 DEF WriteFrame
  <1>3. ASSUME NEW f \in open, NEW ok \in BOOLEAN, ResponseArrives(f, ok)
        PROVE  open' \subseteq Frames
    <2>1. [f EXCEPT !.answers = @ + 1] \in Frames
      BY <1>1
    <2> QED
      BY <1>1, <1>3, <2>1 DEF ResponseArrives
  <1>4. \/ open' \subseteq open \/ \E g \in Goroutines : WriteFrame(g)
        \/ \E f \in open, ok \in BOOLEAN : ResponseArrives(f, ok)
    BY DEF Next, BeginSend, BeginAddress, BeginSearch, BeginFrame, Load, Store,
       Test, Reset, Take, StatusArrives, TakeStatus, StatusTimeout, TakeNode,
       NodesTimeout, TakeAddress, AddressTimeout, readerVars
  <1> QED
    BY <1>1, <1>2, <1>3, <1>4

BootType ==
  /\ boot \in [phase : {"asking", "done", "failed"}, try : 0 .. Tries - 1,
               parts : Seq([id : Ids, job : AllJobs])]
  /\ boot.phase = "asking" => Len(boot.parts) < Len(AddressCommands)
  /\ Len(boot.parts) <= Len(AddressCommands)

(* SetMacAddr stays within its attempts and commands. *)
LEMMA BootTypeStep ==
  ASSUME TypeInv, Next
  PROVE  BootType'
  <1>1. BootType /\ driver' = driver /\ Len(AddressCommands) \in {1, 2}
    BY DEF TypeInv, TypeOK, BootType, AddressCommands, Next, BeginSend,
       BeginAddress,
       BeginSearch, BeginFrame, Load, Store, Test, Reset, Take, WriteFrame,
       StatusArrives, ResponseArrives, TakeStatus, StatusTimeout, TakeNode,
       NodesTimeout, TakeAddress, AddressTimeout
  <1>2. CASE UNCHANGED boot
    BY <1>1, <1>2 DEF BootType, AddressCommands
  <1>3. CASE boot.phase = "asking" /\ boot' = Again(boot)
    <2>1. <<>> \in Seq([id : Ids, job : AllJobs]) /\ Len(<<>>) = 0
      OBVIOUS
    <2>2. Len(boot.parts) \in Nat
      BY <1>1 DEF BootType
    <2>3. CASE boot.try + 1 < Tries
      <3>1. boot' = [boot EXCEPT !.try = boot.try + 1, !.parts = <<>>]
        BY <1>3, <2>3 DEF Again
      <3>2. boot.try + 1 \in 0 .. Tries - 1
        BY <1>1, <2>3, FrameNumbersAssumption DEF BootType
      <3>3. /\ boot' \in [phase : {"asking", "done", "failed"}, try : 0 .. Tries - 1,
                         parts : Seq([id : Ids, job : AllJobs])]
            /\ boot'.parts = <<>>
        BY <1>1, <2>1, <3>1, <3>2 DEF BootType
      <3> QED
        BY <1>1, <2>1, <3>3 DEF BootType, AddressCommands
    <2>4. CASE ~(boot.try + 1 < Tries)
      BY <1>1, <1>3, <2>2, <2>4 DEF Again, BootType, AddressCommands
    <2> QED
      BY <2>3, <2>4
  <1>4. ASSUME TakeAddress, boot' = WithPart(boot, Head(RecvRespCh))
        PROVE  BootType'
    <2> DEFINE answer == Head(RecvRespCh)
               parts == Append(boot.parts, [id |-> answer.id, job |-> answer.job])
    <2>1. answer \in Responses
      BY <1>4, HeadTailProperties DEF TypeInv, TakeAddress
    <2>2. [id |-> answer.id, job |-> answer.job] \in [id : Ids, job : AllJobs]
      BY <2>1 DEF Responses, AllJobs
    <2>3. boot.parts \in Seq([id : Ids, job : AllJobs]) /\ boot.phase = "asking"
      BY <1>1, <1>4 DEF BootType, TakeAddress
    <2>4. /\ parts \in Seq([id : Ids, job : AllJobs])
          /\ Len(parts) = Len(boot.parts) + 1
      BY <2>2, <2>3, AppendProperties
    <2>5. boot' = [boot EXCEPT !.parts = parts,
                     !.phase = IF Len(parts) = Len(AddressCommands) THEN "done"
                               ELSE boot.phase]
      BY <1>4 DEF WithPart
    <2>6. Len(boot.parts) \in Nat
      BY <2>3
    <2> HIDE DEF parts
    <2>7. /\ boot'.parts = parts
          /\ boot'.phase = IF Len(parts) = Len(AddressCommands) THEN "done" ELSE "asking"
          /\ boot' \in [phase : {"asking", "done", "failed"}, try : 0 .. Tries - 1,
                       parts : Seq([id : Ids, job : AllJobs])]
      BY <1>1, <2>3, <2>4, <2>5 DEF BootType
    <2>8. AddressCommands' = AddressCommands
      BY <1>1 DEF AddressCommands
    <2> QED
      BY <1>1, <2>3, <2>4, <2>6, <2>7, <2>8 DEF BootType
  <1>5. \/ UNCHANGED boot
        \/ boot.phase = "asking" /\ boot' = Again(boot)
        \/ TakeAddress /\ boot' = WithPart(boot, Head(RecvRespCh))
    <2>1. CASE TakeAddress
      BY <2>1 DEF TakeAddress
    <2> QED
      BY <2>1 DEF Next, BeginSend, BeginAddress, BeginSearch, BeginFrame,
         Load, Store,
         Test, Reset, Take, WriteFrame, StatusArrives, ResponseArrives, TakeStatus,
         StatusTimeout, TakeNode, NodesTimeout, AddressTimeout, callerVars
  <1> QED
    BY <1>2, <1>3, <1>4, <1>5

LEMMA TypeStep ==
  ASSUME TypeInv, [Next]_vars
  PROVE  TypeInv'
  <1>1. CASE UNCHANGED vars
    BY <1>1 DEF TypeInv, TypeOK, vars, history, readerVars, callerVars,
       Places, Numbers,
       AddressCommands
  <1>2. CASE Next
    <2>1. GenProper' /\ Seq_' \in Numbers /\ stores' \in Nat /\ lost' \in BOOLEAN
      <3>1. CASE BeginSend \/ BeginAddress \/ BeginSearch
        BY <3>1, BeginProper DEF BeginSend, BeginAddress, BeginSearch,
           BeginFrame,
           TypeInv, TypeOK
      <3>2. CASE \E g \in Goroutines : NumberStep(g)
        BY <3>2, NumberStepProper
      <3>3. CASE AnswerStep
        <4>1. Quiet
          BY <3>3, AnswerStepQuiet
        <4>2. gen' = [g \in Goroutines |-> gen'[g]]
          BY <3>3 DEF AnswerStep, history, StatusArrives, ResponseArrives,
             TakeStatus,
             StatusTimeout, TakeNode, NodesTimeout, TakeAddress, AddressTimeout,
             TypeInv, TypeOK
        <4>3. \A g \in Goroutines : Proper(g, Idle)
          BY Modulus DEF Proper, Idle, Records, Places
        <4>4. \A g \in Goroutines : Proper(g, gen[g])
          BY TypeInvGen DEF GenProper
        <4>5. \A g \in Goroutines : Proper(g, gen'[g])
          BY <4>1, <4>3, <4>4 DEF Quiet
        <4> QED
          BY <4>1, <4>2, <4>5 DEF Quiet, GenProper, Proper, Places, TypeInv,
             TypeOK
      <3> QED
        BY <1>2, <3>1, <3>2, <3>3, NextCases
    <2>2. open' \subseteq [no : Numbers, id : Ids, job : AllJobs, answers : Nat]
      BY <1>2, OpenType
    <2>3. BootType'
      BY <1>2, BootTypeStep
    <2>4. RecvStatusCh' \in Seq(Statuses) /\ RecvRespCh' \in Seq(Responses)
      <3>1. CASE AnswerStep
        BY <3>1, ChannelsType
      <3>2. CASE ~AnswerStep
        BY <1>2, <3>2, NextCases
           DEF TypeInv, BeginSend, BeginAddress, BeginSearch,
           BeginFrame, NumberStep, Load, Store, Test, Reset, Take, WriteFrame, readerVars
      <3> QED
        BY <3>1, <3>2
    <2>5. driver' = driver
      BY <1>2, NextCases, AnswerStepQuiet
         DEF Quiet, BeginSend, BeginAddress, BeginSearch,
         BeginFrame, NumberStep, Load, Store, Test, Reset, Take, WriteFrame
    <2>6. /\ gen' \in [Goroutines -> Records]
          /\ \A g \in Goroutines :
               gen'[g].pc \in Places' /\ (gen'[g].pc # "idle" => gen'[g].job \in Jobs(g))
      BY <2>1 DEF GenProper, Proper
    <2>7. TypeOK'
      BY <2>1, <2>3, <2>5, <2>6 DEF TypeOK, BootType, TypeInv, Records
    <2> QED
      BY <2>1, <2>2, <2>3, <2>4, <2>6, <2>7 DEF TypeInv, BootType
  <1> QED
    BY <1>1, <1>2

LEMMA TypeInit ==
  ASSUME Init
  PROVE  TypeInv
  <1>1. Tries - 1 \in Nat /\ FrameMod \in Nat
    BY FrameNumbersAssumption
  <1>2. gen \in [Goroutines -> Records] /\ \A g \in Goroutines : gen[g] = Idle
    BY Modulus DEF Init, Records, Idle
  <1>3. open \subseteq [no : Numbers, id : Ids, job : AllJobs, answers : Nat]
    <2>1. ASSUME NEW f \in Unanswered
          PROVE  Open([no |-> f.no, id |-> Earlier, job |-> f.job])
                   \in [no : Numbers, id : Ids, job : AllJobs, answers : Nat]
      BY <1>1, FrameNumbersAssumption DEF Open, Numbers, Ids, AllJobs, Commands
    <2> QED
      BY <2>1 DEF Init
  <1>4. /\ boot \in [phase : {"asking", "done", "failed"}, try : 0 .. Tries - 1,
                    parts : Seq([id : Ids, job : AllJobs])]
        /\ boot.parts = <<>>
    <2>1. <<>> \in Seq([id : Ids, job : AllJobs])
      OBVIOUS
    <2> QED
      BY <1>1, <2>1 DEF Init
  <1>5. Len(AddressCommands) \in {1, 2}
    BY DEF AddressCommands
  <1>6. TypeOK
    BY <1>2, <1>4, <1>5, Modulus DEF Init, TypeOK, Records
  <1>7. RecvStatusCh \in Seq(Statuses) /\ RecvRespCh \in Seq(Responses)
    BY DEF Init
  <1>8. \A g \in Goroutines : gen[g].pc = "idle"
    BY <1>2 DEF Idle
  <1>9. "idle" \in Places
    BY DEF Places
  <1>10. 0 < Len(AddressCommands) /\ Len(<<>>) = 0
    BY <1>5
  <1> QED
    BY <1>3, <1>4, <1>6, <1>7, <1>8, <1>9, <1>10 DEF TypeInv, Init

-----------------------------------------------------------------------------
(* What the numbers are given to. *)

(* What is owed has a number, an id and a job. *)
LEMMA OwedOrigins ==
  ASSUME TypeInv, NEW g \in Goroutines
  PROVE  Owed(g) \subseteq Origins
  <1>1. \A f \in open : Origin(f) \in Origins
    BY DEF TypeInv, Origin, Origins
  <1>2. \A i \in DOMAIN RecvStatusCh : Origin(RecvStatusCh[i]) \in Origins
    <2>1. \A i \in DOMAIN RecvStatusCh : RecvStatusCh[i] \in Statuses
      BY ElementOfSeq DEF TypeInv
    <2> QED
      BY <2>1 DEF Origin, Origins, Statuses, AllJobs
  <1>3. \A i \in DOMAIN RecvRespCh : Origin(RecvRespCh[i]) \in Origins
    <2>1. \A i \in DOMAIN RecvRespCh : RecvRespCh[i] \in Responses
      BY ElementOfSeq DEF TypeInv
    <2> QED
      BY <2>1 DEF Origin, Origins, Responses, AllJobs
  <1> QED
    BY <1>1, <1>2, <1>3 DEF Owed, Channel

(* What a step of one goroutine leaves alone of the other's numbering.     *)
LEMMA OthersKept ==
  ASSUME TypeInv, NEW g \in Goroutines, NEW h \in Goroutines, g # h, NumberStep(h)
  PROVE  /\ driver' = driver /\ ~WriteFrame(g)
         /\ gen'[g].pc = gen[g].pc /\ gen'[g].no = gen[g].no
         /\ gen'[g].id = gen[g].id /\ gen'[g].job = gen[g].job
         /\ gen'[g].tmp = gen[g].tmp
         /\ gen[g].raced => gen'[g].raced
  <1>1. gen[g] \in Records /\ gen[h] \in Records /\ gen \in [Goroutines -> Records]
    BY TypeInvGen DEF GenProper, Proper
  <1>2. ASSUME NEW pc, Changed(h, pc)
        PROVE  gen'[g] = [gen[g] EXCEPT !.raced = @ \/ Numbering(g)]
    BY <1>2 DEF Changed
  <1>3. CASE Store(h) \/ Reset(h)
    <2>1. gen'[g] = [gen[g] EXCEPT !.raced = @ \/ Numbering(g)] /\ driver' = driver
      BY <1>2, <1>3 DEF Store, Reset
    <2>2. gen'[h].pc # gen[h].pc
      <3>1. Store(h) => After("store") # "store"
        BY StepOrder DEF TypeInv, TypeOK
      <3>2. Reset(h) => driver = "xbee" /\ After("test") = "take"
        BY TypeInvGen, StepOrder, FrameNumbersAssumption
           DEF GenProper, Proper, Places, Reset, TypeInv, TypeOK
      <3> QED
        BY <1>1, <1>3, <3>1, <3>2 DEF Store, Reset, Changed, Records
    <2>3. ~WriteFrame(g)
      BY <1>1, <2>2 DEF WriteFrame
    <2> QED
      BY <1>1, <2>1, <2>3 DEF Records
  <1>4. CASE Load(h) \/ Test(h) \/ Take(h) \/ WriteFrame(h)
    <2>1. gen'[g] = gen[g] /\ driver' = driver
      BY <1>1, <1>4 DEF Load, Test, Take, WriteFrame
    <2>2. ~WriteFrame(g)
      BY <1>1, <2>1 DEF WriteFrame, Records
    <2> QED
      BY <2>1, <2>2
  <1> QED
    BY <1>3, <1>4 DEF NumberStep

(* A frame that begins or ends leaves Writer.Seq alone. *)
LEMMA OtherSteps ==
  ASSUME TypeInv, BeginSend \/ BeginAddress \/ BeginSearch \/ AnswerStep,
         NEW g \in Goroutines
  PROVE  /\ UNCHANGED <<driver, Seq_, stores, lost>>
         /\ ~WriteFrame(g)
         /\ \/ gen'[g] = gen[g] \/ gen'[g] = Idle
            \/ gen[g].pc = "idle" /\ gen'[g].pc = Steps[1]
  <1>1. gen[g] \in Records /\ gen \in [Goroutines -> Records]
    BY TypeInvGen DEF GenProper, Proper
  <1>2. Steps[1] \in {"take", "load"}
    BY StepOrder DEF TypeInv, TypeOK
  <1>3. /\ UNCHANGED <<driver, Seq_, stores, lost>>
        /\ \/ gen'[g] = gen[g] \/ gen'[g] = Idle
           \/ gen[g].pc = "idle" /\ gen'[g].pc = Steps[1]
    <2>1. CASE AnswerStep
      BY <2>1, AnswerStepQuiet DEF Quiet
    <2>2. ASSUME NEW h \in Goroutines, NEW job, BeginFrame(h, job)
          PROVE  /\ UNCHANGED <<driver, Seq_, stores, lost>>
                 /\ gen'[g] = gen[g] \/ (gen[g].pc = "idle" /\ gen'[g].pc = Steps[1])
      BY <1>1, <2>2 DEF BeginFrame, Idle
    <2>3. "sender" \in Goroutines /\ "asker" \in Goroutines
      BY DEF Goroutines
    <2> QED
      BY <2>1, <2>2, <2>3 DEF BeginSend, BeginAddress, BeginSearch
  <1>4. WriteFrame(g) => gen[g].pc = "write" /\ gen'[g].pc = "wait"
    BY <1>1 DEF WriteFrame, Records
  <1> QED
    BY <1>2, <1>3, <1>4 DEF Idle

-----------------------------------------------------------------------------
(* The order of the numbers is kept. *)

(* A step that leaves Writer.Seq alone keeps the order. *)
LEMMA OrderKept ==
  ASSUME TypeInv, Next, NEW g \in Goroutines, Ordered(g), ~WriteFrame(g),
         UNCHANGED <<driver, Seq_, stores>>,
         Taken(g)' => Taken(g) /\ gen'[g].no = gen[g].no /\ gen'[g].id = gen[g].id
  PROVE  Ordered(g)'
  <1>1. Owed(g)' \subseteq Owed(g)
    BY OwedStep
  <1>2. Current' = Current
    BY DEF Current
  <1>3. ASSUME NEW p, Taken(g)'
        PROVE  /\ Precedes(p, gen'[g]) <=> Precedes(p, gen[g])
               /\ Precedes(gen'[g], Current) <=> Precedes(gen[g], Current)
    BY <1>3 DEF Precedes
  <1> QED
    BY <1>1, <1>2, <1>3 DEF Ordered

(* Writer.Seq goes on to a number that all others precede. *)
LEMMA OrderAdvances ==
  ASSUME TypeInv, Next, NEW g \in Goroutines, Ordered(g), ~WriteFrame(g),
         \A a : /\ a.no \in Numbers /\ a.id \in Int /\ Precedes(a, Current)
                => Precedes(a, Current'),
         Taken(g)' => Taken(g) /\ gen'[g].no = gen[g].no /\ gen'[g].id = gen[g].id
  PROVE  Ordered(g)'
  <1>1. Owed(g)' \subseteq Owed(g)
    BY OwedStep
  <1>2. ASSUME NEW p, Taken(g)'
        PROVE  /\ Precedes(p, gen'[g]) <=> Precedes(p, gen[g])
               /\ \A c : Precedes(gen'[g], c) <=> Precedes(gen[g], c)
    BY <1>2 DEF Precedes
  <1>3. \A p \in Owed(g) : p.no \in Numbers /\ p.id \in Int
    BY OwedOrigins DEF Origins, Ids, Earlier
  <1>4. gen[g].no \in Numbers /\ gen[g].id \in Int
    BY TypeInvGen DEF GenProper, Proper, Records
  <1> QED
    BY <1>1, <1>2, <1>3, <1>4 DEF Ordered

LEMMA InOrderStep ==
  ASSUME TypeInv, InOrder, Next
  PROVE  InOrder'
  <1> SUFFICES ASSUME ~lost', NEW g \in Goroutines
               PROVE  Ordered(g)'
    BY DEF InOrder
  <1>1. gen[g] \in Records /\ gen \in [Goroutines -> Records] /\ gen[g].pc \in Places
    BY TypeInvGen DEF GenProper, Proper
  <1>2. ~lost
    BY NextCases, AnswerStepQuiet
       DEF Quiet, BeginSend, BeginAddress, BeginSearch,
       BeginFrame, NumberStep, Load, Store, Test, Reset, Take, WriteFrame, history
  <1>3. Ordered(g)
    BY <1>2 DEF InOrder
  <1>4. Seq_ \in Numbers /\ stores \in Nat /\ driver \in {"xbee", "vxbee", "wifi"}
    BY FrameNumbersAssumption DEF TypeInv, TypeOK
  <1>5. ASSUME NEW h \in Goroutines, Store(h) \/ Reset(h)
        PROVE  Ordered(g)'
    <2>1. \A a : /\ a.no \in Numbers /\ a.id \in Int /\ Precedes(a, Current)
                 => Precedes(a, Current')
      <3>1. CASE Store(h)
        <4>1. Seq_ = gen[h].tmp /\ Current' = [no |-> Increased(Seq_), id |-> stores + 1]
          BY <3>1 DEF Store, Current
        <4> QED
          BY <1>4, <4>1, PrecedesIncrement DEF Current
      <3>2. CASE Reset(h)
        <4>1. Seq_ = 0 /\ Current' = [no |-> 1, id |-> stores]
          BY <3>2 DEF Reset, Current
        <4> QED
          BY <1>4, <4>1, PrecedesReset DEF Current
      <3> QED
        BY <1>5, <3>1, <3>2
    <2>2. NumberStep(h) /\ driver' = driver
      BY <1>5 DEF NumberStep, Store, Reset
    <2>3. /\ ~WriteFrame(g)
          /\ Taken(g)' => Taken(g) /\ gen'[g].no = gen[g].no /\ gen'[g].id = gen[g].id
      <3>1. CASE g # h
        BY <2>2, <3>1, OthersKept DEF Taken, Numbered
      <3>2. CASE g = h
        <4>1. PICK pc \in {After("store"), After("test")} :
                gen'[g] = [gen[g] EXCEPT !.pc = pc]
          BY <1>5, <3>2 DEF Store, Reset, Changed
        <4>2. CASE Store(h)
          <5>1. gen'[g].pc = After("store") /\ gen[g].pc = "store"
            BY <1>1, <3>2, <4>2 DEF Store, Changed, Records
          <5> QED
            BY <1>1, <1>4, <2>2, <3>2, <4>1, <5>1, StepOrder
               DEF Taken, Numbered, WriteFrame, Records, TypeInv, TypeOK
        <4>3. CASE Reset(h)
          <5>1. driver = "xbee"
            BY <1>1, <1>4, <3>2, <4>3 DEF Reset, Places
          <5>2. gen'[g].pc = "take" /\ gen[g].pc = "reset"
            BY <1>1, <3>2, <4>3, <5>1, StepOrder
               DEF Reset, Changed, Records, TypeInv, TypeOK
          <5> QED
            BY <1>1, <2>2, <3>2, <5>1, <5>2
               DEF Taken, Numbered, WriteFrame, Records
        <4> QED
          BY <1>5, <4>2, <4>3
      <3> QED
        BY <3>1, <3>2
    <2> QED
      BY <1>3, <2>1, <2>3, OrderAdvances
  <1>6. ASSUME NEW h \in Goroutines, Load(h) \/ Test(h) \/ Take(h) \/ WriteFrame(h), h # g
        PROVE  Ordered(g)'
    <2>1. NumberStep(h) /\ UNCHANGED <<driver, Seq_, stores>>
      BY <1>6 DEF NumberStep, Load, Test, Take, WriteFrame, history
    <2> QED
      BY <1>3, <1>6, <2>1, OthersKept, OrderKept DEF Taken, Numbered
  <1>7. CASE Load(g) \/ Test(g)
    <2>1. UNCHANGED <<driver, Seq_, stores>> /\ ~WriteFrame(g)
      BY <1>7 DEF Load, Test, WriteFrame, history
    <2>2. /\ gen'[g].no = gen[g].no /\ gen'[g].id = gen[g].id
          /\ Load(g) => gen'[g].pc = "store" /\ gen[g].pc = "load"
          /\ Test(g) => gen'[g].pc \in {"reset", "take"} /\ driver = "xbee"
      <3>1. Test(g) => driver = "xbee"
        BY <1>1, <1>4 DEF Test, Places
      <3> QED
        BY <1>1, <1>7, <3>1, StepOrder DEF Load, Test, Records, TypeInv, TypeOK
    <2> QED
      BY <1>3, <1>7, <2>1, <2>2, OrderKept DEF Taken, Numbered
  <1>8. CASE Take(g)
    <2>1. /\ gen'[g].no = Seq_ /\ gen'[g].id = stores
          /\ UNCHANGED <<driver, Seq_, stores>> /\ ~WriteFrame(g)
      BY <1>1, <1>8 DEF Take, WriteFrame, Records, history
    <2>2. Owed(g)' \subseteq Owed(g) /\ Current' = Current
      BY <2>1, OwedStep DEF Current
    <2>3. Precedes(gen'[g], Current)
      BY <1>4, <2>1, PrecedesRefl DEF Current
    <2>4. \A p : Precedes(p, Current) => Precedes(p, gen'[g])
      BY <2>1 DEF Precedes, Current
    <2> QED
      BY <1>3, <2>2, <2>3, <2>4 DEF Ordered
  <1>9. CASE WriteFrame(g)
    <2>1. /\ gen'[g].no = gen[g].no /\ gen'[g].id = gen[g].id /\ Taken(g)
          /\ UNCHANGED <<driver, Seq_, stores>>
      BY <1>1, <1>9 DEF WriteFrame, Records, history, Taken, Numbered
    <2>2. Current' = Current
      BY <2>1 DEF Current
    <2>3. \A p \in Owed(g)' : p \in Owed(g) \/ p = Origin(gen[g])
      BY OwedStep
    <2>4. \A p : Precedes(p, gen[g]) => Precedes(p, gen'[g])
      BY <2>1 DEF Precedes
    <2>5. /\ Precedes(Origin(gen[g]), gen[g])
          /\ Precedes(gen[g], Current) => /\ Precedes(Origin(gen[g]), Current)
                                          /\ Precedes(gen'[g], Current)
      <3>1. Origin(gen[g]).no = gen[g].no /\ Origin(gen[g]).id = gen[g].id
        BY DEF Origin
      <3>2. Precedes(Origin(gen[g]), gen[g])
        BY <1>1, <3>1, PrecedesRefl DEF Records
      <3> QED
        BY <2>1, <3>1, <3>2 DEF Precedes
    <2> QED
      BY <1>3, <2>1, <2>2, <2>3, <2>4, <2>5 DEF Ordered
  <1>10. CASE BeginSend \/ BeginAddress \/ BeginSearch \/ AnswerStep
    <2>1. /\ UNCHANGED <<driver, Seq_, stores>> /\ ~WriteFrame(g)
          /\ \/ gen'[g] = gen[g] \/ gen'[g] = Idle
             \/ gen[g].pc = "idle" /\ gen'[g].pc = Steps[1]
      BY <1>10, OtherSteps
    <2>2. Taken(g)' => gen'[g] = gen[g] /\ Taken(g)
      BY <2>1, StepOrder DEF Taken, Numbered, Idle, TypeInv, TypeOK
    <2> QED
      BY <1>3, <2>1, <2>2, OrderKept
  <1> QED
    BY <1>5, <1>6, <1>7, <1>8, <1>9, <1>10, NextCases DEF NumberStep

-----------------------------------------------------------------------------
(* Each frame of a goroutine has an id of its own. *)

LEMMA OwnIdsStep ==
  ASSUME TypeInv, OwnIds, Next
  PROVE  OwnIds'
  <1> SUFFICES ASSUME NEW g \in Goroutines
               PROVE  OwnId(g)'
    BY DEF OwnIds
  <1>1. gen[g] \in Records /\ gen \in [Goroutines -> Records] /\ gen[g].pc \in Places
    BY TypeInvGen DEF GenProper, Proper
  <1>2. OwnId(g)
    BY DEF OwnIds
  <1>3. stores \in Nat /\ driver \in {"xbee", "vxbee", "wifi"}
    BY FrameNumbersAssumption DEF TypeInv, TypeOK
  <1>4. \A p \in Owed(g) : p \in Origins
    BY OwedOrigins
  <1>5. ASSUME NEW h \in Goroutines, NumberStep(h), h # g
        PROVE  OwnId(g)'
    <2>1. Owed(g)' \subseteq Owed(g)
      BY <1>5, OthersKept, OwedStep
    <2>2. stores' \in Nat /\ stores <= stores'
      BY <1>3, <1>5 DEF NumberStep, Load, Store, Test, Reset, Take,
         WriteFrame, history
    <2> QED
      BY <1>1, <1>2, <1>3, <1>4, <1>5, <2>1, <2>2, OthersKept
         DEF OwnId, Taken, Numbered, Unstored, Origin, Origins, Ids, Earlier, Records
  <1>6. CASE Load(g) \/ Test(g)
    <2>1. UNCHANGED <<driver, stores>> /\ Owed(g)' \subseteq Owed(g)
      BY <1>6, OwedStep DEF Load, Test, WriteFrame, history
    <2>2. /\ gen'[g].id = gen[g].id
          /\ Load(g) => gen'[g].pc = "store" /\ gen[g].pc = "load"
          /\ Test(g) => /\ gen'[g].pc \in {"reset", "take"} /\ gen[g].pc = "test"
                        /\ driver = "xbee"
      <3>1. Test(g) => driver = "xbee"
        BY <1>1, <1>3 DEF Test, Places
      <3> QED
        BY <1>1, <1>6, <3>1, StepOrder DEF Load, Test, Records, TypeInv, TypeOK
    <2> QED
      BY <1>1, <1>2, <1>3, <1>4, <1>6, <2>1, <2>2
         DEF OwnId, Taken, Numbered, Unstored, Origins, Ids, Records
  <1>7. CASE Store(g)
    <2>1. driver' = driver /\ stores' = stores + 1 /\ Owed(g)' \subseteq Owed(g)
      BY <1>7, OwedStep DEF Store, WriteFrame
    <2>2. /\ gen'[g].id = gen[g].id /\ gen[g].pc = "store"
          /\ gen'[g].pc = IF driver = "wifi" THEN "write"
                          ELSE IF driver = "xbee" THEN "test" ELSE "take"
      BY <1>1, <1>7, StepOrder DEF Store, Changed, Records, TypeInv, TypeOK
    <2> QED
      BY <1>1, <1>2, <1>3, <1>4, <2>1, <2>2
         DEF OwnId, Taken, Numbered, Unstored, Origins, Ids, Records
  <1>8. CASE Reset(g)
    <2>1. driver' = driver /\ stores' = stores /\ Owed(g)' \subseteq Owed(g)
      BY <1>8, OwedStep DEF Reset, WriteFrame
    <2>2. driver = "xbee"
      BY <1>1, <1>3, <1>8 DEF Reset, Places
    <2>3. gen'[g].id = gen[g].id /\ gen[g].pc = "reset" /\ gen'[g].pc = "take"
      BY <1>1, <1>8, <2>2, StepOrder
         DEF Reset, Changed, Records, TypeInv, TypeOK
    <2> QED
      BY <1>1, <1>2, <1>3, <1>4, <2>1, <2>2, <2>3
         DEF OwnId, Taken, Numbered, Unstored, Origins, Ids, Records
  <1>9. CASE Take(g)
    <2>1. UNCHANGED <<driver, stores>> /\ Owed(g)' \subseteq Owed(g)
      BY <1>9, OwedStep DEF Take, WriteFrame, history
    <2>2. /\ gen'[g].id = stores /\ gen[g].pc = "take"
          /\ gen'[g].pc = IF driver = "wifi" THEN "load" ELSE "write"
      BY <1>1, <1>9, StepOrder DEF Take, Records, TypeInv, TypeOK
    <2> QED
      BY <1>1, <1>2, <1>3, <1>4, <2>1, <2>2
         DEF OwnId, Taken, Numbered, Unstored, Origins, Ids, Records
  <1>10. CASE WriteFrame(g)
    <2>1. UNCHANGED <<driver, stores>>
      BY <1>10 DEF WriteFrame, history
    <2>2. gen'[g].pc = "wait" /\ gen[g].pc = "write" /\ gen'[g] = [gen[g] EXCEPT !.pc = "wait"]
      BY <1>1, <1>10 DEF WriteFrame, Records
    <2>3. \A p \in Owed(g)' : p \in Owed(g) \/ p = Origin(gen[g])
      BY OwedStep
    <2>4. Origin(gen'[g]) = Origin(gen[g]) /\ Origin(gen[g]).id = gen[g].id
      BY <1>1, <2>2 DEF Origin, Records
    <2> QED
      BY <1>1, <1>2, <1>3, <1>4, <2>1, <2>2, <2>3, <2>4
         DEF OwnId, Taken, Numbered, Unstored, Origins, Ids, Records
  <1>11. CASE BeginSend \/ BeginAddress \/ BeginSearch \/ AnswerStep
    <2>1. /\ UNCHANGED <<driver, stores>> /\ ~WriteFrame(g)
          /\ \/ gen'[g] = gen[g] \/ gen'[g] = Idle
             \/ gen[g].pc = "idle" /\ gen'[g].pc = Steps[1]
      BY <1>11, OtherSteps
    <2>2. Owed(g)' \subseteq Owed(g)
      BY <2>1, OwedStep
    <2>3. \/ gen'[g] = gen[g]
          \/ gen'[g].pc \in {"idle", "load"}
          \/ gen'[g].pc = "take" /\ driver = "wifi"
      BY <2>1, StepOrder DEF Idle, TypeInv, TypeOK
    <2>4. CASE gen'[g] = gen[g]
      BY <1>2, <2>1, <2>2, <2>4 DEF OwnId, Taken, Numbered, Unstored
    <2>5. CASE gen'[g] # gen[g]
      <3>1. ~(Taken(g)') /\ gen'[g].pc \in Unstored'
        <4>1. driver = "wifi" => gen'[g].pc # "load"
          BY <2>1, <2>5, StepOrder DEF Idle, TypeInv, TypeOK
        <4>2. CASE driver = "wifi"
          <5>1. gen'[g].pc \in {"idle", "take"} /\ driver' = "wifi"
            BY <2>1, <2>3, <2>5, <4>1, <4>2
          <5> QED
            BY <5>1 DEF Taken, Numbered, Unstored
        <4>3. CASE driver # "wifi"
          <5>1. gen'[g].pc \in {"idle", "load"} /\ driver' # "wifi"
            BY <2>1, <2>3, <2>5, <4>3
          <5> QED
            BY <5>1 DEF Taken, Numbered, Unstored
        <4> QED
          BY <4>2, <4>3
      <3> QED
        BY <1>2, <2>1, <2>2, <2>3, <2>5, <3>1 DEF OwnId
    <2> QED
      BY <2>4, <2>5
  <1> QED
    BY <1>5, <1>6, <1>7, <1>8, <1>9, <1>10, <1>11, NextCases DEF NumberStep

-----------------------------------------------------------------------------
(* The number 0 *)

LEMMA ZeroStep ==
  ASSUME TypeInv, ZeroInv, ZeroNeedsRace, Next
  PROVE  ZeroInv' /\ ZeroNeedsRace'
  <1>1. driver' = driver
    BY NextCases, OtherSteps, OthersKept
       DEF Goroutines, NumberStep, Load, Store, Test,
       Reset, Take, WriteFrame
  <1> SUFFICES ASSUME driver = "xbee", NEW g \in Goroutines
               PROVE  /\ gen'[g].pc = "take" /\ Seq_' = 0 => gen'[g].raced
                      /\ gen'[g].pc \in {"write", "wait"} /\ gen'[g].no = 0
                         => gen'[g].raced
    BY <1>1 DEF ZeroInv, ZeroNeedsRace
  <1>2. gen[g] \in Records /\ gen \in [Goroutines -> Records]
    BY TypeInvGen DEF GenProper, Proper
  <1>3. /\ gen[g].pc = "take" /\ Seq_ = 0 => gen[g].raced
        /\ gen[g].pc \in {"write", "wait"} /\ gen[g].no = 0 => gen[g].raced
    BY DEF ZeroInv, ZeroNeedsRace
  <1>4. /\ Steps[1] = "load" /\ After("load") = "store" /\ After("store") = "test"
        /\ After("test") = "take" /\ After("take") = "write"
    BY StepsOfXbee
  <1>5. ASSUME NEW h \in Goroutines, NumberStep(h), h # g
        PROVE  /\ gen'[g].pc = "take" /\ Seq_' = 0 => gen'[g].raced
               /\ gen'[g].pc \in {"write", "wait"} /\ gen'[g].no = 0 => gen'[g].raced
    <2>1. Seq_' = Seq_ \/ Store(h) \/ Reset(h)
      BY <1>5 DEF NumberStep, Load, Test, Take, WriteFrame
    <2>2. ASSUME Store(h) \/ Reset(h), gen[g].pc = "take"
          PROVE  gen'[g].raced
      <3>1. PICK pc : Changed(h, pc)
        BY <2>2 DEF Store, Reset
      <3>2. gen'[g] = [gen[g] EXCEPT !.raced = @ \/ Numbering(g)]
        BY <1>5, <3>1 DEF Changed
      <3>3. gen'[g].raced = (gen[g].raced \/ Numbering(g))
        BY <1>2, <3>2 DEF Records
      <3>4. Numbering(g)
        BY <2>2 DEF Numbering
      <3> QED
        BY <3>3, <3>4
    <2> QED
      BY <1>3, <1>5, <2>1, <2>2, OthersKept
  <1>6. CASE Load(g) \/ Store(g) \/ Test(g) \/ Reset(g)
    <2>1. gen'[g].pc \in {"store", "test", "reset"}
          \/ (gen'[g].pc = "take" /\ Seq_' # 0)
      BY <1>2, <1>4, <1>6 DEF Load, Store, Test, Reset, Changed, Records
    <2> QED
      BY <2>1
  <1>7. CASE Take(g) \/ WriteFrame(g)
    <2>1. gen'[g].raced = gen[g].raced
      BY <1>2, <1>7 DEF Take, WriteFrame, Records
    <2>2. /\ Take(g) => gen[g].pc = "take" /\ gen'[g].pc = "write" /\ gen'[g].no = Seq_
          /\ WriteFrame(g) => /\ gen[g].pc = "write" /\ gen'[g].pc = "wait"
                              /\ gen'[g].no = gen[g].no
      BY <1>2, <1>4 DEF Take, WriteFrame, Records
    <2> QED
      BY <1>3, <1>7, <2>1, <2>2
  <1>8. CASE BeginSend \/ BeginAddress \/ BeginSearch \/ AnswerStep
    BY <1>3, <1>4, <1>8, OtherSteps DEF Idle
  <1> QED
    BY <1>5, <1>6, <1>7, <1>8, NextCases DEF NumberStep

-----------------------------------------------------------------------------
(* SetMacAddr *)

(* A new attempt counts at least the command that was in vain, *)
LEMMA AgainAttempted ==
  ASSUME BootType, boot.phase = "asking", boot' = Again(boot), driver' = driver,
         boot'.phase = "asking"
  PROVE  Attempted + 1 <= Attempted'
  <1>1. /\ Len(AddressCommands) \in {1, 2} /\ AddressCommands' = AddressCommands
        /\ Len(boot.parts) \in Nat /\ Len(boot.parts) < Len(AddressCommands)
        /\ boot.try \in Nat
    BY FrameNumbersAssumption DEF BootType, AddressCommands
  <1>2. /\ boot'.try = boot.try + 1 /\ boot'.parts = <<>>
    BY DEF BootType, Again
  <1>3. Len(boot'.parts) = 0
    BY <1>2
  <1> QED
    BY <1>1, <1>2, <1>3 DEF Attempted

(* and a part of the address counts as one command. *)
LEMMA PartAttempted ==
  ASSUME BootType, NEW answer, boot' = WithPart(boot, answer), driver' = driver,
         [id |-> answer.id, job |-> answer.job] \in [id : Ids, job : AllJobs]
  PROVE  /\ Attempted' = Attempted + 1
         /\ boot'.parts = Append(boot.parts, [id |-> answer.id, job |-> answer.job])
         /\ boot'.phase = IF Len(boot'.parts) = Len(AddressCommands) THEN "done"
                          ELSE boot.phase
  <1>1. /\ Len(AddressCommands) \in {1, 2} /\ AddressCommands' = AddressCommands
        /\ boot.try \in Nat
    BY FrameNumbersAssumption DEF BootType, AddressCommands
  <1>2. PICK parts :
          /\ parts = Append(boot.parts, [id |-> answer.id, job |-> answer.job])
          /\ boot' = [boot EXCEPT !.parts = parts,
                        !.phase = IF Len(parts) = Len(AddressCommands) THEN "done"
                                  ELSE @]
    BY DEF WithPart
  <1>3. /\ boot'.parts = parts /\ boot'.try = boot.try
        /\ boot'.phase = IF Len(parts) = Len(AddressCommands) THEN "done" ELSE boot.phase
    BY <1>2 DEF BootType
  <1>4. Len(parts) = Len(boot.parts) + 1 /\ Len(boot.parts) \in Nat
    BY <1>2, AppendProperties DEF BootType
  <1> QED
    BY <1>1, <1>2, <1>3, <1>4 DEF Attempted

(* The first answer of a channel is owed to its goroutine. *)
LEMMA HeadOwed ==
  ASSUME TypeInv
  PROVE  /\ RecvStatusCh # <<>> => /\ Origin(Head(RecvStatusCh)) \in Owed("sender")
                                   /\ Head(RecvStatusCh) \in Statuses
         /\ RecvRespCh # <<>> => /\ Origin(Head(RecvRespCh)) \in Owed("asker")
                                 /\ Head(RecvRespCh) \in Responses
  <1>1. RecvStatusCh \in Seq(Statuses) /\ RecvRespCh \in Seq(Responses)
    BY DEF TypeInv
  <1>2. /\ RecvStatusCh # <<>> => /\ Head(RecvStatusCh) = RecvStatusCh[1]
                                  /\ 1 \in DOMAIN RecvStatusCh
        /\ RecvRespCh # <<>> => Head(RecvRespCh) = RecvRespCh[1] /\ 1 \in DOMAIN RecvRespCh
    BY <1>1
  <1> QED
    BY <1>1, <1>2, HeadTailProperties DEF Owed, Channel

(* While SetMacAddr asks, each command makes one increment. *)
LEMMA BootingStep ==
  ASSUME TypeInv, Booting, Next
  PROVE  Booting'
  <1> SUFFICES ASSUME boot'.phase = "asking"
               PROVE  Booting'
    BY DEF Booting
  <1>1. "sender" \in Goroutines /\ "asker" \in Goroutines /\ "sender" # "asker"
    BY DEF Goroutines
  <1>2. /\ gen["asker"] \in Records /\ gen["sender"] \in Records
        /\ gen \in [Goroutines -> Records]
        /\ gen["asker"].pc \in Places
    BY <1>1, TypeInvGen DEF GenProper, Proper
  <1>3. stores \in Nat /\ driver \in {"xbee", "vxbee", "wifi"} /\ driver \in Drivers
    BY FrameNumbersAssumption DEF TypeInv, TypeOK
  <1>4. BootType
    BY DEF TypeInv, TypeOK, BootType
  <1>5. Attempted \in Nat
    BY <1>4, FrameNumbersAssumption DEF Attempted, BootType, AddressCommands
  <1>6. CASE NumberStep("asker")
    <2>1. UNCHANGED <<driver, boot>>
      BY <1>6 DEF NumberStep, Load, Store, Test, Reset, Take, WriteFrame,
         callerVars
    <2>2. Attempted' = Attempted /\ AddressCommands' = AddressCommands
      BY <2>1 DEF Attempted, AddressCommands
    <2>3. gen'["sender"].pc = gen["sender"].pc
      BY <1>1, <1>6, OthersKept
    <2>4. gen'["asker"].job = gen["asker"].job /\ gen["asker"].pc # "idle"
      BY <1>1, <1>2, <1>6 DEF NumberStep, Load, Store, Test, Reset, Take,
         WriteFrame,
         Changed, Records
    <2>5. CASE Load("asker")
      BY <1>1, <1>2, <1>3, <1>5, <2>1, <2>2, <2>3, <2>4, <2>5, StepOrder
         DEF Load, history, Booting, Unstored, Records
    <2>6. CASE Store("asker")
      <3>1. /\ ~lost' /\ stores' = stores + 1 /\ gen["asker"].pc = "store"
            /\ gen'["asker"].pc \in {"write", "test", "take"}
            /\ gen'["asker"].pc = "take" => driver # "wifi"
        BY <1>1, <1>2, <1>3, <2>1, <2>6, StepOrder
           DEF Store, Changed, Booting, Records
      <3> QED
        BY <1>3, <1>5, <2>1, <2>2, <2>3, <2>4, <3>1 DEF Booting, Unstored
    <2>7. CASE Test("asker") \/ Reset("asker")
      <3>1. driver = "xbee"
        BY <1>2, <1>3, <2>7 DEF Test, Reset, Places
      <3>2. /\ ~lost' /\ stores' = stores /\ gen["asker"].pc \in {"test", "reset"}
            /\ gen'["asker"].pc \in {"take", "reset"}
            /\ gen'["asker"].pc = "reset" => Seq_' = 0
        <4>1. CASE Test("asker")
          BY <1>1, <1>2, <1>3, <2>1, <3>1, <4>1, StepOrder
             DEF Test, history, Booting, Records
        <4>2. CASE Reset("asker")
          <5>1. gen'["asker"].pc = "take" /\ gen["asker"].pc = "reset"
            BY <1>1, <1>2, <1>3, <3>1, <4>2, StepOrder
               DEF Reset, Changed, Records
          <5>2. ~lost' /\ stores' = stores
            BY <2>1, <4>2 DEF Reset, Booting
          <5> QED
            BY <5>1, <5>2
        <4> QED
          BY <2>7, <4>1, <4>2
      <3> QED
        BY <1>3, <1>5, <2>1, <2>2, <2>3, <2>4, <3>1, <3>2 DEF Booting, Unstored
    <2>8. CASE Take("asker")
      <3>1. /\ UNCHANGED <<lost, stores>> /\ gen["asker"].pc = "take"
            /\ gen'["asker"].pc = IF driver = "wifi" THEN "load" ELSE "write"
        BY <1>1, <1>2, <1>3, <2>8, StepOrder DEF Take, history, Records
      <3> QED
        BY <1>3, <1>5, <2>1, <2>2, <2>3, <2>4, <3>1 DEF Booting, Unstored
    <2>9. CASE WriteFrame("asker")
      <3>1. /\ UNCHANGED <<lost, stores>> /\ gen["asker"].pc = "write"
            /\ gen'["asker"].pc = "wait"
        BY <1>1, <1>2, <2>9 DEF WriteFrame, history, Records
      <3> QED
        BY <1>3, <1>5, <2>1, <2>2, <2>3, <2>4, <3>1 DEF Booting, Unstored
    <2> QED
      BY <1>6, <2>5, <2>6, <2>7, <2>8, <2>9 DEF NumberStep
  <1>7. CASE BeginAddress
    <2>1. /\ UNCHANGED <<driver, boot, lost, stores, Seq_>>
          /\ gen'["sender"] = gen["sender"]
          /\ gen'["asker"].job = AddressCommands[Len(boot.parts) + 1]
          /\ gen["asker"].pc = "idle" /\ gen'["asker"].pc = Steps[1]
      BY <1>1, <1>2, <1>7 DEF BeginAddress, BeginFrame, callerVars, Idle
    <2>2. Attempted' = Attempted /\ AddressCommands' = AddressCommands
      BY <2>1 DEF Attempted, AddressCommands
    <2> QED
      BY <1>3, <1>5, <2>1, <2>2, StepOrder DEF Booting, Unstored
  <1>8. CASE TakeAddress \/ AddressTimeout
    <2>1. UNCHANGED <<driver, Seq_, stores, lost>>
      BY <1>8 DEF TakeAddress, AddressTimeout, history
    <2>2. boot.phase = "asking" /\ gen["asker"].pc = "wait"
      BY <1>8 DEF TakeAddress, AddressTimeout
    <2>3. CASE UNCHANGED <<boot, gen>>
      BY <2>1, <2>3 DEF Booting, Attempted, AddressCommands, Unstored
    <2>4. CASE Attempted + 1 <= Attempted' /\ gen' = [gen EXCEPT !["asker"] = Idle]
      <3>1. gen'["asker"] = Idle /\ gen'["sender"] = gen["sender"]
        BY <1>1, <1>2, <2>4
      <3>2. stores <= Attempted + 1
        BY <1>3, <1>5, <2>2 DEF Booting
      <3>3. Attempted' \in Nat
        <4>1. BootType'
          BY BootTypeStep
        <4>2. boot'.try \in Nat /\ Len(boot'.parts) \in Nat
              /\ Len(AddressCommands)' \in {1, 2}
          BY <4>1, FrameNumbersAssumption DEF BootType, AddressCommands
        <4> QED
          BY <4>2 DEF Attempted
      <3> QED
        <4>1. gen'["asker"].pc = "idle" /\ "idle" \in Unstored'
          BY <3>1 DEF Idle, Unstored
        <4>2. stores' <= Attempted'
          BY <1>3, <1>5, <2>1, <2>4, <3>2, <3>3
        <4>3. gen'["sender"].pc = "idle" /\ ~lost'
          BY <2>1, <2>2, <3>1 DEF Booting
        <4>4. stores' <= Attempted' + 1
          <5>1. \A m, n \in Nat : m <= n => m <= n + 1
            OBVIOUS
          <5>2. stores' \in Nat
            BY <1>3, <2>1
          <5> QED
            BY <3>3, <4>2, <5>1, <5>2
        <4> QED
          BY <4>1, <4>2, <4>3, <4>4 DEF Booting
    <2>5. CASE boot' = Again(boot) /\ gen' = [gen EXCEPT !["asker"] = Idle]
      BY <1>4, <2>1, <2>2, <2>4, <2>5, AgainAttempted
    <2>6. CASE /\ TakeAddress /\ boot' = WithPart(boot, Head(RecvRespCh))
               /\ gen' = [gen EXCEPT !["asker"] = Idle]
      <3>1. Head(RecvRespCh) \in Responses
        BY <2>6, HeadOwed DEF TakeAddress
      <3>2. [id |-> Head(RecvRespCh).id, job |-> Head(RecvRespCh).job]
              \in [id : Ids, job : AllJobs]
        BY <3>1 DEF Responses, AllJobs
      <3>3. Attempted' = Attempted + 1
        BY <1>4, <2>1, <2>6, <3>2, PartAttempted
      <3> QED
        BY <1>5, <2>4, <2>6, <3>3
    <2> QED
      BY <1>8, <2>3, <2>5, <2>6 DEF TakeAddress, AddressTimeout
  <1>9. CASE UNCHANGED <<driver, boot, Seq_, stores, lost, gen>>
    BY <1>9 DEF Booting, Attempted, AddressCommands, Unstored
  <1>10. boot.phase = "asking"
    BY <1>8, <1>9 DEF Next, BeginSend, BeginAddress, BeginSearch, BeginFrame,
       Load, Store,
       Test, Reset, Take, WriteFrame, StatusArrives, ResponseArrives, TakeStatus,
       StatusTimeout, TakeNode, NodesTimeout, TakeAddress, AddressTimeout, callerVars
  <1>11. ~NumberStep("sender") /\ ~BeginSend /\ ~BeginSearch
    BY <1>10 DEF Booting, NumberStep, Load, Store, Test, Reset, Take,
       WriteFrame,
       BeginSend, BeginSearch
  <1>12. ~TakeStatus /\ ~StatusTimeout /\ ~TakeNode /\ ~NodesTimeout
    <2>1. gen["asker"].pc = "wait" => gen["asker"].job # "ND"
      <3>1. Len(boot.parts) \in Nat /\ Len(boot.parts) < Len(AddressCommands)
        BY <1>4, <1>10 DEF BootType
      <3>2. AddressCommands[Len(boot.parts) + 1] # "ND"
        BY <3>1 DEF AddressCommands
      <3> QED
        BY <1>10, <3>2 DEF Booting
    <2> QED
      BY <1>10, <2>1 DEF Booting, TakeStatus, StatusTimeout, TakeNode,
         NodesTimeout, Waits
  <1>13. CASE \E f \in open, ok \in BOOLEAN : StatusArrives(f, ok) \/ ResponseArrives(f, ok)
    BY <1>9, <1>13 DEF StatusArrives, ResponseArrives, callerVars, history
  <1> QED
    BY <1>6, <1>7, <1>8, <1>11, <1>12, <1>13, NextCases
       DEF Goroutines, AnswerStep

(* An answer with the number of the frame that waits is its own, or older  *)
(* by a turn of Writer.Seq.                                                *)
LEMMA OwnAnswer ==
  ASSUME TypeInv, InOrder, OwnIds, NEW g \in Goroutines, NEW p \in Owed(g),
         gen[g].pc = "wait", p.no = gen[g].no, ~lost, p.id # Earlier
  PROVE  p = Origin(gen[g]) \/ gen[g].id - p.id >= FrameMod - 1
  <1>1. gen[g] \in Records /\ p \in Origins
    BY TypeInvGen, OwedOrigins DEF GenProper, Proper
  <1>2. Taken(g)
    BY DEF Taken, Numbered
  <1>3. Precedes(p, gen[g])
    BY <1>2 DEF InOrder, Ordered
  <1>4. p.no \in Numbers /\ p.id \in Nat /\ gen[g].id \in Nat
    BY <1>1 DEF Records, Origins, Ids
  <1>5. p.id = gen[g].id \/ gen[g].id - p.id >= FrameMod - 1
    BY <1>3, <1>4, SameNumber
  <1>6. p.id < gen[g].id \/ p = Origin(gen[g])
    BY <1>2 DEF OwnIds, OwnId
  <1> QED
    BY <1>4, <1>5, <1>6

(* So an answer with the right number is one that AnswersOwn allows. *)
LEMMA OwnAnswerOrLate ==
  ASSUME TypeInv, InOrder, OwnIds, NEW g \in Goroutines, NEW a,
         Origin(a) \in Owed(g), gen[g].pc = "wait", a.no = gen[g].no
  PROVE  AnswersOwn(gen[g].id, a) \/ lost
  <1>1. Origin(a).no = a.no /\ Origin(a).id = a.id /\ Origin(gen[g]).id = gen[g].id
    BY DEF Origin
  <1> QED
    BY <1>1, OwnAnswer DEF AnswersOwn

(* SetMacAddr sends fewer commands than there are numbers.                 *)
LEMMA OwnAnswerAtBoot ==
  ASSUME TypeInv, InOrder, OwnIds, Booting, boot.phase = "asking", NEW p \in Owed("asker"),
         gen["asker"].pc = "wait", p.no = gen["asker"].no, p.id # Earlier
  PROVE  p = Origin(gen["asker"])
  <1>1. "asker" \in Goroutines
    BY DEF Goroutines
  <1>2. gen["asker"] \in Records /\ p \in Origins
    BY <1>1, TypeInvGen, OwedOrigins DEF GenProper, Proper
  <1>3. p = Origin(gen["asker"]) \/ gen["asker"].id - p.id >= FrameMod - 1
    BY <1>1, OwnAnswer DEF Booting
  <1>4. Taken("asker")
    BY DEF Taken, Numbered
  <1>5. /\ gen["asker"].id <= stores /\ stores <= Attempted + 1
        /\ driver = "wifi" => gen["asker"].id < stores
        /\ driver = "wifi" \/ 1 <= p.id
    BY <1>1, <1>4 DEF Booting, OwnIds, OwnId
  <1>6. /\ p.id \in Nat /\ gen["asker"].id \in Nat /\ stores \in Nat
        /\ FrameMod \in Nat /\ Tries \in Nat /\ FrameMod > 2 * Tries
    BY <1>2, FrameNumbersAssumption DEF Origins, Ids, Records, TypeInv
  <1>7. /\ boot.try \in 0 .. Tries - 1 /\ Len(boot.parts) \in Nat
        /\ Len(boot.parts) < Len(AddressCommands)
    BY DEF TypeInv
  <1>8. CASE driver = "wifi"
    <2>1. Len(AddressCommands) = 1
      BY <1>8 DEF AddressCommands
    <2>2. Attempted = boot.try
      BY <1>7, <2>1 DEF Attempted
    <2>3. gen["asker"].id < stores /\ stores <= boot.try + 1 /\ boot.try + 1 <= Tries
      BY <1>5, <1>6, <1>7, <1>8, <2>2
    <2>4. gen["asker"].id - p.id < Tries
      BY <1>6, <1>7, <2>3
    <2> QED
      BY <1>3, <1>6, <2>4
  <1>9. CASE driver # "wifi"
    <2>1. Len(AddressCommands) = 2
      BY <1>9 DEF AddressCommands
    <2>2. Attempted <= boot.try * 2 + 1 /\ Attempted \in Nat
      BY <1>7, <2>1 DEF Attempted
    <2>3. gen["asker"].id - p.id < 2 * Tries
      BY <1>5, <1>6, <1>7, <1>9, <2>2
    <2> QED
      BY <1>3, <1>6, <2>3
  <1> QED
    BY <1>8, <1>9

LEMMA PartsInOrderStep ==
  ASSUME TypeInv, InOrder, OwnIds, Booting, PartsInOrder, Next
  PROVE  PartsInOrder'
  <1>1. driver' = driver
    BY NextCases, OtherSteps, OthersKept
       DEF Goroutines, NumberStep, Load, Store, Test,
       Reset, Take, WriteFrame
  <1>2. BootType /\ AddressCommands' = AddressCommands
    BY <1>1 DEF TypeInv, TypeOK, BootType, AddressCommands
  <1>3. CASE UNCHANGED boot
    BY <1>2, <1>3 DEF PartsInOrder
  <1>4. CASE boot.phase = "asking" /\ boot' = Again(boot)
    <2>1. boot'.phase # "done" /\ (boot'.parts = boot.parts \/ boot'.parts = <<>>)
      BY <1>2, <1>4 DEF Again, BootType
    <2>2. DOMAIN <<>> = {}
      OBVIOUS
    <2> QED
      BY <1>2, <2>1, <2>2 DEF PartsInOrder
  <1>5. CASE /\ TakeAddress /\ Matches(Head(RecvRespCh), gen["asker"].no)
             /\ boot' = WithPart(boot, Head(RecvRespCh))
    <2> DEFINE answer == Head(RecvRespCh)
               part == [id |-> answer.id, job |-> answer.job]
    <2>1. /\ answer \in Responses /\ Origin(answer) \in Owed("asker")
          /\ boot.phase = "asking" /\ gen["asker"].pc = "wait"
          /\ answer.no = gen["asker"].no
      BY <1>5, HeadOwed DEF TakeAddress, Matches
    <2>2. part \in [id : Ids, job : AllJobs]
      BY <2>1 DEF Responses, AllJobs
    <2>3. /\ boot'.parts = Append(boot.parts, part)
          /\ boot'.phase = IF Len(boot'.parts) = Len(AddressCommands) THEN "done"
                           ELSE "asking"
      BY <1>1, <1>2, <1>5, <2>1, <2>2, PartAttempted
    <2>4. part.job = AddressCommands[Len(boot.parts) + 1] \/ part.id = Earlier
      <3>1. Origin(answer) = Origin(gen["asker"]) \/ answer.id = Earlier
        BY <2>1, OwnAnswerAtBoot DEF Origin
      <3>2. Origin(answer).job = answer.job /\ Origin(gen["asker"]).job = gen["asker"].job
        BY DEF Origin
      <3> QED
        BY <2>1, <3>1, <3>2 DEF Booting
    <2> HIDE DEF part, answer
    <2>5. boot.parts \in Seq([id : Ids, job : AllJobs])
      BY <1>2 DEF BootType
    <2>6. \A i \in DOMAIN boot'.parts :
            \/ i \in DOMAIN boot.parts /\ boot'.parts[i] = boot.parts[i]
            \/ i = Len(boot.parts) + 1 /\ boot'.parts[i] = part
      BY <2>2, <2>3, <2>5
    <2> QED
      <3>1. ASSUME NEW i \in DOMAIN boot'.parts
            PROVE  boot'.parts[i].job = AddressCommands[i] \/ boot'.parts[i].id = Earlier
        BY <2>4, <2>6 DEF PartsInOrder
      <3>2. boot'.phase = "done" => Len(boot'.parts) = Len(AddressCommands)
        BY <2>3
      <3> QED
        BY <1>2, <3>1, <3>2 DEF PartsInOrder
  <1>6. \/ UNCHANGED boot
        \/ boot.phase = "asking" /\ boot' = Again(boot)
        \/ /\ TakeAddress /\ Matches(Head(RecvRespCh), gen["asker"].no)
           /\ boot' = WithPart(boot, Head(RecvRespCh))
    <2>1. CASE TakeAddress
      BY <2>1 DEF TakeAddress
    <2> QED
      BY <2>1 DEF Next, BeginSend, BeginAddress, BeginSearch, BeginFrame,
         Load, Store,
         Test, Reset, Take, WriteFrame, StatusArrives, ResponseArrives, TakeStatus,
         StatusTimeout, TakeNode, NodesTimeout, AddressTimeout, callerVars
  <1> QED
    BY <1>3, <1>4, <1>5, <1>6

-----------------------------------------------------------------------------
(* What SendPacketWithResponse and GetNodes return. *)

(* A lost increment is remembered. *)
LEMMA LostStays ==
  ASSUME TypeInv, Next
  PROVE  lost => lost'
  BY NextCases, AnswerStepQuiet DEF Quiet, BeginSend, BeginAddress, BeginSearch,
     BeginFrame, NumberStep, Load, Store, Test, Reset, Take, WriteFrame, history

LEMMA NodesSoFarStep ==
  ASSUME TypeInv, InOrder, OwnIds, Booting, NodesSoFar, Next
  PROVE  NodesSoFar'
  <1> SUFFICES ASSUME resp' # {}
               PROVE  NodesSoFar'
    BY DEF NodesSoFar
  <1>1. "sender" \in Goroutines /\ "asker" \in Goroutines /\ "sender" # "asker"
    BY DEF Goroutines
  <1>2. gen \in [Goroutines -> Records] /\ gen["asker"] \in Records
    BY <1>1, TypeInvGen DEF GenProper, Proper
  <1>3. ASSUME resp' \subseteq resp, gen'["asker"].pc = gen["asker"].pc,
               gen'["asker"].job = gen["asker"].job, gen'["asker"].id = gen["asker"].id
        PROVE  NodesSoFar'
    BY <1>3, LostStays DEF NodesSoFar, Waits, AnswersOwn
  <1>4. CASE NumberStep("sender")
    <2>1. resp' \subseteq resp
      BY <1>4 DEF NumberStep, Load, Store, Test, Reset, Take, WriteFrame,
         callerVars
    <2> QED
      BY <1>1, <1>3, <1>4, <2>1, OthersKept
  <1>5. CASE resp' \subseteq resp /\ gen["asker"].pc # "wait"
    BY <1>5 DEF NodesSoFar, Waits
  <1>6. CASE NumberStep("asker") \/ BeginAddress \/ BeginSearch
    BY <1>5, <1>6 DEF NumberStep, Load, Store, Test, Reset, Take, WriteFrame,
       callerVars,
       BeginAddress, BeginSearch, BeginFrame
  <1>7. CASE BeginSend \/ TakeStatus \/ StatusTimeout
             \/ \E f \in open, ok \in BOOLEAN : StatusArrives(f, ok) \/ ResponseArrives(f, ok)
    <2>1. resp' = resp /\ gen'["asker"] = gen["asker"]
      BY <1>1, <1>2, <1>7 DEF BeginSend, BeginFrame, TakeStatus, StatusTimeout,
         StatusArrives, ResponseArrives, callerVars
    <2> QED
      BY <1>3, <2>1
  <1>8. CASE TakeNode
    <2> DEFINE answer == Head(RecvRespCh)
    <2>1. CASE UNCHANGED <<gen, resp>>
      BY <1>3, <2>1
    <2>2. CASE /\ Matches(answer, gen["asker"].no)
               /\ resp' = resp \cup {answer} /\ UNCHANGED gen
      <3>1. Waits("asker", "ND") /\ gen["asker"].pc = "wait" /\ UNCHANGED lost
        BY <1>8 DEF TakeNode, Waits, history
      <3>2. Origin(answer) \in Owed("asker") /\ answer.no = gen["asker"].no
        BY <1>8, <2>2, HeadOwed DEF TakeNode, Matches
      <3>3. AnswersOwn(gen["asker"].id, answer) \/ lost
        BY <1>1, <3>1, <3>2, OwnAnswerOrLate
      <3> QED
        BY <2>2, <3>1, <3>3 DEF NodesSoFar, Waits, AnswersOwn
    <2> QED
      BY <1>8, <2>1, <2>2 DEF TakeNode
  <1>9. CASE TakeAddress \/ AddressTimeout
    <2>1. boot.phase = "asking" /\ resp' = resp /\ gen["asker"].pc = "wait"
      BY <1>9 DEF TakeAddress, AddressTimeout
    <2>2. gen["asker"].job # "ND"
      <3>1. Len(boot.parts) \in Nat /\ Len(boot.parts) < Len(AddressCommands)
        BY <2>1 DEF TypeInv
      <3>2. AddressCommands[Len(boot.parts) + 1] # "ND"
        BY <3>1 DEF AddressCommands
      <3> QED
        BY <2>1, <3>2 DEF Booting
    <2> QED
      BY <2>1, <2>2 DEF NodesSoFar, Waits
  <1>10. ~NodesTimeout
    BY DEF NodesTimeout
  <1> QED
    BY <1>4, <1>6, <1>7, <1>8, <1>9, <1>10, NextCases DEF AnswerStep, Goroutines

LEMMA ConfirmedStep ==
  ASSUME TypeInv, InOrder, OwnIds, ConfirmedByOwnStatus, Next
  PROVE  ConfirmedByOwnStatus'
  <1>1. CASE confirmed' = confirmed
    BY <1>1, LostStays DEF ConfirmedByOwnStatus, AnswersOwn
  <1>2. CASE TakeStatus /\ confirmed' # confirmed
    <2> DEFINE answer == Head(RecvStatusCh)
    <2>1. /\ confirmed' = confirmed \cup {<<gen["sender"].id, answer>>}
          /\ answer.no = gen["sender"].no /\ gen["sender"].pc = "wait" /\ UNCHANGED lost
          /\ Origin(answer) \in Owed("sender")
      BY <1>2, HeadOwed DEF TakeStatus, Matches, Waits, history
    <2>2. AnswersOwn(gen["sender"].id, answer) \/ lost
      BY <2>1, OwnAnswerOrLate DEF Goroutines
    <2> HIDE DEF answer
    <2> QED
      BY <2>1, <2>2 DEF ConfirmedByOwnStatus, AnswersOwn
  <1>3. TakeStatus \/ confirmed' = confirmed
    BY DEF Next, BeginSend, BeginAddress, BeginSearch, BeginFrame, Load, Store,
       Test, Reset, Take, WriteFrame, StatusArrives, ResponseArrives,
       StatusTimeout, TakeNode, NodesTimeout, TakeAddress, AddressTimeout, callerVars
  <1> QED
    BY <1>1, <1>2, <1>3

LEMMA NodesStep ==
  ASSUME TypeInv, NodesSoFar, NodesAnswerThisSearch, Next
  PROVE  NodesAnswerThisSearch'
  <1>1. CASE nodes' = nodes
    BY <1>1, LostStays DEF NodesAnswerThisSearch, AnswersOwn
  <1>2. CASE NodesTimeout
    <2>1. /\ nodes' = nodes \cup {<<gen["asker"].id, answer>> : answer \in resp}
          /\ UNCHANGED lost
      BY <1>2 DEF NodesTimeout, history
    <2>2. \A a \in resp : AnswersOwn(gen["asker"].id, a) \/ lost
      BY DEF NodesSoFar
    <2> QED
      BY <2>1, <2>2 DEF NodesAnswerThisSearch, AnswersOwn
  <1>3. NodesTimeout \/ nodes' = nodes
    BY DEF Next, BeginSend, BeginAddress, BeginSearch, BeginFrame, Load, Store,
       Test, Reset, Take, WriteFrame, StatusArrives, ResponseArrives, TakeStatus,
       StatusTimeout, TakeNode, TakeAddress, AddressTimeout, callerVars
  <1> QED
    BY <1>1, <1>2, <1>3

-----------------------------------------------------------------------------
(* The theorems *)

LEMMA NumbersInit ==
  ASSUME Init
  PROVE  NumbersInv
  <1>1. TypeInv
    BY TypeInit
  <1>2. \A g \in Goroutines : gen[g].pc = "idle"
    BY DEF Init, Idle
  <1>3. \A g \in Goroutines : \A p \in Owed(g) : p.id = Earlier
    <2>1. \A f \in open : Origin(f).id = Earlier
      BY DEF Init, Open, Origin
    <2>2. DOMAIN RecvStatusCh = {} /\ DOMAIN RecvRespCh = {}
      BY DEF Init
    <2> QED
      BY <2>1, <2>2 DEF Owed, Channel
  <1>4. InOrder
    BY <1>2, <1>3 DEF InOrder, Ordered, Taken, Numbered
  <1>5. OwnIds
    BY <1>2, <1>3 DEF OwnIds, OwnId, Taken, Numbered, Unstored
  <1>6. Booting
    <2>1. Attempted = 0
      <3>1. Len(AddressCommands) \in {1, 2}
        BY DEF AddressCommands
      <3> QED
        BY <3>1 DEF Init, Attempted
    <2> QED
      BY <1>2, <2>1 DEF Init, Booting, Goroutines
  <1>7. PartsInOrder /\ NodesSoFar /\ ZeroInv
    <2>1. boot.parts = <<>> /\ boot.phase # "done" /\ DOMAIN <<>> = {}
      BY DEF Init
    <2> QED
      BY <1>2, <2>1 DEF Init, PartsInOrder, NodesSoFar, ZeroInv
  <1>8. ConfirmedByOwnStatus /\ NodesAnswerThisSearch /\ ZeroNeedsRace
    BY <1>2 DEF Init, ConfirmedByOwnStatus, NodesAnswerThisSearch, ZeroNeedsRace
  <1> QED
    BY <1>1, <1>4, <1>5, <1>6, <1>7, <1>8 DEF NumbersInv

LEMMA NumbersStep ==
  ASSUME NumbersInv, [Next]_vars
  PROVE  NumbersInv'
  <1>1. CASE Next
    BY <1>1, TypeStep, InOrderStep, OwnIdsStep, BootingStep, PartsInOrderStep,
       NodesSoFarStep, ZeroStep, ConfirmedStep, NodesStep DEF NumbersInv
  <1>2. CASE UNCHANGED vars
    <2>1. UNCHANGED <<driver, Seq_, gen, stores, lost, open, RecvStatusCh, RecvRespCh,
                      boot, resp, confirmed, nodes>>
      BY <1>2 DEF vars, history, readerVars, callerVars
    <2>2. TypeInv'
      BY <1>2, TypeStep DEF NumbersInv
    <2>3. \A g \in Goroutines : Owed(g)' = Owed(g)
      BY <2>1 DEF Owed, Channel
    <2>4. InOrder' /\ OwnIds'
      BY <2>1, <2>3 DEF NumbersInv, InOrder, Ordered, OwnIds, OwnId, Taken,
         Numbered,
         Unstored, Current
    <2>5. Booting' /\ PartsInOrder' /\ NodesSoFar' /\ ZeroInv'
      BY <2>1 DEF NumbersInv, Booting, Attempted, AddressCommands, Unstored,
         PartsInOrder,
         NodesSoFar, Waits, ZeroInv
    <2>6. ConfirmedByOwnStatus' /\ NodesAnswerThisSearch' /\ ZeroNeedsRace'
      BY <2>1 DEF NumbersInv, ConfirmedByOwnStatus, NodesAnswerThisSearch,
         ZeroNeedsRace
    <2> QED
      BY <2>2, <2>4, <2>5, <2>6 DEF NumbersInv
  <1> QED
    BY <1>1, <1>2

LEMMA NumbersInvariant == Spec => []NumbersInv
  BY NumbersInit, NumbersStep, PTL DEF Spec

(* The variables of FrameNumbers have their types. *)
THEOREM FrameNumbersTypeCorrect == Spec => []TypeOK
  <1>1. NumbersInv => TypeOK
    BY DEF NumbersInv, TypeInv
  <1> QED
    BY <1>1, NumbersInvariant, PTL

(* A frame that SendPacketWithResponse of any driver calls sent was        *)
(* confirmed by its own status, or by that of a frame a full turn of       *)
(* Writer.Seq older or of the process before, unless an increment was      *)
(* overwritten (writer.go:73), whatever the modulus and however many       *)
(* statuses come late.                                                     *)
THEOREM StatusIsOwn == Spec => []ConfirmedByOwnStatus
  <1>1. NumbersInv => ConfirmedByOwnStatus
    BY DEF NumbersInv
  <1> QED
    BY <1>1, NumbersInvariant, PTL

(* The nodes that GetNodes returns answered this search, with the same     *)
(* exceptions (writer.go:93-111).                                          *)
THEOREM NodesAreOwn == Spec => []NodesAnswerThisSearch
  <1>1. NumbersInv => NodesAnswerThisSearch
    BY DEF NumbersInv
  <1> QED
    BY <1>1, NumbersInvariant, PTL

(* An xbee frame is numbered 0 only if the other goroutine changed         *)
(* Writer.Seq between the test for 0 and the use (writer.go:73-82).        *)
THEOREM ZeroIsARace == Spec => []ZeroNeedsRace
  <1>1. NumbersInv => ZeroNeedsRace
    BY DEF NumbersInv
  <1> QED
    BY <1>1, NumbersInvariant, PTL

(* The address that SetMacAddr puts together has one answer to each of its *)
(* commands, in order, however many attempts it takes and however late     *)
(* their answers come; an answer to the process before may come between.   *)
THEOREM AddressPartsInOrder == Spec => []AddressInOrder
  <1>1. NumbersInv => AddressInOrder
    <2>1. ASSUME NumbersInv, boot.phase = "done", NEW i \in DOMAIN AddressCommands
          PROVE  boot.parts[i].job = AddressCommands[i] \/ boot.parts[i].id = Earlier
      <3>1. Len(boot.parts) = Len(AddressCommands)
        BY <2>1 DEF NumbersInv, PartsInOrder
      <3>2. DOMAIN boot.parts = 1 .. Len(boot.parts)
        BY <2>1 DEF NumbersInv, TypeInv
      <3>3. DOMAIN AddressCommands = 1 .. Len(AddressCommands)
        <4>1. CASE driver = "wifi"
          BY <4>1 DEF AddressCommands
        <4>2. CASE driver # "wifi"
          BY <4>2 DEF AddressCommands
        <4> QED
          BY <4>1, <4>2
      <3>4. i \in DOMAIN boot.parts
        BY <3>1, <3>2, <3>3
      <3> QED
        BY <2>1, <3>4 DEF NumbersInv, PartsInOrder
    <2> QED
      BY <2>1 DEF AddressInOrder
  <1> QED
    BY <1>1, NumbersInvariant, PTL
=============================================================================
