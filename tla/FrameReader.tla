---------------------------- MODULE FrameReader ----------------------------
(***************************************************************************)
(* The reader of a driver: ReadByte, which moves bytes from the port to    *)
(* RecvByteCh; ReadFrame, which finds frames in them and puts each into    *)
(* the channel of its kind; Start, and Stop with Clear.                    *)
(*                                                                         *)
(* What fills the port is external for xbee and wifi (the radio module on  *)
(* a serial line) and VirtualXbeeDevice for vxbee, whose Write and Read    *)
(* put the bytes of their frames into one channel.                         *)
(*                                                                         *)
(* A frame is a delimiter, a length, a body whose first byte is its type,  *)
(* and a checksum.  The length has one byte here (two in the code); bytes  *)
(* of the body may be delimiters, as nothing escapes them.                 *)
(***************************************************************************)
EXTENDS Integers, Sequences

CONSTANTS
  Drivers,    \* the drivers to look at
  Shapes,     \* frames that may come: records of a kind, payload and sum
  Delimiter,  \* 0x7e
  ByteCap,    \* capacity of RecvByteCh, and of RecvData (10000)
  FrameCap,   \* capacity of each channel of frames (64)
  MaxFrames,  \* bound: frames that come
  MaxFramesOther, \* bound: the same with another Reader in the program
  MaxRepeats, \* bound: reads of an idle port
  MaxStops    \* bound: calls of Stop

Kinds == {"resp", "status", "packet"}

(* The types of frames; no other byte has these values here. *)
TypeByte == [resp |-> 101, status |-> 102, packet |-> 103]

ASSUME FrameReaderAssumption ==
  /\ Drivers \subseteq {"xbee", "vxbee", "wifi"}
  /\ Delimiter \in 0 .. 100 /\ ByteCap \in Nat \ {0} /\ FrameCap \in Nat \ {0}
  /\ MaxFrames \in Nat /\ MaxFramesOther \in Nat
  /\ MaxRepeats \in Nat /\ MaxStops \in Nat
  /\ Shapes \subseteq [kind: Kinds, payload: Seq(0 .. 100), sum: 0 .. 100]

VARIABLES
  driver,     \* which driver this is
  wire,       \* bytes in the port, or in RecvData
  writer,     \* for each writer of wire: what is left of its frame
  rb,         \* ReadByte
  RecvByteCh, \* the bytes between ReadByte and ReadFrame
  rf,         \* ReadFrame and the ReadBytes that it calls
  RecvCh,     \* how many frames are in RecvRespCh, RecvStatusCh, RecvPacketCh
  ctl,        \* the caller of Start and Stop
  cancelled,  \* is the context of ReadByte and ReadFrame done?
  other,      \* the other Reader of the package: there is none, or it has not
              \* been started, or was started, or stopped
  cancel,     \* whose context the package's variable cancel ends
  came,       \* bound's counter: frames that came
  due,        \* history: those ReadFrame has not put into a channel, in order
  disturbed,  \* history: may something have spoilt the stream of bytes?
  repeats,    \* bound's counter: reads of an idle port
  stops       \* bound's counter: calls of Stop

portVars == <<wire, writer, came>>
readVars == <<rb, rf, RecvByteCh, RecvCh>>
otherVars == <<other, cancel>>
ctlVars == <<ctl, cancelled, stops, otherVars>>
vars == <<driver, portVars, readVars, ctlVars, due, disturbed, repeats>>

(* The module on a serial line is one writer; the virtual device has two.  *)
Writers == IF driver = "vxbee" THEN {"Write", "Read"} ELSE {"module"}

WrittenBy(w) == CASE w = "Write" -> {"resp", "status"}
                  [] w = "Read" -> {"packet"}
                  [] OTHER -> Kinds

(* The length counts the checksum with wifi and not with the others. *)
Encode(s) ==
  LET length == Len(s.payload) + (IF driver = "wifi" THEN 2 ELSE 1) IN
  <<Delimiter, length, TypeByte[s.kind]>> \o s.payload \o <<s.sum>>

Searching == [pc |-> "search", frame |-> <<>>, got |-> <<>>]
Reading == [pc |-> "read", data |-> 0]

Init ==
  /\ driver \in Drivers
  /\ wire = <<>> /\ writer = [w \in Writers |-> <<>>]
  /\ rb = Reading /\ RecvByteCh = <<>>
  /\ rf = Searching /\ RecvCh = [k \in Kinds |-> 0]
  /\ ctl = [pc |-> "running", todo |-> <<>>] /\ cancelled = FALSE
  /\ other \in {"none", "off", "on"} /\ cancel = "own"
  /\ came = 0 /\ due = <<>> /\ disturbed = FALSE
  /\ repeats = 0 /\ stops = 0

-----------------------------------------------------------------------------
(* The port: the radio module, or VirtualXbeeDevice.Write and Read *)

Midst == \E w \in Writers : writer[w] # <<>>

WriteFirst(w, s) ==
  /\ came < (IF other = "none" THEN MaxFrames ELSE MaxFramesOther)
  /\ Len(wire) < ByteCap /\ writer[w] = <<>>
  /\ s.kind \in WrittenBy(w)
  /\ wire' = Append(wire, Head(Encode(s)))
  /\ writer' = [writer EXCEPT ![w] = Tail(Encode(s))]
  /\ came' = came + 1
  /\ due' = Append(due, Encode(s))
  /\ disturbed' = (disturbed \/ Midst)
  /\ UNCHANGED <<driver, readVars, ctlVars, repeats>>

WriteRest(w) ==
  /\ writer[w] # <<>> /\ Len(wire) < ByteCap
  /\ wire' = Append(wire, Head(writer[w]))
  /\ writer' = [writer EXCEPT ![w] = Tail(@)]
  /\ UNCHANGED <<driver, readVars, ctlVars, came, due, disturbed, repeats>>

-----------------------------------------------------------------------------
(* ReadByte *)

ReadPort ==
  /\ rb.pc = "read" /\ wire # <<>>
  /\ rb' = [pc |-> "have", data |-> Head(wire)]
  /\ wire' = Tail(wire)
  /\ UNCHANGED <<driver, due, writer, came, rf, RecvByteCh, RecvCh, ctlVars,
                 disturbed, repeats>>

(* Port.Read returns without a byte after 500 ms, and its result is not    *)
(* looked at: data still holds the byte before.  This does harm only in    *)
(* the middle of a frame, or if that byte is a delimiter.                  *)
ReadNothing ==
  /\ driver # "vxbee" /\ rb.pc = "read" /\ wire = <<>>
  /\ repeats < MaxRepeats
  /\ rb' = [rb EXCEPT !.pc = "have"]
  /\ repeats' = repeats + 1
  /\ disturbed' = (disturbed \/ Midst \/ rb.data = Delimiter)
  /\ UNCHANGED <<driver, due, portVars, rf, RecvByteCh, RecvCh, ctlVars>>

(* Mutant of PutByte: RecvByteCh takes a byte when it is full. *)
PutByteAnyway ==
  /\ rb.pc = "have"
  /\ RecvByteCh' = Append(RecvByteCh, rb.data)
  /\ rb' = [rb EXCEPT !.pc = "read"]
  /\ UNCHANGED <<driver, due, portVars, rf, RecvCh, ctlVars, disturbed, repeats>>

PutByte ==
  /\ rb.pc = "have" /\ Len(RecvByteCh) < ByteCap
  /\ RecvByteCh' = Append(RecvByteCh, rb.data)
  /\ rb' = [rb EXCEPT !.pc = "read"]
  /\ UNCHANGED <<driver, due, portVars, rf, RecvCh, ctlVars, disturbed, repeats>>

(* vxbee waits for room instead. *)
DropByte ==
  /\ driver # "vxbee" /\ ~cancelled
  /\ rb.pc = "have" /\ Len(RecvByteCh) = ByteCap
  /\ rb' = [rb EXCEPT !.pc = "read"]
  /\ disturbed' = TRUE
  /\ UNCHANGED <<driver, due, portVars, rf, RecvByteCh, RecvCh, ctlVars, repeats>>

(* On a serial port the read has to end first, with a byte or without.     *)
ReadByteReturns ==
  /\ cancelled
  /\ CASE driver = "vxbee" -> rb.pc = "read"
       [] OTHER -> rb.pc = "have" \/ (rb.pc = "read" /\ wire = <<>>)
  /\ rb' = [rb EXCEPT !.pc = "off"]
  /\ UNCHANGED <<driver, due, portVars, rf, RecvByteCh, RecvCh, ctlVars,
                 disturbed, repeats>>

-----------------------------------------------------------------------------
(* ReadFrame *)

KindOf(frame) == {k \in Kinds : frame[3] = TypeByte[k]}

(* validate of wifi, which takes a checksum to find every damage; the      *)
(* other drivers leave the check to those who take the frame.              *)
Validated(frame) ==
  driver = "wifi" => \E s \in Shapes : frame = Encode(s)

(* What ReadFrame does with what it has put together. *)
Finished(frame) ==
  CASE driver = "xbee" /\ Len(frame) < 3 -> [Searching EXCEPT !.frame = frame]
    [] driver = "vxbee" /\ Len(frame) < 3 -> [Searching EXCEPT !.pc = "panic"]
    [] Validated(frame) /\ KindOf(frame) # {} ->
         [Searching EXCEPT !.pc = "put", !.frame = frame]
    [] OTHER -> Searching

(* Mutant of Rest: the checksum is left for the next frame. *)
RestWithoutSum(length) == IF driver = "wifi" THEN length - 1 ELSE length

(* How many bytes follow a length. *)
Rest(length) == IF driver = "wifi" THEN length ELSE length + 1

(* frame once the two bytes of the length, or none of them, were read: the *)
(* code looks at the byte where the length should be.                      *)
WithLength(frame) ==
  IF Len(frame) < 2 THEN [Searching EXCEPT !.pc = "panic"]
  ELSE IF Rest(frame[2]) = 0 THEN Finished(frame)
  ELSE [pc |-> "body", frame |-> frame, got |-> <<>>]

TakeByte ==
  LET b == Head(RecvByteCh)
      got == Append(rf.got, b) IN
  /\ RecvByteCh # <<>>
  /\ RecvByteCh' = Tail(RecvByteCh)
  /\ \/ /\ rf.pc = "search"
        /\ rf' = IF b = Delimiter
                 THEN [rf EXCEPT !.pc = "length", !.frame = Append(@, b)] ELSE rf
     \/ /\ rf.pc = "length"
        /\ rf' = WithLength(Append(rf.frame, b))
     \/ /\ rf.pc = "body"
        /\ rf' = IF Len(got) = Rest(rf.frame[2]) THEN Finished(rf.frame \o got)
                 ELSE [rf EXCEPT !.got = got]
  /\ UNCHANGED <<driver, due, portVars, rb, RecvCh, ctlVars, disturbed, repeats>>

(* Mutant of BytesCancelled: ReadBytes does not look at the context. *)
BytesWait == FALSE /\ UNCHANGED vars

(* ReadBytes gives up, and what it has got is lost. *)
BytesCancelled ==
  /\ cancelled
  /\ \/ rf.pc = "length" /\ rf' = WithLength(rf.frame)
     \/ rf.pc = "body" /\ rf' = Finished(rf.frame)
  /\ UNCHANGED <<driver, due, portVars, rb, RecvByteCh, RecvCh, ctlVars,
                 disturbed, repeats>>

PutsInto(k) == rf.pc \in {"put", "putAgain"} /\ k \in KindOf(rf.frame)

PutFrame(k) ==
  /\ PutsInto(k) /\ RecvCh[k] < FrameCap
  /\ RecvCh' = [RecvCh EXCEPT ![k] = @ + 1]
  /\ due' = IF due # <<>> /\ Head(due) = rf.frame THEN Tail(due) ELSE due
  /\ rf' = Searching
  /\ UNCHANGED <<driver, portVars, rb, RecvByteCh, ctlVars, disturbed, repeats>>

Full(k) ==
  /\ rf.pc = "put" /\ k \in KindOf(rf.frame) /\ RecvCh[k] = FrameCap
  /\ rf' = [rf EXCEPT !.pc = "makeRoom"]
  /\ UNCHANGED <<driver, due, portVars, rb, RecvByteCh, RecvCh, ctlVars,
                 disturbed, repeats>>

MakeRoom(k) ==
  /\ rf.pc = "makeRoom" /\ k \in KindOf(rf.frame) /\ RecvCh[k] > 0
  /\ RecvCh' = [RecvCh EXCEPT ![k] = @ - 1]
  /\ rf' = [rf EXCEPT !.pc = "putAgain"]
  /\ UNCHANGED <<driver, due, portVars, rb, RecvByteCh, ctlVars, disturbed,
                 repeats>>

ReadFrameReturns ==
  /\ cancelled /\ rf.pc = "search"
  /\ rf' = [rf EXCEPT !.pc = "off"]
  /\ UNCHANGED <<driver, due, portVars, rb, RecvByteCh, RecvCh, ctlVars,
                 disturbed, repeats>>

(* GetPacket, GetStatus and GetResp take frames. *)
TakeFrame(k) ==
  /\ RecvCh[k] > 0
  /\ RecvCh' = [RecvCh EXCEPT ![k] = @ - 1]
  /\ UNCHANGED <<driver, due, portVars, rb, rf, RecvByteCh, ctlVars, disturbed,
                 repeats>>

-----------------------------------------------------------------------------
(* Start and Stop *)

(* What Clear empties, in order. *)
Cleared == <<"bytes", "resp", "packet">>

Length(c) == IF c = "bytes" THEN Len(RecvByteCh) ELSE RecvCh[c]

Stop ==
  /\ ctl.pc = "running" /\ stops < MaxStops
  /\ stops' = stops + 1
  /\ ctl' = [pc |-> "clear", todo |-> Cleared]
  /\ disturbed' = TRUE
  /\ UNCHANGED <<driver, due, portVars, readVars, cancelled, otherVars, repeats>>

(* The length of a channel is looked at before something is taken from it. *)
ClearLooks ==
  /\ ctl.pc = "clear" /\ ctl.todo # <<>>
  /\ ctl' = IF Length(Head(ctl.todo)) > 0 THEN [ctl EXCEPT !.pc = "take"]
            ELSE [ctl EXCEPT !.todo = Tail(@)]
  /\ UNCHANGED <<driver, due, portVars, readVars, cancelled, otherVars, stops,
                 disturbed, repeats>>

ClearTakes ==
  LET c == Head(ctl.todo) IN
  /\ ctl.pc = "take" /\ Length(c) > 0
  /\ ctl' = [ctl EXCEPT !.pc = "clear"]
  /\ IF c = "bytes" THEN RecvByteCh' = Tail(RecvByteCh) /\ UNCHANGED RecvCh
     ELSE RecvCh' = [RecvCh EXCEPT ![c] = @ - 1] /\ UNCHANGED RecvByteCh
  /\ UNCHANGED <<driver, due, portVars, rb, rf, cancelled, otherVars, stops,
                 disturbed, repeats>>

Cancel ==
  /\ ctl.pc = "clear" /\ ctl.todo = <<>>
  /\ cancelled' = (cancelled \/ cancel = "own")
  /\ ctl' = [ctl EXCEPT !.pc = "wait"]
  /\ UNCHANGED <<driver, due, portVars, readVars, otherVars, stops, disturbed,
                 repeats>>

Stopped ==
  /\ ctl.pc = "wait" /\ rb.pc = "off" /\ rf.pc = "off"
  /\ ctl' = [ctl EXCEPT !.pc = "stopped"]
  /\ UNCHANGED <<driver, due, portVars, readVars, cancelled, otherVars, stops,
                 disturbed, repeats>>

Start ==
  /\ ctl.pc = "stopped"
  /\ ctl' = [ctl EXCEPT !.pc = "running"]
  /\ cancelled' = FALSE /\ cancel' = "own"
  /\ rb' = Reading /\ rf' = Searching
  /\ UNCHANGED <<driver, due, portVars, RecvByteCh, RecvCh, other, stops,
                 disturbed, repeats>>

(* cancel is a variable of the package, so that the last Reader to start   *)
(* has it, and any Reader that stops calls it.                             *)
OtherStart ==
  /\ other = "off"
  /\ other' = "on" /\ cancel' = "other"
  /\ UNCHANGED <<driver, due, portVars, readVars, ctl, cancelled, stops,
                 disturbed, repeats>>

OtherStop ==
  /\ other = "on"
  /\ other' = "stopped"
  /\ cancelled' = (cancelled \/ cancel = "own")
  /\ disturbed' = (disturbed \/ cancel = "own")
  /\ UNCHANGED <<driver, due, portVars, readVars, ctl, cancel, stops, repeats>>

-----------------------------------------------------------------------------

ReadByteStep == ReadPort \/ ReadNothing \/ PutByte \/ DropByte
ReadFrameStep ==
  \/ TakeByte \/ BytesCancelled
  \/ \E k \in Kinds : PutFrame(k) \/ Full(k) \/ MakeRoom(k)
StopStep == ClearLooks \/ ClearTakes \/ Cancel \/ Stopped

(* A panic of one goroutine ends the program. *)
Alive == rf.pc # "panic"

Next ==
  /\ Alive
  /\ \/ \E w \in Writers : WriteRest(w) \/ \E s \in Shapes : WriteFirst(w, s)
     \/ ReadByteStep \/ ReadByteReturns
     \/ ReadFrameStep \/ ReadFrameReturns
     \/ \E k \in Kinds : TakeFrame(k)
     \/ Stop \/ StopStep \/ Start
     \/ OtherStart \/ OtherStop

Spec == Init /\ [][Next]_vars

(* A frame that has begun is written to its end.  Goroutines go on, and a  *)
(* select that finds two cases ready does not choose the same one for ever.*)
(* Those who take frames need not come.                                    *)
FairSpec ==
  /\ Spec
  /\ WF_vars(Alive /\ \E w \in Writers : WriteRest(w))
  /\ WF_vars(Alive /\ ReadByteStep) /\ SF_vars(Alive /\ ReadByteReturns)
  /\ WF_vars(Alive /\ ReadFrameStep) /\ SF_vars(Alive /\ ReadFrameReturns)
  /\ WF_vars(Alive /\ StopStep)

-----------------------------------------------------------------------------
(* Properties *)

TypeOK ==
  /\ driver \in Drivers
  /\ Len(wire) <= ByteCap /\ Len(RecvByteCh) <= ByteCap
  /\ rb.pc \in {"read", "have", "off"}
  /\ rf.pc \in {"search", "length", "body", "put", "makeRoom", "putAgain",
                "off", "panic"}
  /\ \A k \in Kinds : RecvCh[k] \in 0 .. FrameCap
  /\ ctl.pc \in {"running", "clear", "take", "wait", "stopped"}
  /\ other \in {"none", "off", "on", "stopped"} /\ cancel \in {"own", "other"}

(* While nothing spoils the stream of bytes, ReadFrame puts the frames into*)
(* their channels as they came, each once: it finds their ends whatever is *)
(* in them, and an idle port, whose last byte is read again (reader.go:162 *)
(* does not look at what Port.Read returns), changes nothing between two   *)
(* frames unless that byte is a delimiter.                                 *)
ReadInOrder ==
  rf.pc \in {"put", "makeRoom", "putAgain"} =>
    disturbed \/ (due # <<>> /\ rf.frame = Head(due))

(* The select in ReadFrame found the channel full, others emptied it, and  *)
(* ReadFrame now waits for a frame that only it could bring (reader.go:129)*)
Stuck == rf.pc = "makeRoom" /\ \A k \in KindOf(rf.frame) : RecvCh[k] = 0

(* The frames that came are put into their channels, unless something      *)
(* spoilt the stream or ReadFrame is stuck.                                *)
FramesArrive == (due # <<>>) ~> (due = <<>> \/ disturbed \/ Stuck)

(* Clear found something in a channel and someone else took it. *)
ClearStuck == ctl.pc = "take" /\ Length(Head(ctl.todo)) = 0

(* vxbee: nobody empties RecvByteCh any more. *)
ByteStuck ==
  driver = "vxbee" /\ rb.pc = "have" /\ rf.pc = "off" /\ Len(RecvByteCh) = ByteCap

Stopping == ctl.pc \in {"clear", "take", "wait"}

(* Another Reader has been started since, and Stop ended its context.      *)
CancelAstray == ctl.pc = "wait" /\ ~cancelled

(* Stop returns, unless one of four waits never ends (Clear for what       *)
(* ReadFrame or a taker of frames took after len was looked at, ReadFrame  *)
(* for a channel that was full, vxbee's ReadByte for room in RecvByteCh,   *)
(* Stop for goroutines whose context it did not end, reader.go:20) or it   *)
(* met ReadFrame inside a frame, which panics (reader.go:105).             *)
StopReturns ==
  Stopping ~>
    \/ ~Stopping \/ rf.pc = "panic"
    \/ Stuck \/ ClearStuck \/ ByteStuck \/ CancelAstray
=============================================================================
