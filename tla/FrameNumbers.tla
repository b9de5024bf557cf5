---------------------------- MODULE FrameNumbers ----------------------------
(***************************************************************************)
(* The frame layer of the drivers: the numbers that Writer gives to frames *)
(* and the matching of answers to frames by GetStatus and GetResp.         *)
(*                                                                         *)
(* Two goroutines use one Writer: the sender of fragments, alone under the *)
(* driver's Mutex, and the one that asks the radio module something: first *)
(* its address (SetMacAddr, before any frame is sent), then, as            *)
(* NodeDetector, which nodes there are.  They increase Writer.Seq without  *)
(* a common lock, one load or store at a time.                             *)
(*                                                                         *)
(* The radio module is external.  It answers a transmitted frame by one    *)
(* status, a command by any number of responses, each at any time or       *)
(* never.  RecvStatusCh and RecvRespCh are taken to be large enough, as    *)
(* Reassembly.tla has what ReadFrame does when a channel is full.          *)
(***************************************************************************)
EXTENDS Integers, Sequences, FiniteSets

CONSTANTS
  Drivers,     \* the drivers to look at
  FrameMod,    \* frame numbers are taken modulo FrameMod (256)
  Tries,       \* attempts of SetMacAddr (3)
  MaxFrames,   \* bound: frames sent and node searches, together, with the one
               \* of the process before
  Unanswered,  \* bound: frames of the process that used the module before, of
               \* which the module may still answer one
  MaxAnswers   \* bound: responses to one command

ASSUME FrameNumbersAssumption ==
  /\ Drivers \subseteq {"xbee", "vxbee", "wifi"}
  /\ Tries \in Nat \ {0} /\ FrameMod \in Nat /\ FrameMod > 2 * Tries
  /\ MaxFrames \in Nat /\ MaxAnswers \in Nat
  /\ Unanswered \subseteq [no: 0 .. FrameMod - 1, job: {"transmit", "ND"}]

Goroutines == {"sender", "asker"}
Commands == {"SH", "SL", "ADDR", "ND"}

VARIABLES
  driver,       \* which driver this is
  Seq_,         \* Writer.Seq
  gen,          \* where each goroutine is with its frame
  boot,         \* SetMacAddr: attempt, command, and the answers it has
  open,         \* frames that the radio module may still answer
  RecvStatusCh, \* Reader.RecvStatusCh
  RecvRespCh,   \* Reader.RecvRespCh
  resp,         \* the responses that GetNodes has collected
  count,        \* history: frames begun, but for those of SetMacAddr
  stores,       \* history: increments of Writer.Seq
  lost,         \* history: was an increment overwritten?
  confirmed,    \* history: frames that were confirmed, with their status
  nodes         \* history: searches that ended, with their responses

history == <<count, stores, lost>>
readerVars == <<RecvStatusCh, RecvRespCh, open>>
callerVars == <<boot, resp, confirmed, nodes>>
vars == <<driver, Seq_, gen, history, readerVars, callerVars>>

(* id, of a frame and of its answers: how many increments there had been,  *)
(* or Earlier for a frame of the process before.                           *)
(* raced: the other goroutine changed Writer.Seq while this frame was      *)
(* being numbered.                                                         *)
Earlier == -1

Idle == [pc |-> "idle", tmp |-> 0, no |-> 0, id |-> 0, job |-> "none",
         raced |-> FALSE]

Open(f) == [no |-> f.no, id |-> f.id, job |-> f.job, answers |-> 0]

AddressCommands == IF driver = "wifi" THEN <<"ADDR">> ELSE <<"SH", "SL">>

Init ==
  /\ driver \in Drivers
  /\ Seq_ = 0
  /\ gen = [g \in Goroutines |-> Idle]
  /\ boot = [phase |-> "asking", try |-> 0, parts |-> <<>>]
  /\ \/ open = {}
     \/ \E f \in Unanswered :
          open = {Open([no |-> f.no, id |-> Earlier, job |-> f.job])}
  /\ RecvStatusCh = <<>> /\ RecvRespCh = <<>>
  /\ resp = {}
  /\ count = Cardinality(open) /\ stores = 0 /\ lost = FALSE
  /\ confirmed = {} /\ nodes = {}

-----------------------------------------------------------------------------
(* GenTransmitRequest, GenATCmd, GenerateTransmitRequest, ...              *)

(* Mutant of Steps: the number 0 is used like any other. *)
StepsWithoutTest ==
  CASE driver = "wifi" -> <<"take", "load", "store", "write">>
    [] OTHER -> <<"load", "store", "take", "write">>

(* What numbering a frame does to Writer.Seq, in order.  Only xbee tests   *)
(* for the number 0, which stands for "no answer wanted".                  *)
Steps ==
  CASE driver = "wifi" -> <<"take", "load", "store", "write">>
    [] driver = "xbee" -> <<"load", "store", "test", "take", "write">>
    [] OTHER -> <<"load", "store", "take", "write">>

After(pc) == Steps[1 + CHOOSE i \in 1 .. Len(Steps) - 1 : Steps[i] = pc]

Numbering(g) == gen[g].pc \notin {"idle", "wait"}

(* A step of g to pc that changes Writer.Seq is seen by the other one. *)
Changed(g, pc) ==
  gen' = [h \in Goroutines |->
            IF h = g THEN [gen[g] EXCEPT !.pc = pc]
            ELSE [gen[h] EXCEPT !.raced = @ \/ Numbering(h)]]

BeginFrame(g, job) ==
  /\ gen[g].pc = "idle"
  /\ gen' = [gen EXCEPT ![g] = [Idle EXCEPT !.pc = Steps[1], !.job = job]]
  /\ UNCHANGED <<driver, Seq_, stores, lost, readerVars, callerVars>>

(* SendPacketWithResponse, called by the holder of the driver's Mutex. *)
BeginSend ==
  /\ boot.phase = "done" /\ count < MaxFrames
  /\ count' = count + 1
  /\ BeginFrame("sender", "transmit")

(* SendATCmdWithResponse of SetMacAddr: the next of its commands. *)
BeginAddress ==
  /\ boot.phase = "asking"
  /\ BeginFrame("asker", AddressCommands[Len(boot.parts) + 1])
  /\ UNCHANGED count

(* GetNodes *)
BeginSearch ==
  /\ boot.phase = "done" /\ count < MaxFrames
  /\ count' = count + 1
  /\ BeginFrame("asker", "ND")

Load(g) ==
  /\ gen[g].pc = "load"
  /\ gen' = [gen EXCEPT ![g].pc = After("load"), ![g].tmp = Seq_]
  /\ UNCHANGED <<driver, Seq_, history, readerVars, callerVars>>

(* Mutant of Increased: the number is never reduced. *)
IncreasedForever(no) == no + 1

Increased(no) == (no + 1) % FrameMod

Store(g) ==
  /\ gen[g].pc = "store"
  /\ Seq_' = Increased(gen[g].tmp)
  /\ stores' = stores + 1
  /\ lost' = (lost \/ Seq_ # gen[g].tmp)
  /\ Changed(g, After("store"))
  /\ UNCHANGED <<driver, count, readerVars, callerVars>>

Test(g) ==
  /\ gen[g].pc = "test"
  /\ gen' = [gen EXCEPT ![g].pc = IF Seq_ = 0 THEN "reset" ELSE After("test")]
  /\ UNCHANGED <<driver, Seq_, history, readerVars, callerVars>>

Reset(g) ==
  /\ gen[g].pc = "reset"
  /\ Seq_' = 1
  /\ lost' = (lost \/ Seq_ # 0)
  /\ Changed(g, After("test"))
  /\ UNCHANGED <<driver, count, stores, readerVars, callerVars>>

Take(g) ==
  /\ gen[g].pc = "take"
  /\ gen' = [gen EXCEPT ![g].pc = After("take"), ![g].no = Seq_,
                        ![g].id = stores]
  /\ UNCHANGED <<driver, Seq_, history, readerVars, callerVars>>

(* Port.Write: from now on the module may answer, unless the number of an  *)
(* XBee frame is 0.                                                        *)
WriteFrame(g) ==
  /\ gen[g].pc = "write"
  /\ open' = IF driver = "xbee" /\ gen[g].no = 0 THEN open
             ELSE open \cup {Open(gen[g])}
  /\ gen' = [gen EXCEPT ![g].pc = "wait"]
  /\ resp' = IF gen[g].job = "ND" THEN {} ELSE resp
  /\ UNCHANGED <<driver, Seq_, history, RecvStatusCh, RecvRespCh, boot,
                 confirmed, nodes>>

-----------------------------------------------------------------------------
(* The radio module, and ReadFrame *)

Answer(f, ok) == [no |-> f.no, id |-> f.id, job |-> f.job, ok |-> ok]

StatusArrives(f, ok) ==
  /\ f.job = "transmit"
  /\ RecvStatusCh' = Append(RecvStatusCh, Answer(f, ok))
  /\ open' = open \ {f}
  /\ UNCHANGED <<driver, Seq_, gen, history, RecvRespCh, callerVars>>

ResponseArrives(f, ok) ==
  /\ f.job # "transmit" /\ f.answers < (IF f.job = "ND" THEN MaxAnswers ELSE 1)
  /\ RecvRespCh' = Append(RecvRespCh, Answer(f, ok))
  /\ open' = (open \ {f}) \cup {[f EXCEPT !.answers = @ + 1]}
  /\ UNCHANGED <<driver, Seq_, gen, history, RecvStatusCh, callerVars>>

-----------------------------------------------------------------------------
(* GetStatus and GetResp, with what their callers do *)

(* Mutant of Matches: the first answer in the channel is taken. *)
MatchesAny(answer, no) == TRUE

Matches(answer, no) == answer.no = no

Waits(g, job) == gen[g].pc = "wait" /\ gen[g].job = job

TakeStatus ==
  LET answer == Head(RecvStatusCh) IN
  /\ Waits("sender", "transmit") /\ RecvStatusCh # <<>>
  /\ RecvStatusCh' = Tail(RecvStatusCh)
  /\ IF Matches(answer, gen["sender"].no)
     THEN /\ gen' = [gen EXCEPT !["sender"] = Idle]
          /\ confirmed' = IF answer.ok
                          THEN confirmed \cup {<<gen["sender"].id, answer>>}
                          ELSE confirmed
     ELSE UNCHANGED <<gen, confirmed>>
  /\ UNCHANGED <<driver, Seq_, history, RecvRespCh, open, boot, resp, nodes>>

StatusTimeout ==
  /\ Waits("sender", "transmit") /\ RecvStatusCh = <<>>
  /\ gen' = [gen EXCEPT !["sender"] = Idle]
  /\ UNCHANGED <<driver, Seq_, history, readerVars, callerVars>>

(* An invalid response ends GetNodes with an error. *)
TakeNode ==
  LET answer == Head(RecvRespCh) IN
  /\ Waits("asker", "ND") /\ RecvRespCh # <<>>
  /\ RecvRespCh' = Tail(RecvRespCh)
  /\ IF ~Matches(answer, gen["asker"].no) THEN UNCHANGED <<gen, resp>>
     ELSE IF answer.ok THEN resp' = resp \cup {answer} /\ UNCHANGED gen
     ELSE resp' = {} /\ gen' = [gen EXCEPT !["asker"] = Idle]
  /\ UNCHANGED <<driver, Seq_, history, RecvStatusCh, open, boot, confirmed,
                 nodes>>

(* Silence is how GetNodes normally ends. *)
NodesTimeout ==
  /\ Waits("asker", "ND") /\ RecvRespCh = <<>>
  /\ gen' = [gen EXCEPT !["asker"] = Idle]
  /\ nodes' = nodes \cup {<<gen["asker"].id, answer>> : answer \in resp}
  /\ resp' = {}
  /\ UNCHANGED <<driver, Seq_, history, readerVars, boot, confirmed>>

(* An error ends an attempt; the next one starts with the first command. *)
Again(b) ==
  IF b.try + 1 < Tries THEN [b EXCEPT !.try = @ + 1, !.parts = <<>>]
  ELSE [b EXCEPT !.phase = "failed"]

WithPart(b, answer) ==
  LET parts == Append(b.parts, [id |-> answer.id, job |-> answer.job]) IN
  [b EXCEPT !.parts = parts,
            !.phase = IF Len(parts) = Len(AddressCommands) THEN "done" ELSE @]

(* SetMacAddr stops the reader when it is through; Reader.Stop calls Clear,*)
(* which empties RecvRespCh and not RecvStatusCh.                          *)
AfterBoot(channel) == IF boot'.phase = "asking" THEN channel ELSE <<>>

TakeAddress ==
  LET answer == Head(RecvRespCh) IN
  /\ boot.phase = "asking" /\ gen["asker"].pc = "wait" /\ RecvRespCh # <<>>
  /\ IF Matches(answer, gen["asker"].no)
     THEN /\ boot' = IF answer.ok THEN WithPart(boot, answer) ELSE Again(boot)
          /\ gen' = [gen EXCEPT !["asker"] = Idle]
     ELSE UNCHANGED <<boot, gen>>
  /\ RecvRespCh' = AfterBoot(Tail(RecvRespCh))
  /\ UNCHANGED <<driver, Seq_, history, RecvStatusCh, open, resp, confirmed,
                 nodes>>

AddressTimeout ==
  /\ boot.phase = "asking" /\ gen["asker"].pc = "wait" /\ RecvRespCh = <<>>
  /\ boot' = Again(boot)
  /\ gen' = [gen EXCEPT !["asker"] = Idle]
  /\ UNCHANGED <<driver, Seq_, history, readerVars, resp, confirmed, nodes>>

-----------------------------------------------------------------------------

Next ==
  \/ BeginSend \/ BeginAddress \/ BeginSearch
  \/ \E g \in Goroutines :
       Load(g) \/ Store(g) \/ Test(g) \/ Reset(g) \/ Take(g) \/ WriteFrame(g)
  \/ \E f \in open, ok \in BOOLEAN :
       StatusArrives(f, ok) \/ ResponseArrives(f, ok)
  \/ TakeStatus \/ StatusTimeout \/ TakeNode \/ NodesTimeout
  \/ TakeAddress \/ AddressTimeout

Spec == Init /\ [][Next]_vars

-----------------------------------------------------------------------------
(* Properties *)

Numbers == 0 .. FrameMod - 1

TypeOK ==
  /\ driver \in Drivers
  /\ Seq_ \in Numbers
  /\ gen \in [Goroutines ->
       [pc: {"idle", "wait", "load", "store", "test", "reset", "take", "write"},
        tmp: Numbers, no: Numbers, id: Nat,
        job: Commands \cup {"none", "transmit"}, raced: BOOLEAN]]
  /\ boot.phase \in {"asking", "done", "failed"} /\ boot.try \in 0 .. Tries - 1
  /\ Len(boot.parts) <= Len(AddressCommands)

(* An answer is for the frame numbered at id; or Writer.Seq has come round *)
(* since it was asked for (a turn is one shorter for xbee, which skips 0); *)
(* or it was asked for by the process before, whose numbers began like     *)
(* those of this one (writer.go:24).                                       *)
AnswersOwn(id, answer) ==
  \/ answer.id = id \/ answer.id = Earlier
  \/ id - answer.id >= FrameMod - 1

(* A frame that SendPacketWithResponse calls sent was confirmed by its own *)
(* status and not by the late status of an older frame.  The number alone  *)
(* tells them apart, so this needs that none is used again; the unlocked   *)
(* Writer.Seq breaks it only if an increment is overwritten (writer.go:73),*)
(* which takes both goroutines in GenTransmitRequest and GenATCmd at once. *)
ConfirmedByOwnStatus ==
  \A c \in confirmed : AnswersOwn(c[1], c[2]) \/ lost

(* The nodes that GetNodes returns answered this search, not an earlier    *)
(* one that ended by an invalid response or too soon (writer.go:93-111).   *)
NodesAnswerThisSearch ==
  \A c \in nodes : AnswersOwn(c[1], c[2]) \/ lost

(* The number 0, for which an XBee sends no status, so that the sender     *)
(* waits for it in vain, is given to a frame only if the other goroutine   *)
(* changed Writer.Seq between the test for 0 and its use (writer.go:73-82).*)
ZeroNeedsRace ==
  driver = "xbee" =>
    \A g \in Goroutines :
      gen[g].pc \in {"write", "wait"} /\ gen[g].no = 0 => gen[g].raced

(* The address that SetMacAddr puts together is made of one answer to each *)
(* of its commands, in order, however late the answers of earlier attempts *)
(* come: isATCmdValid does not look at the command (util.go:68-81).  Only  *)
(* what a search of the process before found may come between.             *)
AddressInOrder ==
  boot.phase = "done" =>
    \A i \in DOMAIN AddressCommands :
      boot.parts[i].job = AddressCommands[i] \/ boot.parts[i].id = Earlier
=============================================================================
