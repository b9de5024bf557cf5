------------------------------- MODULE Lifecycle -------------------------------
(***************************************************************************)
(* One NearFieldDevice of nfd/nfd.go from Run to Stop: its goroutines, the *)
(* channels they can block in, and the application around them with the    *)
(* DeviceInfoHandler of main.go.                                           *)
(*                                                                         *)
(*   Receiver       radio -> AckQueue or DataQueue                         *)
(*   PacketHandler  DataQueue -> an answer, RxData, or deviceCh            *)
(*   NodeDetector   waits for nothing but the driver                       *)
(*   ConfigHandler  configCh -> Send, or UpdateStatus and deviceCh         *)
(*                                                                         *)
(* Run starts the first three.  The application may start ConfigHandler    *)
(* with them; it has to do WG.Add(1) itself, and can give it only its own  *)
(* context, the one Run derives n.context from.                            *)
(*                                                                         *)
(* Of Send and WaitForAck, which Nfd has in detail, only what others wait  *)
(* for is here: Mutex3, AckQueue, and the entry of ADDR_LIST that a Write  *)
(* looks for.  The driver's Start and Stop return (FrameReader says when). *)
(***************************************************************************)
EXTENDS Integers, Sequences

CONSTANTS
  AckCap,       \* capacity of AckQueue (10)
  DataCap,      \* capacity of DataQueue (10)
  RxCap,        \* capacity of RxData (128)
  MaxRuns,      \* bound: calls of Run
  Uses          \* what the application does with the device: each use says
                \* whether it starts ConfigHandler, and bounds the runs, the
                \* packets that arrive, the writes, and the requests that the
                \* upper layer makes of ConfigHandler

ASSUME LifecycleAssumption ==
  /\ AckCap \in Nat \ {0} /\ DataCap \in Nat \ {0} /\ RxCap \in Nat \ {0}
  /\ MaxRuns \in Nat
  /\ Uses \subseteq [config : BOOLEAN, runs : 0 .. MaxRuns, packets : Nat,
                     writes : Nat, requests : Nat]

(* The goroutines are named by what they run and which Run started them.   *)
Spawned == {"Receiver", "PacketHandler", "NodeDetector"}
Kinds == Spawned \cup {"ConfigHandler"}
Goroutines == Kinds \X (1 .. MaxRuns)

(* A reply; an ADDR_REQ for this node; a STATUS_REQ; a P2P, RELAY_REQ or   *)
(* BCST.                                                                   *)
PacketTypes == {"reply", "addr", "status", "data"}
NoPacket == "none"

VARIABLES
  use,         \* the use that this behaviour is of
  ctl,         \* where the thread that calls Run and Stop is
  runs,        \* history: calls of Run so far
  device,      \* the driver's Started
  parentDone,  \* is the context done that the application gave to Run?
  cancelled,   \* the Runs whose context n.cancel has ended
  pc,          \* where each goroutine is
  held,        \* the packet that a goroutine has in hand
  Started,     \* n.Started: the kinds that are TRUE in it
  Mutex2,      \* "left" when a goroutine returned without unlocking it
  AckQueue,    \* n.AckQueue: how many packets it holds
  DataQueue,   \* n.DataQueue: their types
  RxData,      \* n.RxData: how many it holds
  Mutex3,      \* who is inside a Send that waits for an answer
  writer,      \* where the application's Write is
  known,       \* does ADDR_LIST have the address Write needs?
  pending,     \* history: had UpdateStatus still to delete from ADDR_LIST
               \* when the Write took Mutex3?
  infoHandler, \* DeviceInfoHandler: in its select, or sending to configCh
  upper,       \* the upper layer's request to ConfigHandler
  packets, calls, requests   \* how often the bounded events happened

runVars == <<use, ctl, runs, device, parentDone, cancelled>>
goVars == <<pc, held, Started, Mutex2>>
queueVars == <<AckQueue, DataQueue, RxData>>
writeVars == <<Mutex3, writer, known, pending, calls>>
statusVars == <<infoHandler, upper, requests>>
vars == <<runVars, goVars, queueVars, writeVars, statusVars, packets>>

Init ==
  /\ use \in Uses
  /\ ctl = "ready" /\ runs = 0 /\ device = FALSE
  /\ parentDone = FALSE /\ cancelled = {}
  /\ pc = [g \in Goroutines |-> "none"]
  /\ held = [g \in Goroutines |-> NoPacket]
  /\ Started = {} /\ Mutex2 = "free"
  /\ AckQueue = 0 /\ DataQueue = <<>> /\ RxData = 0
  /\ Mutex3 = "free" /\ writer = "idle"
  /\ known = FALSE /\ pending = FALSE
  /\ infoHandler = "select" /\ upper = "idle"
  /\ packets = 0 /\ calls = 0 /\ requests = 0

Moves(g, from, to) == pc[g] = from /\ pc' = [pc EXCEPT ![g] = to]

-----------------------------------------------------------------------------
(* Run, Stop, and how a goroutine begins and ends *)

(* Mutant of StartedBy: NodeDetector is forgotten. *)
StartedByWithoutDetector(r) ==
  {<<k, r>> : k \in {"Receiver", "PacketHandler"}}

(* What a Run starts.  The application starts one ConfigHandler, not a     *)
(* second one when it calls Run twice.                                     *)
StartedBy(r) ==
  {<<k, r>> : k \in IF use.config /\ ctl # "running" THEN Kinds ELSE Spawned}

Run ==
  /\ ctl \in {"ready", "running", "stopped"} /\ runs < use.runs
  /\ runs' = runs + 1
  /\ ctl' = "running" /\ device' = TRUE
  /\ pc' = [g \in Goroutines |->
              IF g \in StartedBy(runs + 1) THEN "begin" ELSE pc[g]]
  /\ UNCHANGED <<use, parentDone, cancelled, held, Started, Mutex2, queueVars,
                 writeVars, statusVars, packets>>

(* The application ends its context, main.go's answer to a signal. *)
ParentCancel ==
  /\ runs > 0 /\ ~parentDone
  /\ parentDone' = TRUE
  /\ UNCHANGED <<use, ctl, runs, device, cancelled, goVars, queueVars,
                 writeVars, statusVars, packets>>

(* Stop before Run: n.cancel is nil, and calling it panics. *)
StopBeforeRun ==
  /\ ctl = "ready"
  /\ ctl' = "panic"
  /\ UNCHANGED <<use, runs, device, parentDone, cancelled, goVars, queueVars,
                 writeVars, statusVars, packets>>

StopDevice ==
  /\ ctl = "running"
  /\ ctl' = "stopping" /\ device' = FALSE
  /\ UNCHANGED <<use, runs, parentDone, cancelled, goVars, queueVars,
                 writeVars, statusVars, packets>>

(* n.cancel is the latest Run's. *)
Cancel ==
  /\ ctl = "stopping"
  /\ ctl' = "waiting" /\ cancelled' = cancelled \cup {runs}
  /\ UNCHANGED <<use, runs, device, parentDone, goVars, queueVars, writeVars,
                 statusVars, packets>>

(* WG.Wait returns, and Stop. *)
Stopped ==
  /\ ctl = "waiting"
  /\ \A g \in Goroutines : pc[g] \in {"none", "done"}
  /\ ctl' = "stopped"
  /\ UNCHANGED <<use, runs, device, parentDone, cancelled, goVars, queueVars,
                 writeVars, statusVars, packets>>

(* Mutant of Done: only the application's context counts. *)
DoneByParent(g) == parentDone

Done(g) == parentDone \/ (g[1] \in Spawned /\ g[2] \in cancelled)

(* Mutant of Begin: nobody looks at Started. *)
BeginAnyway(g) ==
  /\ Mutex2 = "free"
  /\ Moves(g, "begin", "serve")
  /\ Started' = Started \cup {g[1]}
  /\ UNCHANGED <<Mutex2, held, runVars, queueVars, writeVars, statusVars,
                 packets>>

(* A goroutine that finds its kind started returns, and leaves Mutex2      *)
(* locked.                                                                 *)
Begin(g) ==
  /\ Mutex2 = "free"
  /\ IF g[1] \in Started
     THEN /\ Moves(g, "begin", "done")
          /\ Mutex2' = "left" /\ UNCHANGED Started
     ELSE /\ Moves(g, "begin", "serve")
          /\ Started' = Started \cup {g[1]} /\ UNCHANGED Mutex2
  /\ UNCHANGED <<held, runVars, queueVars, writeVars, statusVars, packets>>

(* The select at the head of the loop finds the context done. *)
Leave(g) ==
  /\ Done(g)
  /\ Moves(g, "serve", "end")
  /\ UNCHANGED <<held, Started, Mutex2, runVars, queueVars, writeVars,
                 statusVars, packets>>

(* Mutant of End: Started stays as it is. *)
EndStillStarted(g) ==
  /\ Mutex2 = "free"
  /\ Moves(g, "end", "done")
  /\ UNCHANGED <<Started, held, Mutex2, runVars, queueVars, writeVars,
                 statusVars, packets>>

End(g) ==
  /\ Mutex2 = "free"
  /\ Moves(g, "end", "done")
  /\ Started' = Started \ {g[1]}
  /\ UNCHANGED <<held, Mutex2, runVars, queueVars, writeVars, statusVars,
                 packets>>

-----------------------------------------------------------------------------
(* Receiver *)

(* ReceivePacket returned a packet.  That it may do so once more after the *)
(* context is done changes nothing: the packet could have come before.     *)
Receive(g, type) ==
  /\ g[1] = "Receiver" /\ device /\ ~Done(g)
  /\ packets < use.packets
  /\ Moves(g, "serve", "put")
  /\ held' = [held EXCEPT ![g] = type]
  /\ packets' = packets + 1
  /\ UNCHANGED <<Started, Mutex2, runVars, queueVars, writeVars, statusVars>>

(* The send to a queue, which the context does not interrupt. *)
Enqueue(g) ==
  /\ Moves(g, "put", "serve")
  /\ IF held[g] = "reply"
     THEN AckQueue < AckCap /\ AckQueue' = AckQueue + 1 /\ UNCHANGED DataQueue
     ELSE /\ Len(DataQueue) < DataCap
          /\ DataQueue' = Append(DataQueue, held[g]) /\ UNCHANGED AckQueue
  /\ held' = [held EXCEPT ![g] = NoPacket]
  /\ UNCHANGED <<RxData, Started, Mutex2, runVars, writeVars, statusVars,
                 packets>>

-----------------------------------------------------------------------------
(* PacketHandler *)

(* A packet without addresses, an ADDR_REQ for another node and a          *)
(* STATUS_UPDATE need no more than this step.                              *)
HandlingOf(type) ==
  CASE type = "addr" -> "respond" [] type = "status" -> "tell" [] OTHER -> "rx"

TakeData(g) ==
  /\ g[1] = "PacketHandler" /\ DataQueue # <<>>
  /\ \E to \in {HandlingOf(Head(DataQueue)), "serve"} : Moves(g, "serve", to)
  /\ DataQueue' = Tail(DataQueue)
  /\ UNCHANGED <<AckQueue, RxData, held, Started, Mutex2, runVars, writeVars,
                 statusVars, packets>>

(* Send of the ADDR_RESP, which waits for no answer. *)
SendAddrResp(g) ==
  /\ g[1] = "PacketHandler" /\ Mutex3 = "free"
  /\ Moves(g, "respond", "serve")
  /\ UNCHANGED <<held, Started, Mutex2, runVars, queueVars, writeVars,
                 statusVars, packets>>

(* Mutant of Deliver: RxData has no bound. *)
DeliverAnyway(g) ==
  /\ Moves(g, "rx", "serve")
  /\ RxData' = RxData + 1
  /\ UNCHANGED <<AckQueue, DataQueue, held, Started, Mutex2, runVars,
                 writeVars, statusVars, packets>>

(* RxData <- p.Data, and then the ACK. *)
Deliver(g) ==
  /\ RxData < RxCap
  /\ Moves(g, "rx", "serve")
  /\ RxData' = RxData + 1
  /\ UNCHANGED <<AckQueue, DataQueue, held, Started, Mutex2, runVars,
                 writeVars, statusVars, packets>>

(* deviceCh has no buffer: DeviceInfoHandler takes the STATUS_QUERY_REQ in *)
(* the same step, and goes on to send its answer to configCh.              *)
TellStatusQuery(g) ==
  /\ infoHandler = "select"
  /\ Moves(g, "tell", "serve")
  /\ infoHandler' = "config"
  /\ UNCHANGED <<upper, requests, held, Started, Mutex2, runVars, queueVars,
                 writeVars, packets>>

(* Read of the application, which need not come. *)
Read ==
  /\ RxData > 0 /\ RxData' = RxData - 1
  /\ UNCHANGED <<AckQueue, DataQueue, runVars, goVars, writeVars, statusVars,
                 packets>>

-----------------------------------------------------------------------------
(* Write *)

Write ==
  /\ writer = "idle" /\ Mutex3 = "free" /\ calls < use.writes /\ runs > 0
  /\ Mutex3' = "writer" /\ calls' = calls + 1
  /\ writer' = IF known THEN "p2p" ELSE "resolve"
  /\ pending' = \E g \in Goroutines : pc[g] = "wipe"
  /\ UNCHANGED <<known, runVars, goVars, queueVars, statusVars, packets>>

WriteWaits == writer \in {"resolve", "p2p"}

(* Write returns, with an error or without. *)
WriteReturns ==
  /\ WriteWaits
  /\ writer' = "idle" /\ Mutex3' = "free" /\ pending' = FALSE
  /\ UNCHANGED <<known, calls, runVars, goVars, queueVars, statusVars,
                 packets>>

(* WaitForAck takes a reply that is not the right one. *)
TakeOldReply ==
  /\ Mutex3 # "free" /\ AckQueue > 0
  /\ WriteWaits \/ \E g \in Goroutines : pc[g] = "wait"
  /\ AckQueue' = AckQueue - 1
  /\ UNCHANGED <<DataQueue, RxData, runVars, goVars, writeVars, statusVars,
                 packets>>

(* WaitForAck takes a reply with the right number.  If it is the ADDR_RESP *)
(* asked for, its sender goes into ADDR_LIST; any other ends the wait with *)
(* success too, and leaves Send without the entry ("misled").  Nfd, which  *)
(* has the numbers, says how old such a reply must be (ResolvedHasMac).    *)
TakeAddrResp ==
  /\ writer = "resolve" /\ AckQueue > 0
  /\ AckQueue' = AckQueue - 1
  /\ \/ writer' = "resolved" /\ known' = TRUE
     \/ writer' = "misled" /\ UNCHANGED known
  /\ UNCHANGED <<Mutex3, pending, calls, DataQueue, RxData, runVars, goVars,
                 statusVars, packets>>

(* Send reads ADDR_LIST a second time, without a look at whether the entry *)
(* is there, and transmits the P2P.                                        *)
SendResolved ==
  /\ writer \in {"resolved", "misled"}
  /\ writer' = "p2p"
  /\ UNCHANGED <<known, Mutex3, pending, calls, runVars, goVars, queueVars, statusVars,
                 packets>>

-----------------------------------------------------------------------------
(* ConfigHandler, and those who send to configCh *)

(* The upper layer sends a SERACH_NODES_REQ or a STATUS_UPDATE_NOTIFY. *)
Request(what) ==
  /\ upper = "idle" /\ requests < use.requests /\ runs > 0
  /\ upper' = what /\ requests' = requests + 1
  /\ UNCHANGED <<infoHandler, runVars, goVars, queueVars, writeVars, packets>>

(* configCh has no buffer either. *)
TakeConfig(g) ==
  /\ g[1] = "ConfigHandler"
  /\ \/ /\ infoHandler = "config" /\ infoHandler' = "select"
        /\ Moves(g, "serve", "respond")
        /\ UNCHANGED upper
     \/ /\ upper = "notify" /\ upper' = "idle"
        /\ Moves(g, "serve", "respond")
        /\ UNCHANGED infoHandler
     \/ /\ upper = "search" /\ upper' = "asked"
        /\ \E to \in {"ask", "found"} : Moves(g, "serve", to)
        /\ UNCHANGED infoHandler
  /\ UNCHANGED <<requests, held, Started, Mutex2, runVars, queueVars,
                 writeVars, packets>>

(* Send of a STATUS_RESP or a STATUS_UPDATE: it waits for Mutex3, and then *)
(* refuses the destination address "", so that no status is ever sent.     *)
SendStatus(g) ==
  /\ g[1] = "ConfigHandler" /\ Mutex3 = "free"
  /\ Moves(g, "respond", "serve")
  /\ UNCHANGED <<held, Started, Mutex2, runVars, queueVars, writeVars,
                 statusVars, packets>>

(* Mutant of AskStatus: the STATUS_REQ goes straight to SendPacket, as the *)
(* ACK does, and so neither takes Mutex3 nor waits.                        *)
AskStatusWithoutSend(g) ==
  /\ Moves(g, "ask", "wipe")
  /\ UNCHANGED <<held, Started, Mutex2, runVars, queueVars, writeVars,
                 statusVars, packets>>

(* UpdateStatus asks its neighbours, if there are any ("ask"), and waits   *)
(* for a STATUS_RESP, which no node sends.  One Send stands for the one    *)
(* per neighbour: between two of them UpdateStatus waits for Mutex3 again. *)
AskStatus(g) ==
  /\ Mutex3 = "free" /\ Moves(g, "ask", "wait")
  /\ Mutex3' = "config"
  /\ UNCHANGED <<writer, known, pending, calls, held, Started, Mutex2, runVars,
                 queueVars, statusVars, packets>>

AskTimesOut(g) ==
  /\ Moves(g, "wait", "wipe")
  /\ Mutex3' = "free"
  /\ UNCHANGED <<writer, known, pending, calls, held, Started, Mutex2, runVars,
                 queueVars, statusVars, packets>>

(* StatusQueue is empty: UpdateStatus removes every entry of ADDR_LIST and *)
(* of NodeStatuses, under a mutex that Send does not take.                 *)
Wipe(g) ==
  /\ Moves(g, "wipe", "found")
  /\ known' = FALSE
  /\ UNCHANGED <<Mutex3, writer, pending, calls, held, Started, Mutex2,
                 runVars, queueVars, statusVars, packets>>

(* Mutant of TellFound: no answer when no node was found. *)
FoundNothing(g) ==
  /\ Moves(g, "found", "serve")
  /\ UNCHANGED <<infoHandler, upper, requests, held, Started, Mutex2, runVars,
                 queueVars, writeVars, packets>>

(* DeviceInfoHandler takes the SERACH_NODES_RESP.  No node in it has a     *)
(* status, so that it does not call Write.                                 *)
TellFound(g) ==
  /\ infoHandler = "select"
  /\ Moves(g, "found", "serve")
  /\ upper' = IF upper = "asked" THEN "idle" ELSE upper
  /\ UNCHANGED <<infoHandler, requests, held, Started, Mutex2, runVars,
                 queueVars, writeVars, packets>>

-----------------------------------------------------------------------------

StopStep == Cancel \/ Stopped
GoStep(g) ==
  \/ Begin(g) \/ Leave(g) \/ End(g) \/ Enqueue(g) \/ TakeData(g) \/ Deliver(g)
  \/ SendAddrResp(g) \/ TellStatusQuery(g) \/ TakeConfig(g) \/ SendStatus(g)
  \/ AskStatus(g) \/ AskTimesOut(g) \/ Wipe(g) \/ TellFound(g)
WriteStep == WriteReturns \/ TakeAddrResp \/ SendResolved

Next ==
  /\ ctl # "panic"
  /\ \/ Run \/ ParentCancel \/ StopBeforeRun \/ StopDevice \/ StopStep
     \/ \E g \in Goroutines :
          GoStep(g) \/ \E type \in PacketTypes : Receive(g, type)
     \/ Read \/ Write \/ WriteStep \/ TakeOldReply
     \/ \E what \in {"search", "notify"} : Request(what)

Spec == Init /\ [][Next]_vars

(* A goroutine that can go on does, a wait for a reply ends, and Stop goes *)
(* on.  Nothing is assumed of the application, which need not read, write  *)
(* or ask, nor of the other nodes.                                         *)
FairSpec ==
  /\ Spec
  /\ WF_vars(StopStep) /\ WF_vars(WriteStep)
  /\ \A g \in Goroutines : WF_vars(GoStep(g))

-----------------------------------------------------------------------------
(* Properties *)

(* Where a goroutine is that has begun and not returned, and elsewhere. *)
Serving == {"serve", "put", "respond", "rx", "tell", "ask", "wait", "wipe",
            "found", "end"}
Places == Serving \cup {"none", "begin", "done"}

TypeOK ==
  /\ use \in Uses
  /\ ctl \in {"ready", "running", "stopping", "waiting", "stopped", "panic"}
  /\ runs \in 0 .. MaxRuns
  /\ device \in BOOLEAN /\ parentDone \in BOOLEAN
  /\ cancelled \subseteq 1 .. MaxRuns
  /\ pc \in [Goroutines -> Places]
  /\ held \in [Goroutines -> PacketTypes \cup {NoPacket}]
  /\ Started \subseteq Kinds /\ Mutex2 \in {"free", "left"}
  /\ AckQueue \in 0 .. AckCap /\ RxData \in 0 .. RxCap
  /\ DataQueue \in Seq(PacketTypes) /\ Len(DataQueue) <= DataCap
  /\ Mutex3 \in {"free", "writer", "config"}
  /\ writer \in {"idle", "resolve", "resolved", "misled", "p2p"}
  /\ known \in BOOLEAN /\ pending \in BOOLEAN
  /\ infoHandler \in {"select", "config"}
  /\ upper \in {"idle", "search", "notify", "asked"}
  /\ packets \in 0 .. use.packets /\ calls \in 0 .. use.writes
  /\ requests \in 0 .. use.requests

Alive(g) == pc[g] \in Serving

(* However often Run is called, at most one goroutine of a kind serves the *)
(* device: a second Receiver would take the first one's packets            *)
(* (nfd.go:381-387).                                                       *)
OneOfAKind ==
  \A g, h \in Goroutines : Alive(g) /\ Alive(h) /\ g[1] = h[1] => g = h

(* When Stop has returned the device can be run again: nothing is marked   *)
(* as started, and Mutex2 is free.                                         *)
StopLeavesClean == ctl = "stopped" => Started = {} /\ Mutex2 = "free"

(* The waits that no context interrupts.  Receiver, for room in AckQueue,  *)
(* which only a Write makes;                                               *)
AckStuck ==
  \E g \in Goroutines :
    pc[g] = "put" /\ held[g] = "reply" /\ AckQueue = AckCap

(* Receiver, for room in DataQueue, when PacketHandler has returned or     *)
(* waits for something itself;                                             *)
DataStuck ==
  \E g \in Goroutines :
    pc[g] = "put" /\ held[g] # "reply" /\ Len(DataQueue) = DataCap

(* PacketHandler, for the application to read;                             *)
RxStuck == \E g \in Goroutines : pc[g] = "rx" /\ RxData = RxCap

(* PacketHandler or ConfigHandler, for DeviceInfoHandler, which itself     *)
(* waits for a ConfigHandler that is not there or waits for it;            *)
DeviceStuck ==
  \E g \in Goroutines : pc[g] \in {"tell", "found"} /\ infoHandler = "config"

(* ConfigHandler, for a context that Stop does not end;                    *)
ConfigStays ==
  /\ ~parentDone
  /\ \E g \in Goroutines : g[1] = "ConfigHandler" /\ Alive(g)

(* and after a second Run: whoever wants Mutex2, which a goroutine that    *)
(* found its kind started has left locked, and whoever serves under the    *)
(* context of the first Run, whose cancel function n.cancel has replaced.  *)
LockLost == Mutex2 = "left"
CancelLost ==
  ~parentDone /\ \E g \in Goroutines :
                   g[1] \in Spawned /\ g[2] < runs /\ Alive(g) /\ ~Done(g)

(* If Stop never returns then one of these waits is the reason, for ever   *)
(* after (nfd.go:667-676).                                                 *)
StopReturns ==
  <>[](ctl \in {"stopping", "waiting"}) =>
    \/ <>[]AckStuck \/ <>[]DataStuck \/ <>[]RxStuck \/ <>[]DeviceStuck
    \/ <>[]ConfigStays \/ <>[]LockLost \/ <>[]CancelLost

Served == \A k \in Spawned : \E r \in 1 .. runs : Alive(<<k, r>>)

(* After a Run, be it the first or one after a Stop, each of the three     *)
(* goroutines comes to serve the device, unless Run was called twice.      *)
RunServes ==
  <>[](ctl = "running" /\ ~parentDone) => <>[](Served \/ LockLost)

(* A request of the upper layer is taken, and a search answered            *)
(* (nfd.go:569-574), unless there is no ConfigHandler to do it, or it and  *)
(* DeviceInfoHandler each wait in a send for the other.                    *)
RequestTaken ==
  <>[](upper # "idle") =>
    <>[](\/ ~\E g \in Goroutines : g[1] = "ConfigHandler" /\ Alive(g)
         \/ LockLost \/ DeviceStuck)

(* Write has its ADDR_RESP and yet finds no entry in ADDR_LIST (nfd.go:320) *)
(* only if UpdateStatus was already through with its STATUS_REQs, and had  *)
(* not deleted yet, when this Write took Mutex3: the deletion is under     *)
(* another mutex (nfd.go:534), but what goes before it takes Mutex3 and so *)
(* cannot happen during a Send.  The P2P of such a Write goes to the empty *)
(* MAC address, at which the wifi driver panics (wifi.go:133).             *)
AddressLostToPending == writer = "resolved" /\ ~known => pending
=============================================================================
