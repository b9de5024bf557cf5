--------------------------- MODULE LifecycleProofs ---------------------------
(***************************************************************************)
(* Theorems about Lifecycle, for every number of runs and every use of the *)
(* device.                                                                 *)
(***************************************************************************)
EXTENDS Lifecycle, SequenceTheorems, TLAPS

LEMMA MovesType ==
  ASSUME NEW g \in Goroutines, NEW from, NEW to \in Places,
         pc \in [Goroutines -> Places], Moves(g, from, to)
  PROVE  /\ pc' \in [Goroutines -> Places]
         /\ pc'[g] = to
         /\ \A h \in Goroutines : h # g => pc'[h] = pc[h]
  BY DEF Moves

(* A step of the application, of Run or of Stop. *)
CallerStep ==
  \/ Run \/ ParentCancel \/ StopBeforeRun \/ StopDevice \/ StopStep
  \/ Read \/ Write \/ WriteStep \/ TakeOldReply
  \/ \E what \in {"search", "notify"} : Request(what)

(* A step of a goroutine that serves, and goes on to. *)
ServeStep(g) ==
  \/ Leave(g) \/ Enqueue(g) \/ TakeData(g) \/ Deliver(g)
  \/ SendAddrResp(g) \/ TellStatusQuery(g) \/ TakeConfig(g) \/ SendStatus(g)
  \/ AskStatus(g) \/ AskTimesOut(g) \/ Wipe(g) \/ TellFound(g)
  \/ \E type \in PacketTypes : Receive(g, type)

LEMMA NextCases ==
  ASSUME Next
  PROVE  \/ CallerStep
         \/ \E g \in Goroutines : Begin(g) \/ End(g) \/ ServeStep(g)
  BY Zenon DEF Next, GoStep, CallerStep, ServeStep

-----------------------------------------------------------------------------
(* The type invariant is inductive. *)

Ran == ctl \in {"running", "stopping", "waiting", "stopped"} => runs > 0

Holds == \A g \in Goroutines : pc[g] = "put" => held[g] \in PacketTypes

LEMMA CallerType ==
  ASSUME TypeOK, Ran, CallerStep
  PROVE  TypeOK'
  <1>1. use \in [config : BOOLEAN, runs : 0 .. MaxRuns, packets : Nat,
                 writes : Nat, requests : Nat]
    BY LifecycleAssumption DEF TypeOK
  <1>2. CASE Run
    <2>1. runs + 1 \in 0 .. MaxRuns /\ runs < use.runs
      BY <1>1, <1>2, LifecycleAssumption DEF Run, TypeOK
    <2>2. pc' \in [Goroutines -> Places]
      BY <1>2 DEF Run, TypeOK, Places
    <2> QED
      BY <1>2, <2>1, <2>2 DEF Run, TypeOK, queueVars, writeVars, statusVars
  <1>3. CASE ParentCancel
    BY <1>3 DEF ParentCancel, TypeOK, goVars, queueVars, writeVars, statusVars
  <1>4. CASE StopBeforeRun
    BY <1>4 DEF StopBeforeRun, TypeOK, goVars, queueVars, writeVars, statusVars
  <1>5. CASE StopDevice
    BY <1>5 DEF StopDevice, TypeOK, goVars, queueVars, writeVars, statusVars
  <1>6. CASE Cancel
    <2>1. cancelled' \subseteq 1 .. MaxRuns
      BY <1>6, LifecycleAssumption DEF Cancel, TypeOK, Ran
    <2> QED
      BY <1>6, <2>1 DEF Cancel, TypeOK, goVars, queueVars, writeVars, statusVars
  <1>7. CASE Stopped
    BY <1>7 DEF Stopped, TypeOK, goVars, queueVars, writeVars, statusVars
  <1>8. CASE Read
    BY <1>8, LifecycleAssumption
       DEF Read, TypeOK, runVars, goVars, writeVars, statusVars
  <1>9. CASE Write
    BY <1>1, <1>9 DEF Write, TypeOK, runVars, goVars, queueVars, statusVars
  <1>10. CASE WriteReturns
    BY <1>10 DEF WriteReturns, TypeOK, runVars, goVars, queueVars, statusVars
  <1>11. CASE TakeAddrResp
    <2>1. known' \in BOOLEAN
      BY <1>11, Zenon DEF TakeAddrResp, TypeOK
    <2>2. writer' \in {"resolved", "misled"}
      BY <1>11 DEF TakeAddrResp
    <2>3. AckQueue' \in 0 .. AckCap
      BY <1>11, LifecycleAssumption DEF TakeAddrResp, TypeOK
    <2>4. UNCHANGED <<Mutex3, pending, calls, DataQueue, RxData, runVars,
                      goVars, statusVars, packets>>
      BY <1>11, Zenon DEF TakeAddrResp
    <2> QED
      BY <2>1, <2>2, <2>3, <2>4 DEF TypeOK, runVars, goVars, statusVars
  <1>12. CASE SendResolved
    BY <1>12 DEF SendResolved, TypeOK, runVars, goVars, queueVars, statusVars
  <1>13. CASE TakeOldReply
    BY <1>13, LifecycleAssumption
       DEF TakeOldReply, TypeOK, runVars, goVars, writeVars, statusVars
  <1>14. ASSUME NEW what \in {"search", "notify"}, Request(what)
         PROVE  TypeOK'
    BY <1>1, <1>14 DEF Request, TypeOK, runVars, goVars, queueVars, writeVars
  <1> QED
    BY <1>2, <1>3, <1>4, <1>5, <1>6, <1>7, <1>8, <1>9, <1>10, <1>11, <1>12,
       <1>13, <1>14 DEF CallerStep, StopStep, WriteStep

LEMMA ServeType ==
  ASSUME TypeOK, Holds, NEW g \in Goroutines, ServeStep(g)
  PROVE  TypeOK'
  <1>1. use \in [config : BOOLEAN, runs : 0 .. MaxRuns, packets : Nat,
                 writes : Nat, requests : Nat]
    BY LifecycleAssumption DEF TypeOK
  <1>2. pc' \in [Goroutines -> Places]
    <2>1. ASSUME NEW from, NEW to \in Serving, Moves(g, from, to)
          PROVE  pc' \in [Goroutines -> Places]
      BY <2>1, MovesType DEF TypeOK, Places
    <2>2. HandlingOf(Head(DataQueue)) \in Serving
      BY DEF HandlingOf, Serving
    <2> QED
      BY <2>1, <2>2 DEF ServeStep, Leave, Enqueue, TakeData, Deliver,
         SendAddrResp, TellStatusQuery, TakeConfig, SendStatus, AskStatus,
         AskTimesOut, Wipe, TellFound, Receive, Serving
  <1>3. CASE Leave(g)
    BY <1>2, <1>3 DEF Leave, TypeOK, runVars, queueVars, writeVars, statusVars
  <1>4. CASE Enqueue(g)
    <2>1. held[g] \in PacketTypes
      BY <1>4 DEF Enqueue, Moves, Holds
    <2>2. held' \in [Goroutines -> PacketTypes \cup {NoPacket}]
      BY <1>4 DEF Enqueue, TypeOK
    <2>3. AckQueue' \in 0 .. AckCap
      BY <1>4, LifecycleAssumption DEF Enqueue, TypeOK
    <2>4. DataQueue' \in Seq(PacketTypes) /\ Len(DataQueue') <= DataCap
      <3>1. DataQueue \in Seq(PacketTypes) /\ Len(DataQueue) \in Nat
        BY DEF TypeOK
      <3>2. Append(DataQueue, held[g]) \in Seq(PacketTypes)
        BY <2>1, <3>1
      <3>3. Len(Append(DataQueue, held[g])) = Len(DataQueue) + 1
        BY <2>1, <3>1
      <3>4. CASE held[g] = "reply"
        BY <1>4, <3>4 DEF Enqueue, TypeOK
      <3>5. CASE held[g] # "reply"
        BY <1>4, <3>1, <3>2, <3>3, <3>5, LifecycleAssumption DEF Enqueue
      <3> QED
        BY <3>4, <3>5
    <2> QED
      BY <1>2, <1>4, <2>2, <2>3, <2>4
         DEF Enqueue, TypeOK, runVars, writeVars, statusVars
  <1>5. CASE TakeData(g)
    <2>1. DataQueue' \in Seq(PacketTypes) /\ Len(DataQueue') <= DataCap
      BY <1>5, HeadTailProperties, LifecycleAssumption DEF TakeData, TypeOK
    <2> QED
      BY <1>2, <1>5, <2>1 DEF TakeData, TypeOK, runVars, writeVars, statusVars
  <1>6. CASE Deliver(g)
    BY <1>2, <1>6, LifecycleAssumption
       DEF Deliver, TypeOK, runVars, writeVars, statusVars
  <1>7. CASE SendAddrResp(g)
    BY <1>2, <1>7
       DEF SendAddrResp, TypeOK, runVars, queueVars, writeVars, statusVars
  <1>8. CASE TellStatusQuery(g)
    BY <1>2, <1>8 DEF TellStatusQuery, TypeOK, runVars, queueVars, writeVars
  <1>9. CASE TakeConfig(g)
    BY <1>2, <1>9 DEF TakeConfig, TypeOK, runVars, queueVars, writeVars
  <1>10. CASE SendStatus(g)
    BY <1>2, <1>10
       DEF SendStatus, TypeOK, runVars, queueVars, writeVars, statusVars
  <1>11. CASE AskStatus(g)
    BY <1>2, <1>11 DEF AskStatus, TypeOK, runVars, queueVars, statusVars
  <1>12. CASE AskTimesOut(g)
    BY <1>2, <1>12 DEF AskTimesOut, TypeOK, runVars, queueVars, statusVars
  <1>13. CASE Wipe(g)
    <2>1. known' \in BOOLEAN
      BY <1>13 DEF Wipe
    <2> QED
      BY <1>2, <1>13, <2>1 DEF Wipe, TypeOK, runVars, queueVars, statusVars
  <1>14. CASE TellFound(g)
    BY <1>2, <1>14 DEF TellFound, TypeOK, runVars, queueVars, writeVars
  <1>15. ASSUME NEW type \in PacketTypes, Receive(g, type)
         PROVE  TypeOK'
    <2>1. held' \in [Goroutines -> PacketTypes \cup {NoPacket}]
      BY <1>15 DEF Receive, TypeOK
    <2>2. packets' \in 0 .. use'.packets
      BY <1>1, <1>15 DEF Receive, TypeOK, runVars
    <2> QED
      BY <1>2, <1>15, <2>1, <2>2
         DEF Receive, TypeOK, runVars, queueVars, writeVars, statusVars
  <1> QED
    BY <1>3, <1>4, <1>5, <1>6, <1>7, <1>8, <1>9, <1>10, <1>11, <1>12, <1>13,
       <1>14, <1>15 DEF ServeStep

LEMMA BeginEndType ==
  ASSUME TypeOK, NEW g \in Goroutines, Begin(g) \/ End(g)
  PROVE  TypeOK'
  <1>1. g[1] \in Kinds
    BY DEF Goroutines
  <1>2. pc' \in [Goroutines -> Places]
    BY MovesType DEF Begin, End, TypeOK, Places, Serving
  <1>3. Started' \subseteq Kinds /\ Mutex2' \in {"free", "left"}
    BY <1>1 DEF Begin, End, TypeOK
  <1>4. UNCHANGED <<held, runVars, queueVars, writeVars, statusVars, packets>>
    BY DEF Begin, End
  <1> QED
    BY <1>2, <1>3, <1>4
       DEF TypeOK, runVars, queueVars, writeVars, statusVars

-----------------------------------------------------------------------------
(* Which goroutines there are, and what Started and Mutex2 say of them.    *)

StartedInv ==
  /\ OneOfAKind
  /\ \A k \in Kinds :
       k \in Started <=> \E g \in Goroutines : g[1] = k /\ Alive(g)
  /\ Mutex2 = "left" => \E g \in Goroutines : Alive(g)
  /\ \A g \in Goroutines : g[2] > runs => pc[g] = "none"
  /\ ctl = "stopped" => \A g \in Goroutines : pc[g] \in {"none", "done"}

(* Mutex3 keeps UpdateStatus's Send and the application's apart.  So no    *)
(* deletion becomes due while a Write has Mutex3: one that is due then was *)
(* due when the Write began.                                               *)
PendingInv ==
  /\ writer # "idle" => Mutex3 = "writer"
  /\ \A g \in Goroutines : pc[g] = "wait" => Mutex3 = "config"
  /\ \A g, h \in Goroutines : pc[g] = "wait" /\ pc[h] = "wait" => g = h
  /\ \A g \in Goroutines : pc[g] = "wipe" /\ writer # "idle" => pending
  /\ AddressLostToPending

LifeInv == TypeOK /\ Ran /\ Holds /\ StartedInv /\ PendingInv

(* A step that leaves the goroutines as they are, or moves one of them     *)
(* from a place where it serves to another.                                *)
LEMMA StartedKept ==
  ASSUME TypeOK, StartedInv, Started' = Started, Mutex2' = Mutex2,
         runs' = runs,
         ctl' = "stopped" =>
           ctl = "stopped" \/ \A g \in Goroutines : pc[g] \in {"none", "done"},
         \A g \in Goroutines :
           pc'[g] = pc[g] \/ (pc[g] \in Serving /\ pc'[g] \in Serving)
  PROVE  StartedInv'
  <1>1. \A g \in Goroutines : Alive(g)' <=> Alive(g)
    BY DEF Alive
  <1>2. OneOfAKind'
    BY <1>1 DEF StartedInv, OneOfAKind
  <1>3. \A k \in Kinds :
          k \in Started' <=> \E g \in Goroutines : g[1] = k /\ Alive(g)'
    BY <1>1 DEF StartedInv
  <1>4. Mutex2' = "left" => \E g \in Goroutines : Alive(g)'
    BY <1>1 DEF StartedInv
  <1>5. \A g \in Goroutines : g[2] > runs' => pc'[g] = "none"
    BY DEF StartedInv, Serving
  <1>6. ctl' = "stopped" => \A g \in Goroutines : pc'[g] \in {"none", "done"}
    BY DEF StartedInv, Serving
  <1> QED
    BY <1>2, <1>3, <1>4, <1>5, <1>6 DEF StartedInv

LEMMA BeginStarted ==
  ASSUME TypeOK, StartedInv, NEW g \in Goroutines, Begin(g)
  PROVE  StartedInv'
  <1>1. g[1] \in Kinds /\ pc[g] = "begin" /\ ~Alive(g) /\ Mutex2 = "free"
    BY DEF Goroutines, Begin, Moves, Alive, Serving
  <1>2. ctl' # "stopped" /\ ctl' = ctl /\ runs' = runs /\ ~(g[2] > runs)
    BY <1>1 DEF StartedInv, Begin, runVars
  <1>3. CASE g[1] \in Started
    <2>1. /\ pc'[g] = "done" /\ Mutex2' = "left" /\ Started' = Started
          /\ \A h \in Goroutines : h # g => pc'[h] = pc[h]
      BY <1>3, MovesType DEF Begin, TypeOK, Places
    <2>2. \A h \in Goroutines : Alive(h)' <=> Alive(h)
      BY <1>1, <2>1 DEF Alive, Serving
    <2>3. \E h \in Goroutines : Alive(h)
      BY <1>1, <1>3 DEF StartedInv
    <2> QED
      BY <1>2, <2>1, <2>2, <2>3 DEF StartedInv, OneOfAKind
  <1>4. CASE g[1] \notin Started
    <2>1. /\ pc'[g] = "serve" /\ Mutex2' = Mutex2
          /\ Started' = Started \cup {g[1]}
          /\ \A h \in Goroutines : h # g => pc'[h] = pc[h]
      BY <1>4, MovesType DEF Begin, TypeOK, Places, Serving
    <2>2. \A h \in Goroutines : Alive(h)' <=> Alive(h) \/ h = g
      BY <2>1 DEF Alive, Serving
    <2>3. \A h \in Goroutines : Alive(h) => h[1] # g[1]
      BY <1>1, <1>4 DEF StartedInv
    <2>4. OneOfAKind'
      BY <2>2, <2>3 DEF StartedInv, OneOfAKind
    <2>5. \A k \in Kinds :
            k \in Started' <=> \E h \in Goroutines : h[1] = k /\ Alive(h)'
      BY <2>1, <2>2 DEF StartedInv
    <2>6. \A h \in Goroutines : h[2] > runs' => pc'[h] = "none"
      BY <1>2, <2>1 DEF StartedInv
    <2> QED
      BY <1>1, <1>2, <2>1, <2>4, <2>5, <2>6 DEF StartedInv
  <1> QED
    BY <1>3, <1>4

LEMMA EndStarted ==
  ASSUME TypeOK, StartedInv, NEW g \in Goroutines, End(g)
  PROVE  StartedInv'
  <1>1. g[1] \in Kinds /\ pc[g] = "end" /\ Alive(g) /\ Mutex2' = "free"
    BY DEF Goroutines, End, Moves, Alive, Serving
  <1>2. ctl' # "stopped" /\ runs' = runs
    BY <1>1 DEF StartedInv, End, runVars
  <1>3. /\ pc'[g] = "done" /\ Started' = Started \ {g[1]}
        /\ \A h \in Goroutines : h # g => pc'[h] = pc[h]
    BY MovesType DEF End, TypeOK, Places
  <1>4. \A h \in Goroutines : Alive(h)' <=> Alive(h) /\ h # g
    BY <1>3 DEF Alive, Serving
  <1>5. \A h \in Goroutines : Alive(h) /\ h[1] = g[1] => h = g
    BY <1>1 DEF StartedInv, OneOfAKind
  <1>6. OneOfAKind'
    BY <1>4 DEF StartedInv, OneOfAKind
  <1>7. \A k \in Kinds :
          k \in Started' <=> \E h \in Goroutines : h[1] = k /\ Alive(h)'
    BY <1>3, <1>4, <1>5 DEF StartedInv
  <1>8. \A h \in Goroutines : h[2] > runs' => pc'[h] = "none"
    BY <1>1, <1>2, <1>3 DEF StartedInv
  <1> QED
    BY <1>1, <1>2, <1>6, <1>7, <1>8 DEF StartedInv

LEMMA RunStarted ==
  ASSUME TypeOK, StartedInv, Run
  PROVE  StartedInv'
  <1>1. \A g \in StartedBy(runs + 1) : g[2] = runs + 1
    BY DEF StartedBy
  <1>2. runs \in Nat /\ runs' = runs + 1 /\ ctl' = "running"
    BY LifecycleAssumption DEF TypeOK, Run
  <1>3. \A g \in Goroutines : g[2] \in Nat
    BY LifecycleAssumption DEF Goroutines
  <1>4. \A g \in Goroutines : g \in StartedBy(runs + 1) => pc[g] = "none"
    BY <1>1, <1>2, <1>3 DEF StartedInv
  <1>5. \A g \in Goroutines :
          pc'[g] = IF g \in StartedBy(runs + 1) THEN "begin" ELSE pc[g]
    BY DEF Run
  <1>6. \A g \in Goroutines : Alive(g)' <=> Alive(g)
    BY <1>4, <1>5 DEF Alive, Serving
  <1>7. OneOfAKind'
    BY <1>6 DEF StartedInv, OneOfAKind
  <1>8. Started' = Started /\ Mutex2' = Mutex2
    BY DEF Run
  <1>9. \A g \in Goroutines : g[2] > runs' => pc'[g] = "none"
    BY <1>1, <1>2, <1>3, <1>5 DEF StartedInv
  <1> QED
    BY <1>2, <1>6, <1>7, <1>8, <1>9 DEF StartedInv

LEMMA CallerStarted ==
  ASSUME TypeOK, StartedInv, CallerStep
  PROVE  StartedInv'
  <1>1. CASE Run
    BY <1>1, RunStarted
  <1>2. CASE ~Run
    <2>1. /\ pc' = pc /\ Started' = Started /\ Mutex2' = Mutex2
          /\ runs' = runs
      BY <1>2 DEF CallerStep, ParentCancel, StopBeforeRun, StopDevice, StopStep,
         Cancel, Stopped, Read, Write, WriteStep, WriteReturns, TakeAddrResp,
         SendResolved, TakeOldReply, Request, runVars, goVars
    <2>2. ctl' = "stopped" =>
            \/ ctl = "stopped"
            \/ \A g \in Goroutines : pc[g] \in {"none", "done"}
      BY <1>2 DEF CallerStep, ParentCancel, StopBeforeRun, StopDevice, StopStep,
         Cancel, Stopped, Read, Write, WriteStep, WriteReturns, TakeAddrResp,
         SendResolved, TakeOldReply, Request, runVars
    <2> QED
      BY <2>1, <2>2, StartedKept
  <1> QED
    BY <1>1, <1>2

(* Where a step takes a goroutine that serves. *)
LEMMA ServePlaces ==
  ASSUME TypeOK, NEW g \in Goroutines, ServeStep(g)
  PROVE  /\ pc[g] \in Serving /\ pc'[g] \in Serving
         /\ \A h \in Goroutines : h # g => pc'[h] = pc[h]
         /\ pc'[g] = "put" => \E type \in PacketTypes : Receive(g, type)
         /\ pc'[g] = "wait" => AskStatus(g)
         /\ pc'[g] = "wipe" => AskTimesOut(g)
  <1>1. HandlingOf(Head(DataQueue)) \in {"respond", "tell", "rx"}
    BY DEF HandlingOf
  <1>2. PICK to \in Serving :
          /\ pc[g] \in Serving /\ pc' = [pc EXCEPT ![g] = to]
          /\ to = "put" => \E type \in PacketTypes : Receive(g, type)
          /\ to = "wait" => AskStatus(g)
          /\ to = "wipe" => AskTimesOut(g)
    <2>1. CASE Leave(g) \/ Enqueue(g) \/ Deliver(g) \/ SendAddrResp(g)
               \/ TellStatusQuery(g) \/ SendStatus(g) \/ Wipe(g) \/ TellFound(g)
      BY <2>1 DEF Leave, Enqueue, Deliver, SendAddrResp, TellStatusQuery,
         SendStatus, Wipe, TellFound, Moves, Serving
    <2>2. CASE TakeData(g)
      BY <1>1, <2>2 DEF TakeData, Moves, Serving
    <2>3. CASE TakeConfig(g)
      BY <2>3 DEF TakeConfig, Moves, Serving
    <2>4. CASE AskStatus(g)
      BY <2>4 DEF AskStatus, Moves, Serving
    <2>5. CASE AskTimesOut(g)
      BY <2>5 DEF AskTimesOut, Moves, Serving
    <2>6. CASE \E type \in PacketTypes : Receive(g, type)
      BY <2>6 DEF Receive, Moves, Serving
    <2> QED
      BY <2>1, <2>2, <2>3, <2>4, <2>5, <2>6 DEF ServeStep
  <1> QED
    BY <1>2 DEF TypeOK

LEMMA ServeStarted ==
  ASSUME TypeOK, StartedInv, NEW g \in Goroutines, ServeStep(g)
  PROVE  StartedInv'
  <1>1. Started' = Started /\ Mutex2' = Mutex2 /\ runs' = runs /\ ctl' = ctl
    BY DEF ServeStep, Leave, Enqueue, TakeData, Deliver, SendAddrResp,
       TellStatusQuery, TakeConfig, SendStatus, AskStatus, AskTimesOut, Wipe,
       TellFound, Receive, runVars
  <1> QED
    BY <1>1, ServePlaces, StartedKept

-----------------------------------------------------------------------------
(* Ran, Holds and PendingInv are kept as well. *)

LEMMA CallerRest ==
  ASSUME TypeOK, Ran, Holds, PendingInv, CallerStep
  PROVE  Ran' /\ Holds' /\ PendingInv'
  <1>1. runs \in Nat
    BY LifecycleAssumption DEF TypeOK
  <1>2. CASE Run
    <2>1. \A g \in Goroutines : pc'[g] \in {"begin", pc[g]}
      BY <1>2 DEF Run
    <2>2. Ran'
      BY <1>1, <1>2 DEF Run, Ran
    <2>3. Holds'
      BY <1>2, <2>1 DEF Run, Holds
    <2>4. UNCHANGED <<Mutex3, writer, known, pending>>
      BY <1>2 DEF Run, writeVars
    <2> QED
      BY <2>1, <2>2, <2>3, <2>4 DEF PendingInv, AddressLostToPending
  <1>3. CASE \/ ParentCancel \/ StopBeforeRun \/ StopDevice \/ StopStep
             \/ Read \/ TakeOldReply
             \/ \E what \in {"search", "notify"} : Request(what)
    <2>1. Ran'
      BY <1>3 DEF ParentCancel, StopBeforeRun, StopDevice, StopStep, Cancel,
         Stopped, Read, TakeOldReply, Request, runVars, Ran
    <2>2. UNCHANGED <<pc, held, Mutex3, writer, known, pending>>
      BY <1>3 DEF ParentCancel, StopBeforeRun, StopDevice, StopStep, Cancel,
         Stopped, Read, TakeOldReply, Request, goVars, writeVars
    <2> QED
      BY <2>1, <2>2 DEF Holds, PendingInv, AddressLostToPending
  <1>4. CASE Write \/ WriteStep
    <2>1. UNCHANGED <<ctl, runs, pc, held>>
      BY <1>4 DEF Write, WriteStep, WriteReturns, TakeAddrResp, SendResolved,
         runVars, goVars
    <2>2. PendingInv'
      <3>1. CASE Write
        BY <2>1, <3>1 DEF Write, PendingInv, AddressLostToPending
      <3>2. CASE WriteReturns
        BY <2>1, <3>2 DEF WriteReturns, WriteWaits, PendingInv,
           AddressLostToPending
      <3>3. CASE TakeAddrResp \/ SendResolved
        BY <2>1, <3>3 DEF TakeAddrResp, SendResolved, PendingInv,
           AddressLostToPending
      <3> QED
        BY <1>4, <3>1, <3>2, <3>3 DEF WriteStep
    <2> QED
      BY <2>1, <2>2 DEF Ran, Holds
  <1> QED
    BY <1>2, <1>3, <1>4 DEF CallerStep

LEMMA ServeRest ==
  ASSUME TypeOK, Ran, Holds, PendingInv, NEW g \in Goroutines, ServeStep(g)
  PROVE  Ran' /\ Holds' /\ PendingInv'
  <1>1. UNCHANGED <<ctl, runs, writer, pending>>
    BY DEF ServeStep, Leave, Enqueue, TakeData, Deliver, SendAddrResp,
       TellStatusQuery, TakeConfig, SendStatus, AskStatus, AskTimesOut, Wipe,
       TellFound, Receive, runVars, writeVars
  <1>2. Holds'
    <2>1. \A h \in Goroutines : h # g => held'[h] = held[h]
      BY DEF ServeStep, Leave, Enqueue, TakeData, Deliver, SendAddrResp,
         TellStatusQuery, TakeConfig, SendStatus, AskStatus, AskTimesOut, Wipe,
         TellFound, Receive, TypeOK
    <2>2. pc'[g] = "put" => held'[g] \in PacketTypes
      BY ServePlaces DEF Receive, TypeOK
    <2> QED
      BY <2>1, <2>2, ServePlaces DEF Holds
  <1>3. CASE AskStatus(g)
    <2>1. /\ Mutex3 = "free" /\ Mutex3' = "config" /\ UNCHANGED known
          /\ pc'[g] = "wait"
          /\ \A h \in Goroutines : h # g => pc'[h] = pc[h]
      BY <1>3 DEF AskStatus, Moves, TypeOK
    <2>2. writer = "idle" /\ \A h \in Goroutines : pc[h] # "wait"
      BY <2>1 DEF PendingInv
    <2> QED
      BY <1>1, <1>2, <2>1, <2>2 DEF Ran, PendingInv, AddressLostToPending
  <1>4. CASE AskTimesOut(g)
    <2>1. /\ pc[g] = "wait" /\ pc'[g] = "wipe" /\ UNCHANGED known
          /\ \A h \in Goroutines : h # g => pc'[h] = pc[h]
      BY <1>4 DEF AskTimesOut, Moves, TypeOK
    <2>2. writer = "idle" /\ \A h \in Goroutines : h # g => pc[h] # "wait"
      BY <2>1 DEF PendingInv
    <2> QED
      BY <1>1, <1>2, <2>1, <2>2 DEF Ran, PendingInv, AddressLostToPending
  <1>5. CASE Wipe(g)
    <2>1. /\ pc[g] = "wipe" /\ pc'[g] = "found" /\ UNCHANGED Mutex3
          /\ \A h \in Goroutines : h # g => pc'[h] = pc[h]
      BY <1>5 DEF Wipe, Moves, TypeOK
    <2> QED
      BY <1>1, <1>2, <2>1 DEF Ran, PendingInv, AddressLostToPending
  <1>6. CASE ~AskStatus(g) /\ ~AskTimesOut(g) /\ ~Wipe(g)
    <2>1. UNCHANGED <<Mutex3, known>>
      BY <1>6, Zenon DEF ServeStep, Leave, Enqueue, TakeData, Deliver,
         SendAddrResp, TellStatusQuery, TakeConfig, SendStatus, TellFound,
         Receive, writeVars
    <2>2. /\ pc'[g] \notin {"wait", "wipe"}
          /\ \A h \in Goroutines : h # g => pc'[h] = pc[h]
      BY <1>6, ServePlaces
    <2> QED
      BY <1>1, <1>2, <2>1, <2>2 DEF Ran, PendingInv, AddressLostToPending
  <1> QED
    BY <1>3, <1>4, <1>5, <1>6

LEMMA BeginEndRest ==
  ASSUME TypeOK, Ran, Holds, PendingInv, NEW g \in Goroutines,
         Begin(g) \/ End(g)
  PROVE  Ran' /\ Holds' /\ PendingInv'
  <1>1. UNCHANGED <<held, ctl, runs, Mutex3, writer, known, pending>>
    BY DEF Begin, End, runVars, writeVars
  <1>2. /\ pc[g] \in {"begin", "end"} /\ pc'[g] \in {"serve", "done"}
        /\ \A h \in Goroutines : h # g => pc'[h] = pc[h]
    BY DEF Begin, End, Moves, TypeOK
  <1> QED
    BY <1>1, <1>2 DEF Ran, Holds, PendingInv, AddressLostToPending

-----------------------------------------------------------------------------

LEMMA InitLifeInv == Init => LifeInv
  <1> SUFFICES ASSUME Init PROVE LifeInv
    OBVIOUS
  <1>1. TypeOK
    <2>1. use \in [config : BOOLEAN, runs : 0 .. MaxRuns, packets : Nat,
                   writes : Nat, requests : Nat]
      BY LifecycleAssumption DEF Init
    <2>2. DataQueue \in Seq(PacketTypes) /\ Len(DataQueue) <= DataCap
      BY LifecycleAssumption, EmptySeq DEF Init
    <2>3. AckQueue \in 0 .. AckCap /\ RxData \in 0 .. RxCap
      BY LifecycleAssumption DEF Init
    <2>4. pc \in [Goroutines -> Places]
      BY DEF Init, Places
    <2>5. held \in [Goroutines -> PacketTypes \cup {NoPacket}]
      BY DEF Init
    <2>6. /\ device \in BOOLEAN /\ parentDone \in BOOLEAN
          /\ known \in BOOLEAN /\ pending \in BOOLEAN
          /\ cancelled \subseteq 1 .. MaxRuns
      BY Zenon DEF Init
    <2>7. /\ packets \in 0 .. use.packets /\ calls \in 0 .. use.writes
          /\ requests \in 0 .. use.requests
      BY <2>1 DEF Init
    <2>8. runs \in 0 .. MaxRuns
      BY LifecycleAssumption DEF Init
    <2> QED
      BY <2>2, <2>3, <2>4, <2>5, <2>6, <2>7, <2>8 DEF Init, TypeOK
  <1>2. StartedInv
    BY DEF Init, StartedInv, OneOfAKind, Alive, Serving
  <1>3. Ran /\ Holds /\ PendingInv
    BY DEF Init, Ran, Holds, PendingInv, AddressLostToPending
  <1> QED
    BY <1>1, <1>2, <1>3 DEF LifeInv

LEMMA NextLifeInv == LifeInv /\ [Next]_vars => LifeInv'
  <1> SUFFICES ASSUME LifeInv, [Next]_vars PROVE LifeInv'
    OBVIOUS
  <1> USE DEF LifeInv
  <1>1. CASE CallerStep
    BY <1>1, CallerType, CallerStarted, CallerRest
  <1>2. ASSUME NEW g \in Goroutines, ServeStep(g) PROVE LifeInv'
    BY <1>2, ServeType, ServeStarted, ServeRest
  <1>3. ASSUME NEW g \in Goroutines, Begin(g) PROVE LifeInv'
    BY <1>3, BeginEndType, BeginStarted, BeginEndRest
  <1>4. ASSUME NEW g \in Goroutines, End(g) PROVE LifeInv'
    BY <1>4, BeginEndType, EndStarted, BeginEndRest
  <1>5. CASE UNCHANGED vars
    BY <1>5 DEF vars, runVars, goVars, queueVars, writeVars, statusVars,
       TypeOK, Ran, Holds, StartedInv, OneOfAKind, Alive, PendingInv,
       AddressLostToPending
  <1> QED
    BY <1>1, <1>2, <1>3, <1>4, <1>5, NextCases

LEMMA LifeInvariant == Spec => []LifeInv
  BY InitLifeInv, NextLifeInv, PTL DEF Spec

(* Every variable has its type. *)
THEOREM LifecycleTypeCorrect == Spec => []TypeOK
  <1>1. LifeInv => TypeOK
    BY DEF LifeInv
  <1> QED
    BY <1>1, LifeInvariant, PTL

(* However often Run is called, two goroutines of a kind never serve the   *)
(* device at once (nfd.go:381-387).                                        *)
THEOREM NoSecondReceiver == Spec => []OneOfAKind
  <1>1. LifeInv => OneOfAKind
    BY DEF LifeInv, StartedInv
  <1> QED
    BY <1>1, LifeInvariant, PTL

(* A device that Stop has returned from can be run again: Mutex2 is free,  *)
(* even if Run had been called twice, because the goroutine that was there *)
(* first cannot end while Mutex2 is locked, and Stop waits for it          *)
(* (nfd.go:385, 674).                                                      *)
THEOREM StoppedIsClean == Spec => []StopLeavesClean
  <1>1. LifeInv => StopLeavesClean
    BY DEF LifeInv, StartedInv, TypeOK, StopLeavesClean, Alive, Serving
  <1> QED
    BY <1>1, LifeInvariant, PTL

(* A Write that has its ADDR_RESP loses the address again only to an       *)
(* UpdateStatus that had nothing left but its deletions to do when the     *)
(* Write took Mutex3 (nfd.go:320, 534).                                    *)
THEOREM AddressKept == Spec => []AddressLostToPending
  <1>1. LifeInv => AddressLostToPending
    BY DEF LifeInv, PendingInv
  <1> QED
    BY <1>1, LifeInvariant, PTL
=============================================================================
