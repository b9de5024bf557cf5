# TLA+ models and proofs for NFC (near-field communication device)

The repository is a Go library that sends IP packets between nodes over a radio
module on a serial port (XBee-900HP or ESP32), with a virtual XBee over UDP for
tests. This directory holds its TLA+ models, the TLC runs that check them, and
proofs about them for TLAPS.

Contents: [inventory](#inventory), [plan](#plan), [the modules and the
code](#the-modules-and-the-code), [the runs](#the-runs), [fairness](#fairness),
[what is proved](#what-is-proved), [only model-checked](#only-model-checked),
[what the models leave out](#what-the-models-leave-out), [findings](#findings).

## Inventory

Three layers, each a client of the one below.

| Component | Source | State | Operations |
|---|---|---|---|
| Packet layer | `nfd/nfd.go`, `nfd/packet.go` | `Seq`, `ADDR_LIST`, `NodeAddrs`, `ServerAddr`, the channels `AckQueue`, `DataQueue`, `RxData`, the mutexes | `Write`, `Read`, `Send`, `Tx`, `WaitForAck`; the goroutines `Receiver`, `PacketHandler`, `NodeDetector` |
| Status service | `nfd/nfd.go`, `main.go` | `StatusQueue`, `NodeStatuses`, `configCh`, `deviceCh` | `ConfigHandler` (not started by `Run`), `UpdateStatus`, `DeviceInfoHandler` |
| Lifecycle | `nfd/nfd.go`, the drivers | `Started`, `Mutex2`, `WG`, the package-level `cancel` | `Init`, `Run`, `Stop`, `Reader.Start`, `Reader.Stop` |
| Message layer of the drivers | `nfd/xbee/xbee.go`, `nfd/virtual_xbee/xbee.go`, `nfd/wifi/wifi.go`, `fragment.go` | `Seq`, the map of `ReceivePacket` | `SendPacket`, `ReceivePacket` |
| Frame layer of the drivers | `reader.go`, `writer.go` of each driver | `Writer.Seq`, `RecvByteCh`, `RecvRespCh`, `RecvStatusCh`, `RecvPacketCh` | `ReadByte`, `ReadFrame`, `GetPacket`, `GetStatus`, `GetResp`, `SendPacketWithResponse`, AT commands, `GetNodes` |
| Virtual device | `nfd/virtual_xbee/virtual_xbee_device.go` | `RecvData` | `Write`, `Read` |
| Codecs | `nfd/packet.go`, `nfd/util.go`, `fragment.go` | none | `Encode`, `DecodePacket`, `GetFragments`, conversions |
| Demo | `main.go`, `data.go` | none | a `main` whose body is commented out |

How they interact. `Write` takes `Mutex3` in `Send` and keeps it until `Tx` and
`WaitForAck` are done; `Tx` calls the driver's `SendPacket`. `Receiver` calls
`ReceivePacket` and puts replies into `AckQueue`, where only `WaitForAck` takes
them, and everything else into `DataQueue`, where `PacketHandler` takes it.
`PacketHandler` answers an `ADDR_REQ` through `Send`, so it needs `Mutex3`, and
data by putting it into `RxData` (for `Read`) and then sending an `ACK` straight
to the driver. `NodeDetector` replaces `NodeAddrs`, whose first element `Send`
uses as a relay. In a driver, `SendPacket` waits for the status of each
fragment's frame, which `ReadFrame` puts into a channel; `ReadFrame` makes room
in a full channel by taking out its oldest element.

What is hard, and what makes each part correct:

* Packet layer. Replies are recognised by an 8-bit number alone; they may be
  late, and a timeout may race them. Two nodes that resolve each other's address
  hold the mutex that each needs to answer. Three bounded channels and a mutex
  form a wait cycle. Correct means: a `Write` that reports success has its data
  in a receive buffer; data is never there twice; a P2P packet reaches its owner
  only; the unchecked accesses (`NodeAddrs[0]`, `ADDR_LIST[...]`) find
  something; every wait ends.
* Message layer. Fragments are counted, not placed; senders are told apart by an
  address and an 8-bit number; errors throw the map away. Correct means: what is
  returned is a message that was sent, once, and a message is lost only for a
  reason.
* Frame layer. Two goroutines share a frame counter without a lock; `ReadFrame`
  can wait for ever on the channel it overflowed, and so can `Clear`; bytes may
  be lost or read twice; a package-level `cancel`. Correct means: a status
  confirms the frame it belongs to; frames are read in order; the reader goes
  on, and stops.
* Status service. Requests and responses over two unbuffered channels, a prefix
  check that refuses the empty address, and deletions from `ADDR_LIST` while a
  `Write` uses it. Correct means: a request is taken and a search answered; a
  `Write` loses the address it resolved to no deletion that began after it.
* Lifecycle. `Stop` waits for goroutines that may be blocked in a channel; two
  `Run`s share `Started` and `n.cancel`. Correct means: `Stop` returns, `Run`
  works after it, and nothing serves a device twice.
* Codecs. One-byte length fields, limits on fragments and frames, addresses of 5
  or 8 bytes in a header made for 8. Correct means: every frame is read to its
  end, and what is put together again is what was cut, for every length.

The hazards, each at its line, are in `PROJECT.json`.

## Plan

1. `Nfd`: the packet layer (done), with the abstract specification
   `ConfirmedWrite` that it implements, `NfdPatient` for the causes of failing
   writes, and the proofs `NfdProofs`, `NfdOnce` and `NfdPatientProofs` (done).
2. `Reassembly`: the message layer of the three drivers, with a restart of a
   sender (done), with the abstract specification `MessageChannel` that it
   implements and the proofs `ReassemblyProofs` (done).
3. `FrameNumbers`: `Writer.Seq`, `GetStatus` and `GetResp` with late answers,
   commands and frames side by side, answers to an earlier process (done), with
   the proofs `FrameNumbersProofs` (done).
4. `FrameReader`: `ReadByte`, `ReadFrame` and `ReadBytes` on a byte stream,
   `Start` and `Stop`, the byte channel of the virtual device with its two
   writers, and a second reader of the same package (done), with the proofs
   `FrameReaderProofs` (done).
5. `Lifecycle`: `Run` and `Stop`, `ConfigHandler`, `UpdateStatus`,
   `DeviceInfoHandler` (done), with the proofs `LifecycleProofs` (done).
6. `Framing`: fragment, packet and frame layouts as lengths (done), with the
   proofs `FramingProofs` (done).

What is left is what only the runs show; see [only
model-checked](#only-model-checked).

## The modules and the code

### Nfd

A node stands for its IPv4 address and its MAC address at once. Variables have
the names of the Go fields (`Seq_` for `Seq`, a name of the standard modules).
`call[n]` is the activation record of the `Send` that holds `Mutex3`; `Mutex3`
is held exactly while it is not `NoCall`. `received[n]` and `handler[n]` are the
local variables of `Receiver` and `PacketHandler`. `air` is the medium with the
drivers. `txCount`, `writes` and `arrived` are history variables, and so are the
fields `id`, `w` and `lag`; no guard looks at them.

| Action | Code |
|---|---|
| `Write`, `WriteRefused` | `Write` and `Send` up to the first `Tx`: the choice of route |
| `Transmit` | `Tx`: number, packet, `SendPacket`; with `Lossy`, also its failure |
| `TakeAck` | `WaitForAck` takes a packet; on a match `Tx` returns and `Send` goes on or returns |
| `FallAsleep`, `Tick` | the `default` branch of `WaitForAck`: a 100 ms sleep, and the end of the last |
| `Receive`, `Enqueue` | `Receiver`: `ReceivePacket`, and the send to a queue, which blocks when it is full |
| `TakeData` | `PacketHandler` takes a packet; an `ADDR_REQ` for others is dropped |
| `SendAddrResp` | the answer to an `ADDR_REQ`: needs `Mutex3`, waits for no reply |
| `Deliver`, `SendAck` | `RxData <- p.Data`, which blocks when it is full, and then the `ACK` |
| `DetectNodes` | `NodeDetector` |
| `Read` | `Read` |

`Tx` and `WaitForAck` belong to whatever `Send` is at: `TxFails` and
`TxSucceeds` hold what `Send` does next, so that an action is one step of the
goroutine between two points where others can interfere. A packet that is never
taken from `air` is lost; `Duplicates` lets one be taken twice.

The exception `lag >= SeqMod` in two properties is exact: the number of a reply
is all that `WaitForAck` looks at, so a reply to a request that is a full turn
(256 transmissions) old is taken for the right one.

### ConfirmedWrite

What the callers of `Write` may rely on: success means the data arrived; an
error means nothing. `ImplementsConfirmedWrite` in `Nfd` maps `status` to the
results of `writes` and the call in progress, for numbers that do not come
round.

### NfdPatient

`Nfd` where a wait times out only when nothing else can happen: five seconds are
long. `CanStep` repeats the guards of the other actions, rather than being made
of `ENABLED`, so that it can be proved about. `hindered` records whether, during
a `Write`, another node was inside a `Send` of its own, another node was deaf
(its `Receiver` blocked on a full `AckQueue`), or the node itself was clogged
(its `Receiver` blocked on a full `DataQueue` behind an `ADDR_REQ` that waits
for `Mutex3`). These are all the causes of a failing `Write` on a medium that
loses nothing.

### Reassembly

The three drivers are copies of one another; `driver` says which one all nodes
have, and the two operators `Index` and `Tries` and one guard say where the
copies differ. A fragment stands for the frame that carries it; `msg` is a
history field. The radio module is external: a frame's status (`StatusOk`,
`StatusBad`) and its arrival are independent. `receivedData` is the map of
`ReceivePacket`: for each key, an address and a number (`Index`), its fragments
in the order they came, none where the map has no such key. A damaged frame that
swallows others is a loss of those. `broken` is a history variable: messages
that lost a fragment, and to which `NothingElseLoses` promises nothing: that
these are lost is what the code does, and the property shows that no others are.
`Restart` ends the process of a sender at any moment and starts another, whose
numbers begin at 0 again (`NewXbee`), while what it wrote is still on its way or
in the map of the receiver; `restarts` remembers between which messages that
was. Without the exception for it, both `ReturnsMessages` and `NothingElseLoses`
fail.

### MessageChannel

What the packet layer may rely on when it calls `SendPacket` and
`ReceivePacket`: any message may be lost, but those of one sender that are
received come in the order they were sent, none twice, and each was sent, as
long as the channel is not `ambiguous`. `ImplementsMessageChannel` in
`Reassembly` maps `begun` to `started` and `received` to what `ReceivePacket`
returned: the message that it is, or none when it was put together from several.
With xbee the channel becomes ambiguous when numbers come round or a sender is
restarted; with wifi, which mixes senders up, it always is. vxbee is left out:
it may send a fragment twice, and then a message is returned that is in no
order.

### FrameNumbers

One node's driver, with its `Writer.Seq` and two goroutines: the one that sends
fragments (`sender`), and the one that asks the radio module something (`asker`:
first `SetMacAddr`, then `GetNodes` for `NodeDetector`). `gen[g]` is the
activation record of `GenTransmitRequest` or `GenATCmd`; as `Writer.Seq` has no
lock, each load, store, test and use of it is a step, in the order `Steps` gives
for the driver: wifi takes the number before it increases it, only xbee tests
for 0. After `WriteFrame` the goroutine is in `GetStatus` or `GetResp`. The
module is external: it may answer any frame it was written, late or never, a
search several times; an XBee does not answer a frame numbered 0. It may also
owe an answer to a frame of an earlier process (`Unanswered`, with `Earlier` as
its `id`), whose number this process uses again.

| Action | Code |
|---|---|
| `BeginSend`, `BeginAddress`, `BeginSearch` | `SendPacketWithResponse`, `SetMacAddr`'s commands, `GetNodes`, up to the numbering |
| `Load`, `Store`, `Test`, `Reset`, `Take` | the statements on `Writer.Seq` |
| `WriteFrame` | `Port.Write` |
| `StatusArrives`, `ResponseArrives` | `ReadFrame` puts an answer into its channel |
| `TakeStatus`, `StatusTimeout` | `GetStatus` and the rest of `SendPacketWithResponse` |
| `TakeNode`, `NodesTimeout` | `GetResp` and the loop of `GetNodes` |
| `TakeAddress`, `AddressTimeout` | `GetResp`, the rest of a command, the attempts of `SetMacAddr`, and the `Clear` at its end |

`id` says which frame an answer belongs to (`Earlier`: to none of this process);
`lost` whether a store ever overwrote an increment; `raced` whether the other
goroutine stored while a frame was numbered. They are history. The exceptions in
the properties are the ways the code really fails: without `lost`, without the
turn of the numbers, or without `raced`, TLC finds a counterexample.

### FrameReader

The reader of one driver. `rb` and `rf` are `ReadByte` and `ReadFrame` with what
they hold; `frame` is `ReadFrame`'s variable, `got` what `ReadBytes` has. `ctl`
is the caller of `Stop` and `Start`. Frames in the three channels are only
counted. The length of a frame is one byte (two in the code), and a byte of a
body may be a delimiter, as the code escapes nothing. What fills `wire` is
external for xbee and wifi; for vxbee it is `VirtualXbeeDevice`, whose `Write`
and `Read` are two writers of one channel. Where the copies differ: wifi counts
the checksum in the length and validates frames; vxbee waits for room in
`RecvByteCh` where the others drop a byte; only xbee tests for a frame that was
cut short by `Stop`, and keeps that piece in `frame`.

| Action | Code |
|---|---|
| `WriteFirst`, `WriteRest` | the bytes of a frame reach the port or `RecvData` |
| `ReadPort`, `ReadNothing`, `PutByte`, `DropByte`, `ReadByteReturns` | `ReadByte`; `Port.Read` may return nothing after its timeout of 500 ms |
| `TakeByte`, `BytesCancelled` | `ReadFrame` up to the end of a frame, with `ReadBytes` |
| `PutFrame`, `Full`, `MakeRoom` | the two `select`s and receives that put a frame into a channel |
| `ReadFrameReturns` | `<-ctx.Done()` in `ReadFrame` |
| `TakeFrame` | `GetPacket`, `GetStatus`, `GetResp` |
| `Stop`, `ClearLooks`, `ClearTakes`, `Cancel`, `Stopped`, `Start` | `Stop` with `Clear`, `Start` |
| `OtherStart`, `OtherStop` | another `Reader` of the package: its `Start` takes the package's variable `cancel`, its `Stop` calls whatever is in it |

`due` holds the frames that should still be read and `disturbed` says that the
stream may be spoilt: a byte was dropped, the two writers of vxbee were inside a
frame at once, an idle port was read in the middle of a frame or after a
delimiter, `Stop` was called, or another `Reader` cancelled this one's
goroutines. The disjuncts of `StopReturns` are waits that really occur in the
model: without any one of them TLC finds a counterexample.

### Lifecycle

One device, from `Run` to `Stop`. A goroutine is named by what it runs and by
the `Run` that started it, so that two calls of `Run` are two sets of
goroutines. `pc` says where each is; the waits are at `begin` and `end` (for
`Mutex2`), `put` (for room in a queue), `rx` (in `RxData`), `respond` and `ask`
(for `Mutex3`), `tell` and `found` (for the reader of `deviceCh`). `ctl` is the
caller of `Run` and `Stop`. Of `Send` there is what these waits depend on: who
holds `Mutex3`, when `AckQueue` is emptied, and the entry of `ADDR_LIST` that a
`Write` looks for.

| Action | Code |
|---|---|
| `Run`, `StopDevice`, `Cancel`, `Stopped`, `StopBeforeRun` | `Run`; `Stop`, statement by statement; `Stop` with a nil `cancel` |
| `Begin`, `Leave`, `End` | the first and the last lines of each goroutine, with `Started` and `Mutex2` |
| `Receive`, `Enqueue` | `Receiver` |
| `TakeData`, `SendAddrResp`, `Deliver`, `TellStatusQuery` | `PacketHandler` and the branches of its `switch`; an unbuffered send is one step of both sides |
| `Write`, `TakeOldReply`, `TakeAddrResp`, `SendResolved`, `WriteReturns` | `Write`, `Send` and `WaitForAck`, as far as others depend on them |
| `TakeConfig`, `SendStatus`, `AskStatus`, `AskTimesOut`, `Wipe`, `TellFound` | `ConfigHandler`, with `UpdateStatus` and the two channels to the application |
| `Request`, `Read`, `ParentCancel` | the application |

`Run` does not start `ConfigHandler` (`nfd.go:638` is commented out), but the
method is exported; `use.config` says whether the application starts it next to
`Run`. It can only give it the context it gave to `Run`, so that `Stop` does not
end it. A `Write` that resolves an address may be `misled` by another reply with
the right number, which leaves it without the entry; `ResolvedHasMac` of `Nfd`
says when that can be. `pending` is history: `UpdateStatus` was about to delete
from `ADDR_LIST` when the `Write` took `Mutex3`. `use` bounds what happens in a
behaviour, so that one run looks at several uses. The seven disjuncts of
`StopReturns` are waits that really occur.

### Framing

One IP packet and its answer, from `Write` to `DecodePacket`, as lengths. A part
of a message is the interval of its bytes; a frame is its part, its size, the
value of its length field and its address; an address is whose it is and how
many digits it has. `Radio` is external; for vxbee `VirtualDevice` takes its
place. `stage` is how far the packet has come: `astray` when a length field and
a size disagree, `exit` when `log.Fatal` ends the program.

| Action | Code |
|---|---|
| `Write`, `Answer` | `Packet.Encode`, called by `Tx` and `PacketHandler` |
| `GetFragments`, with `Total` and `Part` | `GetFragments`, `splitData` |
| `TransmitRequest`, with `RemoteAddr` and `LengthField` | `SendPacketWithResponse` and the frame it builds |
| `VirtualDevice` | `VirtualXbeeDevice.Read` |
| `ReadFrame` | `ReadFrame`, `RecvData`, `ReceivePacket` |

## The runs

| Run | Question | Instance and why it is enough |
|---|---|---|
| `nfd_pair` | Is what `Write` reports what happened, does data arrive twice, are the types right? | Two nodes, one `Write` each, to every kind of address (the other, itself, broadcast); every queue has room for one, a wait is one tick, one neighbour may be found; `SendPacket` may fail. Stale replies fill `AckQueue`, and both nodes resolve each other. |
| `nfd_wrap` | What does the 8-bit number cost? Is the relay route usable, is P2P for its owner? | Numbers modulo 2 and a medium that repeats packets: a full turn is two transmissions; an address nobody owns, so that resolving fails; two `Write`s and a repeating medium, so that `RxData` is full and the second uses `ServerAddr` or `ADDR_LIST`. With more nodes, see the theorems `RelayRouteUsable` and `P2PForOwner`. |
| `nfd_live` | Do `Write` and `PacketHandler` get on? | Two nodes that write to each other, so that each holds the mutex it needs to answer the other; all queues of capacity 1, with fairness. One of them writes twice and a wait has two sleeps: a reply to the first `Write` wakes the wait of the second, which goes on and gives up after the sleep it has left. Nobody finds a neighbour; `nfd_cycle` has the relay. |
| `nfd_cycle` | Does the wait cycle of `Receiver` come apart? | One node writes to an address nobody owns and so holds `Mutex3` while the other sends it an `ADDR_REQ`, a `RELAY_REQ` and an `ADDR_REQ`: one for its handler, one for its queue, one for its `Receiver` to wait with. |
| `nfd_patient` | Why may a `Write` fail when nothing is lost? | Two nodes, two `Write`s each, so that what the first leaves behind meets the second. Four ticks, so that stale replies can wake a wait and not end it. |
| `reassembly` | Is what `ReceivePacket` returns a message, once and in order, and what may be lost? | Two senders, messages of one or two fragments, a receive channel for one frame, numbers modulo 2. Three messages in all, so that numbers come round (two for vxbee, whose retries have many states; a frame overtakes one other at a time, which can hold one back for as long as it takes). One restart, at any moment, with xbee only, which has the strongest properties (`NothingElseLoses` is about it alone): with the others, whose `NewXbee` is a copy, the states would be too many. |
| `reassembly_vxbee`, `reassembly_wifi` | The two findings below. | One sender and one message; two senders without any loss. |
| `frame_numbers` | Is an answer taken for the frame it belongs to? | All three drivers; numbers modulo 5, two attempts of `SetMacAddr`, three frames or searches after it, so that late answers to the start-up, to a search and to a frame all meet a later one, and both goroutines number frames at once while the number is 0. At most one frame of the process before is unanswered: a search numbered like the first command, or a frame numbered like the first one sent. |
| `frame_reader` | Are frames read in order, do they arrive, does `Stop` return? | Two frames, one with a delimiter in its payload and as its checksum; one idle read; one `Stop` at any moment and a `Start`. Room for one byte in `RecvByteCh` and one frame in each channel, so that both overflow. One frame where the other reader starts and stops too. |
| `lifecycle` | Does `Stop` return and `Run` serve, is a device served twice, is a request taken? | Four uses: `Run` twice, with a `Stop` between them or not; four packets with queues for one, so that `AckQueue`, `DataQueue` and `RxData` are all full; a `Write` that empties `AckQueue`; a `ConfigHandler` with a search, a `Write` and a packet. |
| `framing` | Are frames read to their end, is the packet whole? | Each driver, and the lengths around every one at which something changes: one and two fragments, 235 bytes (the buffer of vxbee), 255 and 256 fragments. |

`CHECK_DEADLOCK FALSE` in `nfd_live`: when all `Write`s have returned nothing is
left to do. In `lifecycle`: the device may stay stopped, and the waits of
`StopReturns` are real. In `framing`: `log.Fatal` ends the program. In
`frame_reader`: a panic ends the program, and a port that brings nothing leaves
nothing to do. In `frame_numbers`: the frames are bounded, and after three vain
attempts `SetMacAddr` gives up and the driver is not opened. Also in the three
runs of `Reassembly`: when all messages are sent and received nothing is left to
do; and `ReadFrame` can wait for ever (hazard at `xbee/reader.go:129`).

`MaxWrites`, `MaxFound`, `Dests`, `Totals`, `MaxMessages`, `Tos`, `MaxFrames`,
`MaxAnswers`, `MaxRepeats`, `MaxStops`, `MaxRestarts`, `MaxAhead`, `Unanswered`,
`MaxFramesOther`, `MaxRuns`, `Uses` and `Sizes` are bounds of the instances.
`SeqMod`, `Ticks`, the capacities, `NoMod`, `MaxTries`, `FrameMod` and `Tries`
are parameters of the code with smaller values. `Tos` has one address: for the
drivers that tell senders apart by it that is the hardest case.

## Fairness

`FairSpec` has weak fairness for each goroutine (`SendStep` for the one inside
`Send`, `Enqueue` for `Receiver`, `HandlerStep` for `PacketHandler`): the Go
scheduler is preemptive and a channel operation that stays possible is made; a
sleep ends. `SendAddrResp` is strongly fair: it waits for `Mutex3`, which others
may take again and again, but `sync.Mutex` hands the lock to a waiter that has
starved for a millisecond. `Read` is weakly fair: the application reads in a
loop (`main.go:37-71`). `Write`, `Receive` and `DetectNodes` have no fairness:
the application need not write, the medium need not deliver, discovery need not
find anyone. The medium of `nfd_live` and `nfd_cycle` repeats nothing:
`WaitForAck` counts its sleeps only, so that replies without end, one always
there before it looks, would keep it from giving up.

`FairSpec` of `FrameReader` has weak fairness for the steps of `ReadByte`,
`ReadFrame` and `Stop`, and for the writer of a frame that has begun; and strong
fairness for the two returns on `ctx.Done()`, because a Go `select` with several
cases ready chooses among them at random. `GetPacket` and the like have no
fairness, nor has the other reader.

`FairSpec` of `Lifecycle` has weak fairness for each goroutine, for `Stop` and
for the `Write` in progress, whose waits end by their timeouts. Nothing is
assumed of the application, which need not read, write or ask, nor of the other
nodes. Weak fairness for `GoStep` says less than the scheduler does of a
goroutine that waits for `Mutex3`; no property needs more.

## What is proved

For every set of nodes, every capacity, any loss, reordering and repetition,
under the assumptions `NfdAssumption` and `NoPacketAssumption` (numbers are
positive, the empty and the broadcast address are not addresses of nodes, and
`NoPacket` is no packet); TLC evaluates both on every run of `Nfd`.

* `TypeCorrect`, `NfdProofs`: `Spec => []TypeOK`, with the capacities and the
  sorting of packets into queues. The inductive invariant `TypeInv` adds what
  types need to be inductive: `NoCall` is the only value outside `Call`, an
  entry of `ServerAddr` comes with a neighbour, a `relay` or `server` call has
  its relay.
* `RelayRouteUsable`: from the same invariant. `ServerAddr` is set after a relay
  was used, so the list was not empty then, and `NodeDetector` never replaces it
  by an empty one.
* `SuccessMeansArrival`: `OkMeansArrived`. It is not inductive: a
  `Write` succeeds because of a reply, so the invariant `DeliveryInv` has to
  follow the request and the reply through air, queues and handlers.
  `PacketsGood` says of every reply, wherever it is, that the data of the
  request it answers has arrived, and of every request that its fields are those
  of a transmission of its sender; `Counted` ties numbers to transmissions
  (`Seq_` is `txCount - 1` modulo `SeqMod`); `HandlerHonest` says the data is in
  place before an `ACK` can be sent; `AddressesRight` that `ADDR_LIST` maps an
  address to its node. When `WaitForAck` takes a reply, equal numbers mean that
  the transmissions differ by a multiple of `SeqMod` (lemma `Congruent`): none,
  and the reply is for this request; or at least one turn.
* `ResolutionFindsMac` and `P2PForOwner`: from the same invariant.

For every use of a device, any number of `Run`s and any capacities, under
`LifecycleAssumption` (`LifecycleProofs`), from the inductive invariant
`LifeInv`:

* `LifecycleTypeCorrect`: `TypeOK`. `Holds` adds that a goroutine at `put` has a
  packet in hand, `Ran` that a device that runs or was stopped has had a `Run`.
* `NoSecondReceiver`: `OneOfAKind`; and `StoppedIsClean`: `StopLeavesClean`.
  Both need `StartedInv`: the kinds in `Started` are those of the goroutines
  that serve, no two of which are of one kind, and a `Mutex2` that was left
  locked means that some goroutine still serves, as it cannot end without the
  lock. So when every goroutine has returned nothing is in `Started`, and the
  lock was not lost.
* `AddressKept`: `AddressLostToPending`. `PendingInv` says that no two of those
  who wait for a reply hold `Mutex3` at once. So `UpdateStatus` cannot come to
  its deletions while a `Write` is in its `Send`: a deletion that is due then
  was due when the `Write` took the lock, which is what `pending` remembers.

For IP packets of any length, under `FramingAssumption` (`FramingProofs`), from
the inductive invariant `FramingInv`: `FramingTypeCorrect`, `FramesReadWhole`,
`PacketReturnedWhole`, `FramesAddressed`, `RefusedAsAWhole`. The lemma `Parts`
says that the fragments tile the message: each begins where the last ended, none
is longer than `MAX_FRAG_DATA_LEN`, and the last ends with the message.
`FrameInv` has the frame of each fragment, so that its size and length field can
be compared; `GotInv` says that what has arrived is the interval up to the
current fragment, unless vxbee cut a frame.

For every size of the frame counter, any number of commands, frames and
searches, under `FrameNumbersAssumption` (`FrameNumbersProofs`; the counter has
more values than `SetMacAddr` makes commands, 256 against 6), from the inductive
invariant `NumbersInv`:

* `FrameNumbersTypeCorrect`, `StatusIsOwn`, `NodesAreOwn`, `ZeroIsARace` and
  `AddressPartsInOrder`: the type invariant and the four properties of
  `frame_numbers`. An answer is recognised by its number alone, so the invariant
  relates numbers to the order in which frames got them. `Precedes(a, b)` says
  how many increments lie between two frames with given numbers: a multiple of a
  turn and the difference of the numbers, where a turn is `FrameMod` increments
  or, as xbee puts 1 in the place of 0 (`xbee/writer.go:73-76`), one less.
  `InOrder` says it, while no increment is lost, of every frame that may be
  answered, the frame in hand and the counter. Hence an answer with the right
  number belongs to the right frame or to one at least a turn older. `OwnIds`
  keeps the frames apart, and `Booting` says that during `SetMacAddr` the asker
  is alone, so that no increment is lost and all its commands lie within one
  turn.

For every set of senders, any number of messages, every capacity and modulus,
with loss, damage, overflow and restarts at any time, under
`ReassemblyAssumption` (`ReassemblyProofs`), from the inductive invariant
`ReassemblyInv`:

* `ReassemblyTypeCorrect`: `TypeOK`.
* `ReceivedMessagesAreSent`: `ReturnsMessages`. `ReceivePacket` only counts, so
  that a count has to imply the whole. `PartsInv` says of every fragment,
  wherever it is, that its number is that of its message counted from the last
  restart, so that equal numbers of one sender mean one message, a full turn, or
  a restart in between; `IndexInv` that what is under a key has that key;
  `OrderInv`, for the drivers that send a fragment once, that fragments of a
  sender are everywhere in the order they were sent, no two equal. Then as many
  fragments of one message as it has, in strictly increasing order and none
  beyond its total, can only be all of them (`Increasing`,
  `IncreasingToItself`).
* `FragmentsAreUsedOnce`: `UsedOnce`, a conjunct of `OrderInv`.
* `UnbrokenMessagesArrive`: `NothingElseLoses`. `Traced` says of a message that
  has lost nothing and is not complete that every fragment sent so far is on its
  way or in `receivedData`, and that the last one is never left there: when it
  comes, the fragments before it are all under its key, and nothing else is,
  since a number that was not used before identifies the message. They are as
  many as the message has (`Covering`, by cardinality), so the message is
  returned.
* `DriversAreMessageChannels`: `ImplementsMessageChannel`, step by step.
  `StartMessage` and `RefuseMessage` are the beginning of a message,
  `TakeFragment` is its receipt when it completes one, and all else is not seen.
  That a message returned is newer than every one returned before it
  (`ReturnedIsNewest`) is again `OrderInv`: the fragment that completes a
  message is behind all fragments of its sender that were used before. That it
  was sent is `ReceivedMessagesAreSent`, and the exception for numbers that
  recur cannot be met while no sender has begun more than `NoMod` messages or
  was restarted (`NothingAliased`).

For every set of frames, whatever bytes they hold, any number of them and all
capacities, with reads of an idle port, `Stop`, `Start` and another reader,
under `FrameReaderAssumption` (`FrameReaderProofs`), from the inductive
invariant `ReaderInv`:

* `FrameReaderTypeCorrect`: `TypeOK`, from `TypeInv`, which has the ranges of
  all that the reader and its caller hold.
* `FramesAreReadInOrder`: `ReadInOrder`. `StreamInv` looks at all bytes that no
  frame has taken yet as one sequence, `Stream`: what `ReadFrame` has put
  together, `RecvByteCh`, the byte that `ReadByte` holds, the port, and what is
  left to write. While nothing has spoilt the stream, the frames of `due` are in
  it in order and each in one piece, and no delimiter is outside of them
  (`Holds`). Most steps only move a byte from one part to the next and leave
  `Stream` as it is. A byte that `ReadFrame` skips before a delimiter belongs to
  no frame, and a delimiter begins the first frame of `due`, whose length field
  then makes `ReadBytes` take exactly the rest.

For every set of nodes, as `NfdProofs`, if the medium repeats nothing
(`NfdOnce`):

* `DataArrivesOnce`: `NeverTwice`, which has this condition in itself. A `Write`
  sends its data in one packet only, and `OneCopy` follows that packet: it is in
  the air, in the line of one node (what `PacketHandler` is about to deliver,
  `DataQueue`, and what `Receiver` holds), or has arrived, and never in two of
  these.
* `FreshWritesAreConfirmed` and `FirstWritesAreConfirmed`:
  `ImplementsConfirmedWrite`. The refinement mapping `WriteStatus` is made of
  the results of the `Write`s that returned, and of the one in progress. Each
  step of `Nfd` is a step of `ConfirmedWrite` or leaves it unchanged: a `Write`
  begins and ends the abstract one, and `Deliver` is the arrival, which may come
  after the `Write` has failed. That a success has arrived is `OkMeansArrived`
  with its exception, so the exception must be excluded: the first theorem
  supposes that it never happens (`Fresh`), the second that a node writes at
  most `SeqMod / 2` times, 128 in the code, since a `Write` transmits at most
  twice. Without either the refinement is false, as `lag` in `OkMeansArrived`
  says. The bound is met by `nfd_pair`, where TLC checks the refinement.

For every set of nodes and every capacity, over a medium that loses and repeats
nothing (`NfdPatientProofs`):

* `PatientWritesSucceed`: `LoneWriteSucceeds`, while `Patience` holds. The
  argument follows what a transmission sets in motion, one packet: the request,
  then its reply (`Single`). `Outstanding` are the transmissions whose packet is
  on its way to a reply, wherever it stands. While the one that a call waits for
  is among them, some node can go on, unless one of the three hindrances holds
  (lemma `Quiescence`, which goes through everything that can block `Receiver`
  and `PacketHandler`). So a patient `Write` that is not hindered is never woken
  by a sleep that found nothing; it is woken for replies to earlier
  transmissions only, and each of these wastes one of its `Ticks` sleeps. The
  inductive invariant `WaitInv` counts them: a `Write` leaves something behind
  only if it was hindered, or was for an address that is not another node's
  (`Rough`), and no more than two transmissions (`Bounded`); what a waiting call
  has slept and what is still outstanding together never exceed that (`Awaits`).
  `Patience` therefore asks that a call follows fewer than `Ticks / 2` rough
  ones, 25 in the code. Without it the property is false: stale replies alone
  can use up the sleeps. With three sleeps in the place of the four of
  `nfd_patient` TLC finds such a behaviour, so that the bound is exact there. It
  also excludes an `ADDR_RESP` that is a full turn old, as in `ResolvedHasMac`.
  That requests go to a node that will answer them, not back to their sender, is
  `RoutedInv`.
* `FirstWritesSucceed`: the same without `Patience`, if no node writes more than
  `Ticks / 2` or `SeqMod / 2` times. `nfd_patient` meets the condition.

The proofs use no fairness and, but for the conditions of
`FirstWritesAreConfirmed` and `FirstWritesSucceed`, no bound.

## Only model-checked

* Liveness: `WriteReturns`, `HandlerReturns`, `ReceiverReturns`, `FramesArrive`,
  `StopReturns` (of `FrameReader` and of `Lifecycle`), `RunServes`,
  `RequestTaken`. The provers do not treat fairness.

Every other property of a passing run is stated by a theorem.

## What the models leave out

* `Nfd` assumes that the driver hands over packets whole. `Reassembly` shows
  when that is so: always with xbee while numbers do not come round; with wifi
  and vxbee while no two senders use the same number at the same time. The other
  outcomes are not carried over into `Nfd`.
* The payload, apart from its length, the address in its IP header and which
  `Write` it is from; the digits of addresses; whether a checksum finds a
  damage; IPv6, which `GetIP` refuses.
* Relaying itself: what a relay's application does with a `RELAY_REQ` it reads.
  The acknowledgement of the relay is modelled.
* `RTT_MAP`, `ack_count`, `before`: statistics nothing depends on.
* `FrameNumbers` takes the channels of answers to be large enough.
* `FrameReader` takes the checksum of wifi to find every damage; the check of
  the other drivers, made by those who take a frame, is in `Reassembly`.
* The status service as far as a status would have to arrive: no node sends one
  (`nfd.go:304`, 578), so that `StatusQueue` stays empty and `NodeStatuses` has
  no entry from a response. A `STATUS_UPDATE`, which none sends either, changes
  nothing in `Lifecycle`.
* The search for a serial port (`Init`, `Open`, `DevIdf`), and the virtual
  device's `Start` and `Stop`: operating system and sockets.
* The demo, but for its `DeviceInfoHandler`.
* The Go memory model: `ADDR_LIST`, `NodeAddrs` and `ServerAddr` are read and
  written under different mutexes. A model step reads or writes each as a whole.

## Findings

* `reassembly_vxbee`: `virtual_xbee/xbee.go:168` sends a fragment again after a
  failed status; both copies count, and a message is returned that was never
  sent.
* `reassembly_wifi`: `wifi/wifi.go:123` returns the destination's address where
  the other code expects the source's; fragments of two senders are mixed.

Observed but not the subject of a finding: `Reader.Stop` may never return, or
panic (`frame_reader` names each way), and neither may `Stop` of a device
(`lifecycle` names seven ways: a full `AckQueue`, `DataQueue` or `RxData`,
`deviceCh` without a reader, a `ConfigHandler` that the context of `Run` does
not end, and two for a second `Run`); no status is ever sent, as `Send` refuses
the destination `""`; vxbee cuts the end of every message frame of more than 256
bytes (`virtual_xbee_device.go:125`); a message of exactly 256 fragments ends
the program; a virtual device that was stopped has closed its socket for good;
two nodes that resolve each other's address at the same time both time out
(`nfd_patient` needs its first exception for it); stale replies that fill
`AckQueue` make a node deaf until its next own `Write`; the message of a slower
sender is thrown away when another one is complete (`xbee.go:196`); an answer to
the process before may become part of the address that `SetMacAddr` puts
together (`writer.go:24`); and a `Write` may lose the address it resolved, and
send its P2P to the empty MAC address, when `UpdateStatus` deletes it meanwhile
(`nfd.go:534`).
