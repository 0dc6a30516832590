# dragonUSB in TLA+

dragonUSB is a USB device stack for small micro-controllers: the control pipe's
state machine and the standard requests (`src/src/device.cxx`), a registry of the
application's handlers (`src/src/core.cxx`), one driver core per chip
(`src/src/<chip>/`), and class drivers on top (`src/src/drivers/dfu.cxx`). There are
no tests. Everything below `main()` runs in the USB interrupt; what makes it hard is
what the host, the bus and the peripheral may do between two packets, between two
interrupts, and between two statements of the interrupt handler.

## Inventory

| component | state | operations | interacts with |
|---|---|---|---|
| **EP0 control transfers** `device.cxx`, `types.hxx`, `device.hxx` | `packet`, `activeConfig`, `setupCallback`, `alternateModes`, `usbCtrlState`, `epStatusControllerIn/Out[0]` | `handleSetupPacket`, `completeSetupPacket`, `handleControllerOut/InPacket`, `handleStandardRequest` and its handlers, `address()` callback | called by the driver core; calls `readEP/writeEP/stallEP/address`, the class drivers' handlers and callbacks |
| **STM32F1 driver core** `stm32f1/core.cxx`, `stm32f1/device.cxx` | `usbState`, `usbSuspended`, the peripheral's registers | `attach`, `detach`, `handleIRQ` (reset, suspend, wakeup, endpoints), `resetEPs`, `readEP`, `writeEP`, `stallEP`, `handleSetConfiguration` | the bus sets its flags; the application attaches and detaches |
| **Handler registry** `core.cxx`, `device.cxx:209-235` | `inHandlers`, `outHandlers`, `sofHandlers`, `controlHandlers`, `altModeHandlers` | `register*`, `unregister*`, `initHandlers`, `deinitHandlers`, `handlerFor` | written by the application, read by the interrupt |
| **DFU driver** `drivers/dfu.cxx` | `config`, `flashState`, `buffer`, `zones` | requests, `handleSetInterface`, `downloadStepDone`, `detach`, `tick` per start of frame | control handler, alternate-mode handler, setup callback, SOF handler; the firmware's `erase/write/flashBusy/reboot` |
| **Multi-part writer** `writeEPMultipart`, `writeEP` of three chips, `usbMultiPartTable_t` | `memBuffer`, `partNumber`, leftover bytes | one packet of a table of parts | `writeEP` |
| **EP0 packet memory** (STM32F1) | two overlaid buffers | `sendData`, `recvData` | the peripheral writes one, the CPU the other |
| **TM4C123 core** `tm4c123gh6pm/core.cxx`, `device.cxx` | as STM32F1, and `rxStatus`, `txStatus` read once per interrupt | as STM32F1, `cycleBus` | as STM32F1; read-to-clear flags, one flag for both directions of EP0 |
| **ATxmega256 core** `atxmega256a3u/core.cxx`, `device.cxx` | as STM32F1 | as STM32F1, `handlePacket`; only EP0 is served | as STM32F1; interrupt flags and endpoint flags apart, a bus reset leaves the registers |
| **STM32H7 core, DWC2 header, descriptors, build** | - | register set-up, declarations, constants | - |

Correctness, by component:

* *EP0*: after every transfer host and device agree on the address and the
  configuration; the bytes of a read are the bytes asked for, in order; a write
  receives what is sent; every transfer ends; only SETUP packets are requests.
* *Driver cores*: whatever the chip's flags, packet buffers and interrupt latency,
  the stack on it is a control pipe; no user endpoint is served from a registry row
  that is not the running configuration's; resets and wake-ups are served whatever
  else is going on; a detached device is silent.
* *DFU*: Flash is erased before it is written, only in the zone chosen; a block the
  host is told is done is in the Flash; a received block is completed.
* *Registry*: a handler in use is initialised.
* *Multi-part writer*: a packet holds exactly the next bytes of the table.

The hazards, each at its line with the property for it or the reason it has none,
are listed in `PROJECT.json`.

## Plan

Done: `UsbDevice`, `UsbHost`, `Stm32f1`, `Atxmega256`, `Tm4c123` (the stack inside
the interrupts of three chips, against one host), `ControlTransfer` (the abstract
control pipe, implemented by all three), `Dfu`, `MultiPart`, `StaleTable`. Proved:
every safety property of every passing run, among them that each of the three
drivers implements `ControlTransfer`.

Left, in order of worth:

1. `Dfu` over `UsbDevice`'s control pipe in place of its own small one.
2. The chapter 9 device states (default, addressed, configured, suspended) as a
   second abstract specification.

A model of the registry's registration calls was planned and dropped: see "Not
modelled".

## Modules

### `UsbDevice`

The device is one record: the stack's globals under their own names, EP0's two
`usbEPStatus_t` (`in`, `out`), and the peripheral (`hw`). As all of it runs inside
one interrupt, a C++ function is an operator from the record before to the record
after, and composition of calls is composition of operators: `HandleSetupPacket` =
`readEP(0)` into `packet` (`ReadSetup`), the reset of EP0's status (`FreshReply`),
`HandleStandardRequest` or the class drivers' answer (`ClassRequest`), arming
(`ArmReply`), `CompleteSetupPacket`. `PROJECT.json` "map" gives the lines of each.

Kept: every branch, in the code's order, including the ones a well-behaved host
never takes (a truncated SETUP packet, a bad configuration number after the
endpoints have been torn down, "whacko" replies). `setupPacket_t` is a record with
numeric 16-bit fields; a short packet overwrites only its first bytes (`Overlay`,
`Merge16`). Abstracted: the bytes sent, to *object and offset*; a table of parts is
one object, read in order; the endpoints of a configuration, to "those of
configuration n are enabled" (`hw.eps`); a class driver, to any answer it may give
(`Answers`). An answer that goes through a stale table's loop (`isMultiPart` left set
by a table read that was given up) is here taken to be sent as it should; what that
loop does with it is `StaleTable`, and the runs and theorems on EP0 give up no table.

### `UsbHost`

What the three chips share: the variables (`dev`, the handler's place `pc`, the
application's side `app`, the host's side `host`), the values of the globals at
power-on, the host's half of a transaction (`HostAsks`, `HostTakes`, `HostSends`,
`HostRefused`), and the properties stated once for all chips. The host is external.
It asks in the order of an enumeration (`InOrder`), counts the bytes that move, ends
a read at a short packet, and takes address and configuration for set when the
status stage is over. A new SETUP may replace a transfer whose request is in
`Abandonable`. Constants: what is asked (`Requests`), what may be given up, what the
drivers answer (`ClassAnswers`), what the data of a write reads as if taken for a
setup packet (`Payloads`), and how far the interrupt keeps up (`PromptIRQ`, below).

### `ControlTransfer`, and how the chips implement it

The contract, after the comment over `completeSetupPacket()`: a transfer is asked
for, its data move in order, it is acknowledged, refused or given up; the
configuration changes when its request is acknowledged, the address after the status
stage that promised it. Its variables are the transfer (`phase`, `request`,
`moved`), what the device has ready (`offer`: nothing, a refusal, an
acknowledgement, or *object, offset, length*), and the address promised and taken
and the configuration that runs.

`ImplementsControlTransfer == Contract!Spec` in `UsbHost` is the refinement.
`phase`, `request`, `moved` and `promised` are the host's; `offer` is what EP0 would
answer an IN packet with now (`Offer`, from the transmit half and the packet in it);
`running` is the active configuration if its endpoints are enabled and its handlers
up (`Running`); `Source` and `Extents` say which object answers a request and how
long it is (`Asked`, `Extent`). From a bus reset until it has been served the device
counts as reset (`Resetting`, `AddressOf`). These four are operators of a device and
a host, so that they can be reasoned about before and after a call. Every step of
the interrupt handler must then be one of `OfferData` (the *next* bytes, of the
*right* object), `Accept`, `Refuse`, `TakeAddress`, or invisible.

### `Stm32f1`

`handleIRQ()` is cut where the peripheral can change under it: the status word and
what is done about it (`InterruptSuspended`, `InterruptReset`, `InterruptEvents`),
`suspend()` (`InterruptSuspend`, by which time the bus may have come to life), EP0's
receive half, EP0's transmit half, the user endpoints (one stands for all).
`detach()` is cut after its first write (`DetachBus`, `DetachStack`). IN and OUT
transactions succeed only when the endpoint half is *valid*; a bus reset clears the
peripheral's address and endpoints at once and raises a flag. EP0's two buffers are
the same memory: when the transmit half arms the next packet of an answer while a
received one waits, what is read later is any payload (`StillReads`).

Assumptions about what is not in the repository (the chip-support headers): the
interrupt flags of an endpoint are acknowledged when it is dispatched and cleared by
`epClearMask`; reading and clearing `intStatus` is one step; a peripheral put to
sleep in the middle of a bus reset wakes at once (the early return of a suspended
device drops the flags it has just cleared, so a slower one would lose the reset).

### `Atxmega256`

`handleIRQ()` up to its reset branch is one step, then EP0's transmit half, its
acknowledgement (`AcknowledgeSent`, after the service has armed the next packet:
`handlePacket()` clears the flag last) and its receive half. The attach bit and the
address are different registers, so `address()` cannot re-attach. A bus reset
changes no register: what is left of the old transfer (`usbCtrlState`, a packet not
yet read) is carried into the new one unless `reset()` clears it. User endpoints
raise the interrupt and are never served, as in the code.

Assumptions: a SETUP packet is always received, takes EP0's halves from the host
until it has been answered, and lifts a stall.

### `Tm4c123`

`handleIRQ()` reads and so clears every flag (`InterruptDisconnect`,
`InterruptReset`, `InterruptEvents`); what it has read (`seen`) is served in later
steps, EP0 first, with `RXRDY` looked at only then (`PacketReceived`, `PacketSent`),
the user endpoints after it. An early return drops the flags read. `cycleBus()`
takes the device off the bus and puts it back.

Assumptions: the peripheral acknowledges a read's status packet itself (`DATAEND`),
raising EP0's flag; a stall is sent once, answering also the data of a write; a
SETUP packet flushes what EP0 had to send; a bus reset clears address and endpoints
and unmasks them all.

On all three chips the host leaves the device the time to serve a bus reset before
the next transaction (`Reachable`), as the bus's reset recovery time does. SOF
handlers are left to `Dfu`.

### `Dfu`

One action per request, callback and branch of `tick()`. A transfer is a small pipe
(`idle`, `data`, `status`); `tick()` may run between any two of its packets, as SOF
handlers do. Flash is an array of units, each holding a place of the host's image,
`Erased`, or something else; an operation leaves it `busy` until `FlashDone`. The
host has `Manners`, its own for good: it is `Polite` (sends a block only when told it
may) or does anything at all; it may abandon transfers (`Abandons`); it loads some of
the zones (`Aims`).

### `MultiPart`

The writer `UsbDevice` abstracts to *object and offset*, over bytes. A byte is the
place it was read from (part, offset), so one read past a part's end shows as such.
`HandleGetDescriptor` and `WriteEP` set up a packet, each turn of `while
(sendAmount)` is a step, `EndPacket` flushes the last short word and hands the
packet over. The three loops are one algorithm (`Turn`) with words of 2, 4 and 1
bytes and another width for the length of a copy; `Stm32f1Turn`, `Tm4cTurn` and
`AtxmegaTurn` name them. STM32F1 and ATxmega send the announced number of bytes of
their buffer; the TM4C123 sends what has been put in its FIFO. Not kept: the
endpoint number (only EP0 sends tables; the TM4C123's `sendData(0, ...)` would be
wrong on another).

### `StaleTable`

`MultiPart` and one more request (`HandleAnswer`): a read answered from one object,
made when the host has given up the read of a table. `handleSetupPacket()` has not
cleared `isMultiPart`, so the answer goes through the loop over the old table's
parts, on STM32F1 or TM4C123. `memBuffer` is the new answer, so what is copied is
right; only how much is not. The answer's place is therefore no more than its
distance from the part reached, modulo 2^16 (`Gaps`).

`MCRequests` holds the requests and answers the runs on the three chips choose from;
`MCStm32f1`, `MCAtxmega256`, `MCTm4c123`, `MCDfu`, `MCMultiPart` and `MCStaleTable`
put constants and specification together. `*_proofs` hold the theorems.

## Runs

| run | checks | shows |
|---|---|---|
| `control` | `TypeOK`, `AddressAgreement`, `ConfigAgreement`, `NextBytesAreTheAnswer`, `NoDeadTransfer`, `ReceivedSoFar`, `AddressAfterStatus`, `ImplementsControlTransfer` | STM32F1: enumeration and everyday requests, those without a table abandoned at any point (writes too), with resets, suspends and detaches |
| `preempted` | `EndpointsHaveHandlers` | STM32F1: two configurations, data and overwritten packets that read as requests, every request abandonable, SETUPs at any point of the interrupt |
| `progress` | `TransferEnds`, `ResetServed`, `WakeupServed` | STM32F1: under fairness nothing hangs |
| `tm4c` | `TypeOK`, `AddressAgreement`, `ConfigAgreement`, `NoDeadTransfer`, `DispatchedToHandlers`, `AddressAfterStatus`, `OnlySetupsAreRequests`, `ResetServed`, `ImplementsControlTransfer` | TM4C123: the same host, the interrupt arbitrarily late, unplugging too; data that reads as requests never becomes one |
| `atxmega` | `TypeOK`, `AddressAgreement`, `ConfigAgreement`, `NoDeadTransfer`, `DetachedIsSilent`, `AddressAfterStatus`, `ImplementsControlTransfer` | ATxmega: the same host, the interrupt arbitrarily late |
| `dfu` | `TypeOK`, `ErasedBeforeWritten`, `OnlyChosenZone`, `ImageIntact`, `BlockCompletes` | any request order, from any host; a whole download, from one that follows the protocol |
| `multipart` | `TypeOK`, `PacketsHoldTheTable`, `EveryTurnSends` | tables cut into parts, words and packets arrive whole on three chips |
| `stale_table` | `WritesEnd` fails | STM32F1, TM4C123: a table read given up part way puts the next answer through that table's loop, which does not end |
| `refused_write` | `OnlySetupsAreRequests` fails | STM32F1: the data of a refused write is executed |
| `tm4c_unconfigured` | `DispatchedToHandlers` fails | TM4C123: SET_CONFIGURATION(0) and a user endpoint's flag in one interrupt: the endpoint is served from row -1 |
| `atxmega_cut_write` | `AddressAgreement` fails | ATxmega: after a bus reset in a write's data the next SET_ADDRESS is swallowed as data |
| `multipart_cut_part` | `AnyCutHoldsTheTable` fails | TM4C123: a table cut just inside a part underflows a length |

**What differs between the chips.**  STM32F1 knows a SETUP packet from a data packet
by a flag of the peripheral; the others by `usbCtrlState` alone. So the STM32F1
executes the data of a refused write (`refused_write`), which the TM4C123, whose
stall answers that data, does not; and the ATxmega takes a SETUP for data after a
reset in `dataRX` (`atxmega_cut_write`), which the STM32F1 does not. STM32F1 and
ATxmega keep a user endpoint from an unconfigured device by construction (the flags
of a disabled endpoint are gone; nothing is served); the TM4C123 does not
(`tm4c_unconfigured`). Only the ATxmega keeps `detach()` from being undone.

**How late the interrupt may be** (`PromptIRQ` TRUE). *STM32F1*: the last event has
been served before the next SETUP. *ATxmega*: only a handler that has already looked
at the transmit half must be done. *TM4C123*: only the time between reading the
flags and reading `RXRDY` is excluded. These are the windows outside which the
agreement properties hold; inside them they fail (last section). `preempted` has no
window excluded.

**Excluded by a constant.**  `RudeCuts` FALSE: no reset, detach or unplugging while
a write's data move (on the ATxmega, or with a packet of the transfer unread); that
case is the finding of `atxmega_cut_write`, and on the TM4C123 the reset's next
SETUP is taken for data likewise (`tm4c123gh6pm/device.cxx:103`). `LateAck` FALSE:
on the ATxmega the host does not take the next packet before `handlePacket()` has
acknowledged the last one, some instructions later. `tm4c` configures the device and
leaves it so (`Configured`), as unconfiguring is the finding of `tm4c_unconfigured`.
`control` gives up every kind of request (`NoTable`) but a table's read, which is the
finding of `stale_table`. The tables of the runs end in a short packet, and the host
of `dfu` that is promised its image gives up no block (last section).

**Bounds.**  EP0 packets of 8 bytes: a device descriptor (18) takes three packets, a
25-byte configuration four, a 10-byte write two; a larger packet size only makes
transfers shorter. One or two configurations: the hazards are between a
configuration and another, or none. The set of requests (`Everyday`, `SameMode`,
`Configured`, `Switching`, `Basic`) has one of each kind of answer: table, single
object, no data, write armed, refused. `SameMode`, in `control`, leaves out
SET_INTERFACE, which doubles the states and is asked in `tm4c` and `atxmega`.
`Abandonable` names the requests the host may give up: in `atxmega` those of one
packet (`Brief`), which are the ones whose callback or status stage a new SETUP can
overtake; in `tm4c` the read of three packets too (`GivenUp`), so that a SETUP
overtakes data as well. `Payloads` is blank where only SETUP packets reach the
parser's branches, and requests (`AnyData`, `BadData`) where data might. In `Dfu`
blocks are two units, packets and writes one, sectors two: every loop runs more than
once; `MaxImage` bounds the units sent. In `dfu` the cooperative host loads a zone
of two sectors, the other one of a single sector beside it (with two its states
exceed a run's time); any zones are covered by the proof.

In `MultiPart` the tables are strings (two parts) and configurations (9 bytes, then
up to three parts of 5, 7 or 9), which leave every remainder in a word of four and
run over several packets; the request's lengths cut them before, at and after each
boundary. `multipart_cut_part` has the same tables, on the TM4C123 only. `StaleTable`
has one table and an answer of one byte, at two distances from the part reached: one
at which the amount is right by chance, and one at which it is not.

**Fairness.**  `Stm32f1` and `Tm4c123`: the interrupt is served while it is raised
and its handler returns (STM32F1: `CanServe` is `ENABLED <<Interrupt>>_vars` written
out; TM4C123: infinitely often there is nothing left to do, or the handler takes a
step). The host retries a transaction until it succeeds or is stalled, and resets a
port whose device does not answer; STM32F1's peripheral reports a live bus while in
low power. These are what an enabled interrupt and the USB specification's retries
give. `Dfu`: frames go on (`Tick`) and a Flash operation ends (`FlashDone`).
`StaleTable`: the handler runs on (`RunsOn`), so that a loop that never ends is the
code's doing. No fairness is assumed of the host's choice of requests, of suspend,
resume or detach.

**Deadlock** is not checked on the three chips: an application may leave the device
detached. It is checked for `Dfu`, `MultiPart` and `StaleTable`.

## Proofs

For every value of the constants that satisfies `BuildOptions`, `HostAssumption`,
`FlashLayout` and `TableAssumption` (the ranges of `meson_options.txt`, tables that
fit in a `uint16_t`, zones of whole erase sectors), and what is named below. The
theorems stated about each component, with the property of a run each is about, are
in `PROJECT.json`.

### What every operator of the stack does (`UsbDevice_proofs`, `UsbHost_proofs`)

One lemma per operator, in the order of the code, for each of: it leaves a device of
the right type whose enabled user endpoints belong to the active configuration with
its handlers up (`Sound`); what it leaves alone (`Keeps`, `Untouched`); what it does
to the configuration (`Chosen`, `Up`); and what EP0 is left with for a request
(`Outcome`, `Effects`: a refusal, an acknowledgement, an armed receiver, or the
first bytes of the object asked for). The proofs about the chips differ in their
interrupt handlers only.

### STM32F1 (`Stm32f1_proofs`)

*Without any further assumption*: `TypeCorrect` (`TypeOK`) and `HandlersInPlace`
(`EndpointsHaveHandlers`), from `Invariance`. The inductive invariant is `TypeOK /\
Sound(dev) /\ WithinWrite`. `Sound` excuses a masked interrupt: after `detach()` the
endpoints are still enabled while `activeConfig` is 0, and what makes that state
harmless is that only a reset, which disables the endpoints, unmasks the interrupt
again. The types alone are not inductive: `WithinWrite` (a write's data never
exceeds its length) keeps the count of the next packet in a `uint16_t`. A received
packet that an armed one overwrites reads as *any* payload, and `Sound` does not
depend on which.

*With `PromptIRQ` and `Conventional`*: `InStepThroughout`, an invariant of the
conversation. From a bus reset that has been served to the next (`Live`), whatever
the handler's place `pc`,

* EP0 receives, or holds what the host has sent: a setup packet on which nothing has
  been done, or a packet of a write or a status stage (`Listening`);
* the transfer is in the stage the host takes it to be in, with the same bytes done
  and left (`Transferring`: `Reading`, `Writing`, `Finishing`);
* the device has the host's address, or waits to take it with the callback and the
  packet it needs (`Addressing`), and its configuration (`Configuring`);

and always the masks, the suspension and the host's own record of a reset fit
(`Attended`). It is one predicate rather than one per place of the handler, because
the handler is cut where EP0 is in a state the host may meet; what the transmit
half's completion flag excuses is said where it matters (`Completing`).
From it follow `AddressesStayAgreed`, `ConfigsStayAgreed`, `TransfersStayOpen`,
`AnswersAreTheNextBytes`, `WritesStayCounted` and `AddressFollowsStatus`; with
`TypeCorrect` and the refinement below these are all the properties of `control`.

What is assumed, and why it cannot be left out:

| assumption | without it |
|---|---|
| `PromptIRQ`: events are served before the next SETUP | a completion is taken for one of the next transfer; `AddressAgreement` fails (last section) |
| a table read is never given up | run `stale_table` |
| no table, nor other object, that is shorter than asked for is a whole number of packets | the read never ends (last section) |
| data of a write, taken for a request, is refused (`Inert`) | run `refused_write` |
| requests for an address or a configuration have no data, and values in the range of the specification | `device.cxx` keeps 7 or 8 bits of the value; the host counts on all of it |
| a standard read is one of the device's own (`Own`) | the stack passes it to the class drivers, which answer what they like |
| drivers answer a read with data, arm EP0 for a write, or decline (`Behaves`) | a write acknowledged before its data, say, which the class driver would be wrong to do |

TLC's `control` satisfies all of them: what the theorems assume is what that run
checks on one instance.

*The refinement*, `ControlTransferImplemented` (`ImplementsControlTransfer`), under
the same assumptions. The initial states map to initial states (`RefinesInit`). A
step away from EP0 (suspend, wake-up, the user endpoints) maps to a stutter; a bus
reset, from the host's side or the application's, to the contract's reset; a step of
the host to its transaction; a step of EP0's halves to `OfferData`, `Accept`,
`Refuse`, `TakeAddress` or a stutter, according to `Outcome` and `Effects`.
`SetupRefines` is the heart of it: whatever request is read and whatever a driver
answers, what EP0 offers next is what the contract allows, and `running` moves only
with a SET_CONFIGURATION. `HostNeverOverrun` puts it together with `TransfersFit`
below: no transfer moves more than was asked for, each packet continues the last.

### The contract (`ControlTransfer_proofs`)

`TransfersFit` (`WithinRequest` of the contract): whatever may be asked, no more
bytes move than were asked for, and each packet continues the last. The only
assumption, `Meaningful`, is that requests and the objects that reads are answered
from have lengths; of the chips it is a theorem (`ExtentsAreLengths`).
`WithinRequest` alone is not inductive: while data are still moving strictly fewer
than all have moved, an acknowledgement is on offer only in a status stage, and what
is offered fits. With the refinement it holds of each chip, for every build
(`HostNeverOverrun`): `PipeNeverOverruns` instantiates `TransfersFit` for any chip
that implements the contract.

### TM4C123 and ATxmega256 (`Tm4c123_proofs`, `Atxmega256_proofs`)

*Without any further assumption*: the interrupt may be as late as it likes, and a
write be cut anywhere.

* TM4C123: `TypeCorrect`; and `DispatchesToHandlers` (`DispatchedToHandlers`) with a
  host that never unconfigures the device, nor sends data that read as such a
  request (`Configuring`), which the run `tm4c_unconfigured` shows to be needed. The
  invariant follows the host's traffic from the flag it raises over the handler's
  copy of it (`seen`) to the endpoint's turn: as long as any of them stands, the
  configuration is up (`Dispatching`). It needs to know who may do what around
  `attach()`, `detach()` and a reset (`Attended`).
* ATxmega256: `TypeCorrect`; and `DetachedStaysSilent` (`DetachedIsSilent`), from
  the attach bit being clear whenever the application is not attached (`Silent`).

*With `PromptIRQ`, a host that keeps to the conventions and is `Patient`, and no
`RudeCuts`* (on the ATxmega `ReadsThrough` and no `LateAck` either): an invariant of
the conversation (`Conversing`) on each chip, and from it `AddressesStayAgreed`,
`ConfigsStayAgreed`, `TransfersStayOpen` and `AddressFollowsStatus`. Both chips tell
a SETUP packet from data by `usbCtrlState`, and may serve an event when the next is
there. What they share is `Following(d, h)`, of a device with the events it has still
to serve and a host:

* EP0 receives or holds what the host has sent; what waits there while `dataRX` is
  data, and the data of a refused write cannot be taken for a request (`Receiving`);
* the transfer is where the host takes it to be (`Transferring`, as on STM32F1);
* the device has the host's address, or waits for it: acknowledging, with the
  acknowledgement still to be served, or with the next request received before it
  was (`Addressed`); and its configuration (`ConfiguredTo`).

One lemma per transaction and per branch of the state machine says that it keeps
`Following` (`AskFollows`, `TakenFollows`, ..., `SetupFollows`, `SentFollows`, ...),
and one which step of the contract it is (`AskShows`, ..., `FlagShowsNothing`). What
a chip adds is which device `Following` is said of:

* ATxmega256: the one there is, but that between `PacketSent` and `AcknowledgeSent`
  the packet sent counts as served although its flag is still up (`Seen`); and every
  event is flagged or being served (`Noticed`).
* TM4C123: the one its handler will take it to be. One flag tells of every event of
  EP0; with no packet received it says that one has been sent (`Meant`). It stands
  for two events only between transfers (`Noticed`), where what it starts is at most
  a packet of a read nobody waits for (`PacketSentOn`), which the next SETUP flushes.
  The interrupt that would put the chip to sleep is never enabled when it could
  (`Awake`), and a bus reset has found no write under way (`Restarting`).

`RequestsAreSetups` (`OnlySetupsAreRequests`, TM4C123) needs besides that whatever
waits in EP0's buffer and is no SETUP packet finds `dataRX` (`AwaitedAsData`): a
refused write is stalled before its data come. So its `Payloads` are arbitrary
(`Mannerly`), where the ATxmega, like STM32F1, needs them `Inert` (`Conventional`).

| assumption | without it |
|---|---|
| `PromptIRQ`, as far as each chip needs it ("How late the interrupt may be") | TM4C123: a SETUP's own flag is taken for a packet sent (last section) |
| `~LateAck` (ATxmega) | a completion is lost, and the transfer with it (last section) |
| `~RudeCuts` | run `atxmega_cut_write`; on the TM4C123 likewise |
| `Patient`: no SET_ADDRESS is given up | its address is taken all the same (last section) |
| `Patient`: no write is given up | the next SETUP is read as its data; `NoDeadTransfer` fails |
| `ReadsThrough` (ATxmega): no read of several packets is given up | a packet's completion, served with the next SETUP there, arms more of the old answer; `ImplementsControlTransfer` fails |
| `Mannerly`, `Conventional` | as on STM32F1 |

The constants of `tm4c` and `atxmega` satisfy those of their chip.

*The refinement*, `ControlTransferImplemented`, and with it `HostNeverOverrun`, hold
on both chips under the same assumptions, and are proved as on STM32F1.

### DFU (`Dfu_proofs`)

`TypeCorrect`, `WritesErasedFlash` (`ErasedBeforeWritten`) and `StaysInZone`
(`OnlyChosenZone`), for any host, from `Invariance`: everything from `writeAddr` up
to `eraseAddr` is erased, both lie in the chosen zone with `eraseAddr` a whole
number of sectors from its start, and a pending block still fits in what the zone
has left.

`ImageArrives` (`ImageIntact`, which speaks of hosts that are `Cooperative`:
`Polite`, and giving up no transfer; a block given up is written all the same, last
section). Its invariant, `Loading`, adds that receiving a block and writing one
exclude each other, that the buffer holds the next units of the image (`InTurn`),
and that all sent but what is left of the block in the buffer is in its place in the
Flash, up to exactly where the next unit is written (`InPlace`).

### Multi-part writer (`MultiPart_proofs`)

`TypeCorrect`, `HostGetsTheTable` (`PacketsHoldTheTable`) and `TurnsSend`
(`EveryTurnSends`), for every table and packet size; on STM32F1 and ATxmega for every
request length, on the TM4C123 for those reads it can answer (`Supported`): each part
must leave the bytes to complete the word begun before it (`WordsAreCompleted`).
`AnyCutIsServed` (`AnyCutHoldsTheTable`) is the same without that limit, of the other
two chips; `multipart_cut_part` shows that the TM4C123 has to be left out of it.
The invariant: between packets what was sent is a prefix of the table's bytes and
the pointer stands at its end (`Between`); in the loop, packet memory and the
leftover continue it, the leftover is the rest of a word, and a new turn begins at
the beginning of a part (`InTheLoop`). That the bytes between two positions of a
table are a segment of its bytes is shown by induction on sets of numbers, as the
library's operator form is not available. `TableAssumption`: only the last part of a
table may be empty, and it has at most 256.

### Only model-checked

Liveness: `TransferEnds`, `ResetServed`, `WakeupServed` and `BlockCompletes`, out of
the prover's reach under fairness; and `WritesEnd`, which fails. Every other property
of the passing runs is also a theorem.

## Seen but without a run

Runs are kept for questions; these are schedules met on the way.

* *ATxmega, late acknowledgement.*  With `LateAck` TRUE a completion between the
  arming of a packet and `handlePacket()`'s clearing of the flag is lost, and the
  transfer with it (`atxmega256a3u/device.cxx:118`).
* *STM32F1, late interrupt.*  With `PromptIRQ` FALSE a SETUP may be served in the
  same interrupt as the transmit completion that preceded it, receive first; the
  completion is then taken for one of the new transfer (`stm32f1/core.cxx:430-440`):
  the answer's second packet is armed in place of its first (`NextBytesAreTheAnswer`
  fails), and `AddressAgreement` fails too.
* *TM4C123, late packet.*  With `PromptIRQ` FALSE a SETUP that arrives between the
  reading of the flags (`tm4c123gh6pm/core.cxx:448`) and that of `RXRDY` is served at
  once, and its own flag taken for a packet sent in the next interrupt.
* *A short table of whole packets never ends*: with a configuration of 24 bytes, read
  with `wLength` 255, no zero-length packet follows its last full one, and the device
  waits for a status packet the host does not send (`device.cxx:260`).
* *`detach()` undone.*  On the STM32F1 a bus reset served after its first write runs
  `address()`, which enables the device again (`DetachedIsSilent` fails); on the
  TM4C123 `cycleBus()` re-attaches it.
* *DFU, block given up.*  A block whose data stage is given up leaves
  `downloadStepDone()` as the callback; the status stage of the next GET_STATUS runs
  it and what was in the buffer is written (`device.cxx:372`, `dfu.cxx:85`): the image
  sent next is out of its place (`ImageIntact` fails with a polite host that abandons).
* *Given up SET_ADDRESS.*  On the ATxmega and the TM4C123 a SETUP that overtakes the
  service of the last status packet runs that transfer's callback
  (`device.cxx:348`); if the host had given that transfer up, its address is taken
  all the same.
* *After every read* the host's zero-length status packet is parsed as a truncated
  SETUP and stalls the transmit half (`device.cxx:280`), on STM32F1 and ATxmega;
  harmless only because the next SETUP clears the stall.
* *A bus reset forgets the configuration* without `deinit` (`stm32f1/core.cxx:118`).
* *TM4C123, refused configuration.*  Not only SET_CONFIGURATION(0) but also a number
  that is too large leaves a user endpoint's flag to be dispatched, to handlers torn
  down.
* *TM4C123, suspend* is dead code: it is unmasked when `usbState` is "attached",
  which it never is by the time `handleIRQ()` looks.
* *ATxmega*: user endpoints and SOF handlers are never served
  (`atxmega256a3u/core.cxx:363`); `address()`, which nothing calls, returns the bits
  that are not the address (`core.cxx:95`).
* *DFU, last sector.*  Blocks smaller than an erase sector are refused once the last
  sector has been erased, as the check looks at `eraseAddr` (`dfu.cxx:73`).

## Not modelled

* The registration calls of the registry: each is one guarded store, nothing but
  they change the table, and nothing in the repository calls them while the device
  runs, except the DFU driver's for its SOF handler, which `Dfu` models.
* The STM32H7 core: only `init()` exists.
* Register and descriptor declarations, and the build: constants.
* Data toggles, bytes of packets (but for `MultiPart`), user endpoints' data, and
  whether an answer lies in Flash or in SRAM on the ATxmega.
* STM32F1's packet memory any finer than "a packet that waits may be overwritten".
