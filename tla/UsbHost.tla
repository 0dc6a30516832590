------------------------------- MODULE UsbHost -------------------------------
(***************************************************************************)
(* What the three driver cores have in common: the state, the power-on     *)
(* values of the stack's globals, the USB host at the other end of the     *)
(* bus, and what the stack promises it.  How a transaction shows in a      *)
(* chip's registers, and how its interrupt handler is cut into steps, is   *)
(* in the modules of the chips, which extend this one.                     *)
(***************************************************************************)
EXTENDS UsbDevice

CONSTANTS
  Requests,      \* the control requests the host makes
  Abandonable,   \* those it may give up before they are finished
  ClassAnswers,  \* how the drivers' handlers may answer reads and writes
  Payloads,      \* what an OUT data packet reads as, taken as a setup packet
  PromptIRQ      \* the interrupt keeps up with the host: HostSetup says how far

ASSUME HostAssumption ==
  /\ Requests \subseteq SetupPackets
  /\ Abandonable \subseteq Requests
  /\ ClassAnswers \in [{"in", "out"} -> SUBSET Answers]
  /\ Payloads \subseteq SetupPackets
  /\ PromptIRQ \in BOOLEAN

VARIABLES
  dev,   \* the device
  pc,    \* where its interrupt handler is, "idle" when it is not running
  app,   \* the application's side of attach() and detach()
  host   \* the host's side of the bus

AppStates == {"detached", "attached", "detaching"}

\* A control transfer as the host sees it: its phase, its request, the bytes
\* moved so far; the address and configuration the host has given the device.
Hosts ==
  [phase : {"gone", "idle", "dataIn", "dataOut", "statusIn", "statusOut"},
   req : SetupPackets, got : Nat, addr : Word, cfg : Word,
   suspended : BOOLEAN]

Lost == [phase |-> "gone", req |-> ZeroPacket, got |-> 0, addr |-> 0,
         cfg |-> 0, suspended |-> FALSE]

\* The globals as the C++ runtime leaves them, and a peripheral out of reset.
PowerOn ==
  [usbState |-> "detached", usbCtrlState |-> "idle", usbSuspended |-> FALSE,
   activeConfig |-> 0, setupCallback |-> "none", packet |-> ZeroPacket,
   alternateModes |-> [c \in 1..configsCount |->
                        [i \in 0..interfaceCount - 1 |-> 0]],
   handlersUp |-> {},
   in  |-> [needsArming |-> FALSE, stall |-> FALSE, isMultiPart |-> FALSE,
            transferCount |-> 0, memBuffer |-> [obj |-> NullPtr, off |-> 0],
            partsData |-> NullPtr],
   out |-> [needsArming |-> FALSE, stall |-> FALSE, transferCount |-> 0],
   hw  |-> [addr |-> 0, enabled |-> FALSE, tx |-> "disabled",
            txData |-> [obj |-> NullPtr, off |-> 0, len |-> 0],
            txComplete |-> FALSE, rx |-> "disabled", rxPacket |-> NoPacket,
            eps |-> 0, epComplete |-> FALSE, itrEnable |-> {}, status |-> {},
            forceSuspend |-> FALSE]]

-----------------------------------------------------------------------------
(* The host's half of a transaction.                                       *)

\* The device takes part in transactions with the host, which leaves it the time
\* to serve a bus reset.
Reachable ==
  /\ "reset" \notin dev.hw.status
  /\ dev.hw.enabled /\ dev.hw.addr = host.addr /\ dev.hw.rx # "disabled"
  /\ ~dev.hw.forceSuspend /\ ~host.suspended /\ host.phase # "gone"

FirstPhase(r) ==
  CASE r.length = 0 -> "statusIn"
    [] r.length # 0 /\ r.dir = "in" -> "dataIn"
    [] r.length # 0 /\ r.dir = "out" -> "dataOut"

IsSetAddress(r) == r.type = "standard" /\ r.request = "setAddress"
IsSetConfiguration(r) == r.type = "standard" /\ r.request = "setConfiguration"

\* A host enumerates in order.
InOrder(r) ==
  CASE IsSetAddress(r) -> host.addr = 0
    [] IsSetConfiguration(r) -> host.addr # 0
    [] ~IsSetAddress(r) /\ ~IsSetConfiguration(r) ->
         r.type # "standard" \/ r.recipient = "interface" => host.cfg # 0

HostAsks(r) ==
  /\ Reachable /\ InOrder(r)
  /\ host.phase = "idle" \/ host.req \in Abandonable
  /\ host' = [host EXCEPT !.phase = FirstPhase(r), !.req = r, !.got = 0,
                          !.cfg = IF IsSetConfiguration(r) THEN 0 ELSE @]

\* The host as the status stage of its request leaves it.
Acknowledged ==
  LET r == host.req
  IN  [host EXCEPT
        !.phase = "idle", !.req = ZeroPacket, !.got = 0,
        !.addr = IF IsSetAddress(r) THEN r.value ELSE @,
        !.cfg  = IF IsSetConfiguration(r) THEN r.value ELSE @]

\* A packet of len bytes from the device: data, or the end of a write.
HostTakes(len) ==
  \/ /\ host.phase = "dataIn"
     /\ LET got == host.got + len
        IN  host' = [host EXCEPT
              !.got = got,
              !.phase = IF len < epBufferSize \/ got >= host.req.length
                        THEN "statusOut" ELSE @]
  \/ host.phase = "statusIn" /\ host' = Acknowledged

\* A request error.
HostRefused == host' = [host EXCEPT !.phase = "idle", !.req = ZeroPacket, !.got = 0]

HostSends(count) ==
  host' = [host EXCEPT !.got = @ + count,
             !.phase = IF host.got + count = host.req.length
                       THEN "statusIn" ELSE @]

HostFound == host' = [Lost EXCEPT !.phase = "idle"]

-----------------------------------------------------------------------------
(* The contract of a control pipe.                                         *)

\* Where the bytes of a read come from.
Asked(r) ==
  CASE r.type # "standard" -> <<"classData", 0>>
    [] r.type = "standard" /\ r.request = "getStatus" -> <<"statusResponse", 0>>
    [] r.type = "standard" /\ r.request = "getConfiguration"
         -> <<"activeConfig", 0>>
    [] r.type = "standard" /\ r.request = "getInterface"
         -> <<"alternateMode", r.index>>
    [] OTHER ->
  CASE DescriptorType(r) = "device" -> <<"deviceDescriptor", 0>>
    [] DescriptorType(r) = "configuration" ->
         <<"configDescriptor", r.value % 256>>
    [] DescriptorType(r) = "interface" ->
         <<"interfaceDescriptor", r.value % 256>>
    [] DescriptorType(r) = "endpoint" ->
         <<"endpointDescriptor", r.value % 256>>
    [] DescriptorType(r) = "string" /\ r.value % 256 = 0 -> <<"langID", 0>>
    [] OTHER -> <<"string", r.value % 256>>

\* How many bytes there are of an object, if there is one; of a driver's, as
\* many as it says.
Extent(object) ==
  LET Entry(table) == {table[i] : i \in {object[2]} \cap DOMAIN table}
  IN  CASE object[1] = "deviceDescriptor"    -> {18}
        [] object[1] = "configDescriptor"    -> Entry(ConfigLength)
        [] object[1] = "interfaceDescriptor" -> {9}
        [] object[1] = "endpointDescriptor"  -> {7}
        [] object[1] = "langID"              -> {4}
        [] object[1] = "string"              -> Entry(StringLength)
        [] object[1] = "statusResponse"      -> {2}
        [] object[1] \in {"activeConfig", "alternateMode"} -> {1}
        [] object[1] = "classData" ->
             {ans.size : ans \in {a \in ClassAnswers["in"] : a.response = "data"}}

\* From a bus reset until it has been served, and before the first, a device d
\* counts as reset to the host h.
Resetting(d, h) == "reset" \in d.hw.status \/ h.phase = "gone"

AddressOf(d, h) == IF Resetting(d, h) THEN 0 ELSE d.hw.addr

\* What EP0 answers an IN with in the transfer under way.
Offer(d, h) ==
  IF \/ h.phase \notin {"dataIn", "dataOut", "statusIn"}
     \/ d.hw.tx \notin {"valid", "stall"}
  THEN <<"nothing">>
  ELSE CASE d.hw.tx = "stall" -> <<"refusal">>
         [] d.hw.tx = "valid" /\ h.phase = "dataIn" ->
              <<"data", d.hw.txData.obj, d.hw.txData.off, d.hw.txData.len>>
         [] d.hw.tx = "valid" /\ h.phase # "dataIn" ->
              <<"acknowledgement", d.hw.txData.len>>

\* The configuration that runs: active, its endpoints enabled, its handlers up.
Running(d, h) ==
  IF /\ ~Resetting(d, h) /\ d.activeConfig = d.hw.eps
     /\ d.hw.eps \in d.handlersUp
  THEN d.activeConfig ELSE 0

Contract == INSTANCE ControlTransfer WITH
  Size <- epBufferSize, NoRequest <- ZeroPacket,
  Source <- [r \in Requests |-> Asked(r)],
  Extents <- [r \in Requests |-> Extent(Asked(r))],
  phase <- host.phase, request <- host.req, moved <- host.got,
  promised <- host.addr, offer <- Offer(dev, host),
  running <- Running(dev, host), address <- AddressOf(dev, host)

\* The stack is a control pipe (src/device.cxx:260): its transfers are those
\* completeSetupPacket() documents, their data the bytes asked for, and address
\* and configuration change only as the host's requests say.
ImplementsControlTransfer == Contract!Spec

-----------------------------------------------------------------------------
(* What the driver promises.                                               *)

\* The user endpoints' handlers are looked up in row activeConfig - 1 of the
\* registry (src/stm32f1/core.cxx:411): while any of those endpoints can raise
\* an interrupt, the active configuration is the one they belong to, it is not
\* 0, and its handlers have been initialised.
EndpointsHaveHandlers ==
  dev.hw.eps # 0 /\ "ctr" \in dev.hw.itrEnable =>
    dev.activeConfig = dev.hw.eps /\ dev.hw.eps \in dev.handlersUp

\* address() runs from a callback that other requests, aborted transfers and
\* resets can strand: whatever they do, a device the host has found takes a
\* non-zero address only once the host has seen SET_ADDRESS acknowledged, or with
\* a bus reset pending that takes it back (src/device.cxx:30).
AddressAfterStatus ==
  [][host.phase # "gone" /\ dev'.hw.addr \notin {0, dev.hw.addr} =>
       host'.addr = dev'.hw.addr \/ "reset" \in dev'.hw.status]_dev

\* The host's and the device's ideas of the address.
AddressesAgree ==
  host.phase = "idle" =>
    dev.hw.enabled /\ dev.hw.addr = host.addr

\* The host's and the device's ideas of the configuration.
ConfigsAgree ==
  host.phase = "idle" /\ host.cfg # 0 =>
    /\ dev.activeConfig = host.cfg /\ dev.hw.eps = host.cfg
    /\ host.cfg \in dev.handlersUp

\* EP0 can take the next packet of the transfer the host is engaged in.
EP0Open ==
  Reachable =>
    CASE host.phase \in {"dataIn", "statusIn"} -> dev.hw.tx \in {"valid", "stall"}
      [] host.phase \in {"dataOut", "statusOut", "idle"} -> dev.hw.rx = "valid"

\* In the data stage of a read, the packet the device offers is the next one
\* of the object the host asked for: nothing skipped, repeated or taken from
\* another request's answer (src/stm32f1/core.cxx:340).
NextBytesAreTheAnswer ==
  host.phase = "dataIn" /\ dev.hw.tx = "valid" /\ dev.hw.rxPacket = NoPacket =>
    /\ dev.hw.txData.obj = Asked(host.req)
    /\ dev.hw.txData.off = host.got

\* In the data stage of a write the device counts what the host counts: with
\* nothing under way, what is left to receive is what is left to send
\* (src/device.cxx:331).
ReceivedSoFar ==
  /\ host.phase = "dataOut" /\ dev.usbCtrlState = "dataRX"
  /\ dev.hw.rxPacket = NoPacket
  => dev.out.transferCount = host.req.length - host.got

\* Once the device is detached no interrupt will be served, so it must be off
\* the bus: detach() says "Detach from the bus" (src/stm32f1/core.cxx:85).
DetachedIsSilent == app = "detached" => ~dev.hw.enabled

\* "Read in the new setup packet" (src/device.cxx:275): only a SETUP packet
\* becomes the device's request.
OnlySetupsAreRequests ==
  [][dev'.packet # dev.packet => dev.hw.rxPacket.kind = "setup"]_dev

\* Every control transfer ends: with its status stage, a stall, or the loss of
\* the device (src/device.cxx:264).
TransferEnds == host.phase \notin {"idle", "gone"} ~> host.phase \in {"idle", "gone"}

\* A bus reset is served, also by a suspended device, also when it cuts into a
\* running interrupt: the device is back at its default address, listening
\* (src/stm32f1/core.cxx:457, src/tm4c123gh6pm/core.cxx:461).
ResetServed ==
  "reset" \in dev.hw.status ~>
    \/ app # "attached"
    \/ dev.usbState = "waiting" /\ dev.hw.enabled /\ dev.hw.rx = "valid"

=============================================================================
