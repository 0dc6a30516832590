------------------------------ MODULE UsbDevice ------------------------------
(***************************************************************************)
(* The chip-independent half of dragonUSB (src/device.cxx, src/core.cxx)   *)
(* over the STM32F1 EP0 routines it calls (src/stm32f1/{core,device}.cxx). *)
(*                                                                         *)
(* All of this code runs inside the USB interrupt, one call after another, *)
(* so every function of the source is an operator from the device as the   *)
(* previous call left it to the device as this call leaves it.  A device   *)
(* is one record: the stack's globals, EP0's two usbEPStatus_t ("in" and   *)
(* "out"), and the peripheral's registers ("hw").                          *)
(*                                                                         *)
(* Bytes are abstracted to the object they come from and the offset in it. *)
(* A multi-part table is one object: its parts are sent back to back.      *)
(***************************************************************************)
EXTENDS Integers

CONSTANTS
  configsCount,              \* USB_CONFIG_DESCRIPTORS
  interfaceCount,            \* USB_INTERFACES
  interfaceDescriptorCount,  \* USB_INTERFACE_DESCRIPTORS
  endpointDescriptorCount,   \* USB_ENDPOINT_DESCRIPTORS
  stringCount,               \* USB_STRINGS
  epBufferSize,              \* USB_BUFFER_SIZE
  ConfigLength,              \* configDescriptors[i].totalLength()
  StringLength               \* strings[i - 1].totalLength()

UINT16_MAX == 65535
Word == 0..UINT16_MAX
Byte == 0..255

\* The ranges are those of meson_options.txt; lengths are uint16_t sums.
ASSUME BuildOptions ==
  /\ configsCount \in 1..8
  /\ interfaceCount \in 1..32
  /\ interfaceDescriptorCount \in 1..32
  /\ endpointDescriptorCount \in 0..64
  /\ stringCount \in 0..255
  /\ epBufferSize \in 8..64
  /\ ConfigLength \in [0..configsCount - 1 -> Word]
  /\ StringLength \in [1..stringCount -> Word]

Least(a, b) == IF a < b THEN a ELSE b

-----------------------------------------------------------------------------
(* Types (include/usb/types.hxx, include/usb/device.hxx).                  *)

DeviceStates == {"detached", "attached", "powered", "waiting", "addressing",
                 "addressed", "configured"}

CtrlStates == {"idle", "wait", "dataTX", "dataRX", "statusTX", "statusRX"}

Responses == {"data", "zeroLength", "unhandled", "stall"}

\* setupCallback: null, address(), or a class driver's callback.
Callbacks == {"none", "address", "class"}

\* A setup packet; the 16-bit fields are numbers, low byte = value % 256.
SetupPackets ==
  [type      : {"standard", "class", "vendor"},
   recipient : {"device", "interface", "endpoint", "other"},
   dir       : {"out", "in"},
   request   : {"getStatus", "clearFeature", "setFeature", "setAddress",
                "getDescriptor", "setDescriptor", "getConfiguration",
                "setConfiguration", "getInterface", "setInterface",
                "syncFrame", "other"},
   value : Word, index : Word, length : Word]

\* The value-initialised packet.
ZeroPacket ==
  [type |-> "standard", recipient |-> "device", dir |-> "out",
   request |-> "getStatus", value |-> 0, index |-> 0, length |-> 0]

\* What a memory pointer points to: an object and its index in its table.
Objects == {"null", "deviceDescriptor", "configDescriptor", "langID",
            "string", "interfaceDescriptor", "endpointDescriptor",
            "activeConfig", "statusResponse", "alternateMode",
            "classData"} \X Byte
NullPtr == <<"null", 0>>

Buffers == [obj : Objects, off : Nat]

\* usbEPStatus_t<const void> and usbEPStatus_t<void>, as EP0 uses them.
EpIn == [needsArming : BOOLEAN, stall : BOOLEAN, isMultiPart : BOOLEAN,
         transferCount : Word, memBuffer : Buffers, partsData : Objects]
EpOut == [needsArming : BOOLEAN, stall : BOOLEAN, transferCount : Word]

Interrupts == {"reset", "suspend", "wakeup", "sof", "ctr", "disconnect"}

\* The packet waiting in EP0's receive buffer: a SETUP or an OUT packet of
\* "count" bytes, whose first eight bytes read as the setup packet "data".
RxPackets == [kind : {"none", "setup", "out"}, data : SetupPackets,
              count : Word]
NoPacket == [kind |-> "none", data |-> ZeroPacket, count |-> 0]

\* The registers of the peripheral: DADDR (addr, enabled), EP0's two halves
\* (tx, txData; rx, rxPacket), the configuration whose endpoints are enabled
\* (eps, 0 for none), the transfer-complete flags not yet acknowledged, the
\* enabled interrupts, the pending event flags and the forced-suspend bit.
Registers ==
  [addr : 0..127, enabled : BOOLEAN,
   tx : {"disabled", "nack", "valid", "stall"},
   txData : [obj : Objects, off : Nat, len : Word],
   txComplete : BOOLEAN,
   rx : {"disabled", "nack", "valid"}, rxPacket : RxPackets,
   eps : 0..configsCount, epComplete : BOOLEAN,
   itrEnable : SUBSET Interrupts, status : SUBSET Interrupts,
   forceSuspend : BOOLEAN]

\* handlersUp: the configurations whose endpoint handlers have had init()
\* and not yet deinit().  It is state of the application's handlers.
Devices ==
  [usbState : DeviceStates, usbCtrlState : CtrlStates,
   usbSuspended : BOOLEAN, activeConfig : 0..configsCount,
   setupCallback : Callbacks, packet : SetupPackets,
   alternateModes : [1..configsCount -> [0..interfaceCount - 1 -> Byte]],
   handlersUp : SUBSET (1..configsCount),
   in : EpIn, out : EpOut, hw : Registers]


-----------------------------------------------------------------------------
(* EP0's packet buffers: src/stm32f1/core.cxx.                             *)

\* A uint16_t of which the first n bytes have been overwritten.
Merge16(old, new, n) ==
  CASE n >= 2 -> new
    [] n = 1  -> 256 * (old \div 256) + (new % 256)
    [] n <= 0 -> old

\* recvData() into "packet": the first n bytes of "new" over "old".
Overlay(old, new, n) ==
  [type      |-> IF n >= 1 THEN new.type ELSE old.type,
   recipient |-> IF n >= 1 THEN new.recipient ELSE old.recipient,
   dir       |-> IF n >= 1 THEN new.dir ELSE old.dir,
   request   |-> IF n >= 2 THEN new.request ELSE old.request,
   value     |-> Merge16(old.value, new.value, n - 2),
   index     |-> Merge16(old.index, new.index, n - 4),
   length    |-> Merge16(old.length, new.length, n - 6)]

\* Mutant: the receive half is not handed back to the controller.
ReadEP_NotRearmed(d, n) == [d EXCEPT !.out.transferCount = @ - Least(n, @)]

\* readEP(0) of a packet of n bytes; its result is ~more(ReadEP(d, n)).
ReadEP(d, n) ==
  [d EXCEPT !.out.transferCount = @ - Least(n, @), !.hw.rx = "valid"]

\* Mutant: a table is sent from its beginning in every packet.
WriteSource_Restarts(in) ==
  IF in.isMultiPart THEN [obj |-> in.partsData, off |-> 0] ELSE in.memBuffer

\* Where writeEP() takes its bytes: memBuffer, or the beginning of the table.
\* With isMultiPart left by a table that was given up the bytes are memBuffer's
\* too, if the loop over the old table's parts ends at all: how many it copies
\* is meaningless (StaleTable).  Here it is taken to end after the right number.
WriteSource(in) ==
  IF in.isMultiPart /\ in.memBuffer.obj = NullPtr
  THEN [obj |-> in.partsData, off |-> 0] ELSE in.memBuffer

\* Mutant: every packet is a whole one.
WriteEP_WholePackets(d) ==
  LET source == WriteSource(d.in)
  IN  [d EXCEPT
        !.in.transferCount = @ - epBufferSize,
        !.in.memBuffer     = [source EXCEPT !.off = @ + epBufferSize],
        !.hw.tx            = "valid",
        !.hw.txData        = [obj |-> source.obj, off |-> source.off,
                              len |-> epBufferSize]]

\* writeEP(0); its result is transferCount = 0 afterwards.
WriteEP(d) ==
  LET count  == Least(d.in.transferCount, epBufferSize)
      left   == d.in.transferCount - count
      source == WriteSource(d.in)
  IN  [d EXCEPT
        !.in.transferCount = left,
        !.in.memBuffer     = [source EXCEPT !.off = @ + count],
        !.in.isMultiPart   = @ /\ left # 0,
        !.hw.tx            = "valid",
        !.hw.txData = [obj |-> source.obj, off |-> source.off, len |-> count]]

\* stallEP(0): the transmit half only.
StallEP(d) == [d EXCEPT !.hw.tx = "stall"]

\* usb::core::address(value).
Address(d, value) ==
  [d EXCEPT !.hw.addr = value % 128, !.hw.enabled = TRUE]

\* Mutant: the endpoints keep running.
ResetEPs_Nothing(d, what) == d

\* resetEPs(): the status of EP0 is kept for "user", every other endpoint is
\* disabled either way.
ResetEPs(d, what) ==
  LET user == [d EXCEPT !.hw.eps = 0, !.hw.epComplete = FALSE]
  IN  IF what = "user" THEN user
      ELSE [user EXCEPT
             !.in  = [@ EXCEPT !.needsArming = FALSE, !.stall = FALSE,
                               !.isMultiPart = FALSE, !.transferCount = 0],
             !.out = [needsArming |-> FALSE, stall |-> FALSE,
                      transferCount |-> 0],
             !.hw  = [@ EXCEPT !.tx = "disabled", !.txComplete = FALSE,
                               !.rx = "disabled", !.rxPacket = NoPacket]]

-----------------------------------------------------------------------------
(* The handler registry's lifecycle: src/core.cxx.                         *)

\* Mutant: the row below the active configuration's.
InitHandlers_OffByOne(d) ==
  [d EXCEPT !.handlersUp = @ \cup ({d.activeConfig - 1} \ {0})]

InitHandlers(d) ==
  [d EXCEPT !.handlersUp = @ \cup ({d.activeConfig} \ {0})]

DeinitHandlers(d) == [d EXCEPT !.handlersUp = @ \ {d.activeConfig}]

-----------------------------------------------------------------------------
(* Standard requests: src/device.cxx.                                      *)

\* What a request handler returns, and the device it leaves behind.
Reply(d, response, data, size) ==
  [dev |-> d, response |-> response, data |-> data, size |-> size]
Stalled(d)   == Reply(d, "stall", NullPtr, 0)
Unhandled(d) == Reply(d, "unhandled", NullPtr, 0)
Acked(d)     == Reply(d, "zeroLength", NullPtr, 0)

\* address(): the setup callback of SET_ADDRESS.
AddressCallback(d) ==
  LET isSetAddress == /\ d.packet.type = "standard"
                      /\ d.packet.request = "setAddress"
                      /\ d.packet.value < 256
  IN  IF d.usbState # "addressing" THEN d
      ELSE IF isSetAddress
      THEN [Address(d, d.packet.value) EXCEPT !.usbState = "addressed"]
      ELSE [Address(d, 0) EXCEPT !.usbState = "waiting"]

\* Mutant: the callback is cleared before it is called.
RunCallback_Cleared(d) == [d EXCEPT !.setupCallback = "none"]

\* "if (setupCallback)": a class driver's callback changes only the driver.
RunCallback(d) ==
  [(IF d.setupCallback = "address" THEN AddressCallback(d) ELSE d)
     EXCEPT !.setupCallback = "none"]

\* The reply of a table sent part by part.
MultiPart(d, table, size) ==
  Reply([d EXCEPT !.in.isMultiPart = TRUE, !.in.partsData = table],
        "data", NullPtr, size)

\* The type of a descriptor is the high byte of wValue (usbDescriptor_t).
DescriptorType(p) ==
  CASE p.value \div 256 = 1 -> "device"
    [] p.value \div 256 = 2 -> "configuration"
    [] p.value \div 256 = 3 -> "string"
    [] p.value \div 256 = 4 -> "interface"
    [] p.value \div 256 = 5 -> "endpoint"
    [] p.value \div 256 = 6 -> "deviceQualifier"
    [] OTHER -> "unknown"

HandleGetDescriptor(d) ==
  LET index == d.packet.value % 256
      type  == DescriptorType(d.packet)
  IN  CASE d.packet.dir = "out" -> Stalled(d)
        [] d.packet.dir = "in" /\ d.packet.recipient # "device" -> Unhandled(d)
        [] OTHER ->
      CASE type = "device" ->
             Reply(d, "data", <<"deviceDescriptor", 0>>, 18)
        [] type = "deviceQualifier" -> Stalled(d)
        [] type = "configuration" /\ index < configsCount ->
             MultiPart(d, <<"configDescriptor", index>>, ConfigLength[index])
        [] type = "interface" /\ index < interfaceDescriptorCount ->
             Reply(d, "data", <<"interfaceDescriptor", index>>, 9)
        [] type = "endpoint" /\ index < endpointDescriptorCount ->
             Reply(d, "data", <<"endpointDescriptor", index>>, 7)
        [] type = "string" /\ index = 0 ->
             Reply(d, "data", <<"langID", 0>>, 4)
        [] type = "string" /\ index \in 1..stringCount ->
             MultiPart(d, <<"string", index>>, StringLength[index])
        [] OTHER -> Unhandled(d)

HandleGetStatus(d) ==
  IF d.packet.dir = "in" /\ d.packet.recipient \in {"device", "interface"}
  THEN Reply(d, "data", <<"statusResponse", 0>>, 2)
  ELSE Stalled(d)

\* Mutant: the new address is taken at once.
HandleSetAddress_AtOnce(d) ==
  Acked([Address(d, d.packet.value) EXCEPT !.usbState = "addressed"])

HandleSetAddress(d) ==
  IF d.packet.dir = "out" /\ d.packet.recipient = "device"
  THEN Acked([d EXCEPT !.usbState = "addressing", !.setupCallback = "address"])
  ELSE Stalled(d)

\* Mutant: the configuration's number is not checked.
HandleSetConfiguration_Unchecked(d) ==
  LET config == d.packet.value % 256
  IN  Acked(InitHandlers([DeinitHandlers(ResetEPs(d, "user")) EXCEPT
                            !.activeConfig = config, !.hw.eps = config]))

\* handleSetConfiguration() of stm32f1, and SET_CONFIGURATION's guard.
HandleSetConfiguration(d) ==
  LET config == d.packet.value % 256
      torn   == DeinitHandlers(ResetEPs(d, "user"))
      chosen == [torn EXCEPT !.activeConfig = config]
  IN  CASE ~(d.packet.dir = "out" /\ d.packet.recipient = "device")
             -> Stalled(d)
        [] OTHER ->
      CASE config > configsCount -> Stalled(torn)
        [] config = 0 -> Acked([chosen EXCEPT !.usbState = "addressed"])
        [] OTHER -> Acked(InitHandlers([chosen EXCEPT !.hw.eps = config]))

HandleGetConfiguration(d) ==
  IF d.packet.dir = "in" /\ d.packet.recipient = "device"
  THEN Reply(d, "data", <<"activeConfig", 0>>, 1)
  ELSE Stalled(d)

HandleGetInterface(d) ==
  LET p == d.packet
  IN  IF /\ p.dir = "in" /\ p.recipient = "interface"
         /\ p.index < interfaceCount /\ p.length = 1 /\ p.value = 0
         /\ d.activeConfig # 0
      THEN Reply(d, "data", <<"alternateMode", p.index>>, 1)
      ELSE Stalled(d)

\* altOk: what the interface's alternate-mode handler says (TRUE for none).
HandleSetInterface(d, altOk) ==
  LET p    == d.packet
      mode == [d EXCEPT !.alternateModes[d.activeConfig][p.index] = p.value]
  IN  IF ~ (/\ p.dir = "out" /\ p.recipient = "interface"
            /\ p.index < interfaceCount /\ p.length = 0 /\ p.value < 256
            /\ d.activeConfig # 0)
      THEN Stalled(d)
      ELSE IF altOk THEN Acked(mode) ELSE Stalled(mode)

HandleStandardRequest(d, altOk) ==
  LET request == d.packet.request
  IN  CASE d.packet.type # "standard" -> Unhandled(d)
        [] OTHER ->
      CASE request = "setAddress"       -> HandleSetAddress(d)
        [] request = "getDescriptor"    -> HandleGetDescriptor(d)
        [] request = "setConfiguration" -> HandleSetConfiguration(d)
        [] request = "getConfiguration" -> HandleGetConfiguration(d)
        [] request = "getStatus"        -> HandleGetStatus(d)
        [] request = "getInterface"     -> HandleGetInterface(d)
        [] request = "setInterface"     -> HandleSetInterface(d, altOk)
        [] request = "other"            -> Unhandled(d)
        [] request \in {"setDescriptor", "syncFrame", "setFeature",
                        "clearFeature"} -> Stalled(d)

-----------------------------------------------------------------------------
(* The EP0 state machine: src/device.cxx.                                  *)

\* What a registered control handler (and alternate-mode handler) may do with
\* the request: answer it; for one with a data stage to the device, arm EP0
\* to receive it; leave a callback for the end of the transfer.
Answers == [response : Responses, data : Objects, size : Word,
            arm : BOOLEAN, callback : BOOLEAN, altOk : BOOLEAN]

\* Mutant: the transfer's length is not set.
ClassRequest_NoLength(d, ans) ==
  Reply([d EXCEPT !.setupCallback = IF ans.callback THEN "class" ELSE @,
                  !.out.needsArming = @ \/ (ans.arm /\ d.packet.length # 0)],
        ans.response, ans.data, ans.size)

\* The controlHandlers loop: the answer of the handler that takes the request.
ClassRequest(d, ans) ==
  LET arms == ans.arm /\ d.packet.length # 0
      told == [d EXCEPT
                !.setupCallback = IF ans.callback THEN "class" ELSE @,
                !.out.needsArming   = @ \/ arms,
                !.out.transferCount = IF arms THEN d.packet.length ELSE @]
  IN  Reply(told, ans.response, ans.data, ans.size)

CompleteSetupPacket(d) ==
  LET sent == WriteEP([d EXCEPT !.usbCtrlState = "dataTX"])
  IN  CASE d.in.needsArming ->
             IF sent.in.transferCount = 0
             THEN [sent EXCEPT !.usbCtrlState = "statusRX"] ELSE sent
        [] ~d.in.needsArming /\ d.out.needsArming ->
             [d EXCEPT !.usbCtrlState = "dataRX"]
        [] ~d.in.needsArming /\ ~d.out.needsArming /\ d.in.stall ->
             [StallEP(d) EXCEPT !.usbCtrlState = "idle"]
        [] OTHER -> d

\* The second half of handleSetupPacket(): EP0 is armed with the reply.
ArmReply(reply) ==
  LET d      == reply.dev
      r      == reply.response
      count  == IF r = "zeroLength" THEN 0 ELSE reply.size
      whacko == r = "data" /\ reply.data = NullPtr /\ ~d.in.isMultiPart
  IN  [d EXCEPT !.in = [@ EXCEPT
        !.stall         = r \in {"stall", "unhandled"},
        !.needsArming   = /\ ~whacko
                          /\ \/ r = "data"
                             \/ r = "zeroLength" /\ ~d.out.needsArming,
        !.memBuffer     = [obj |-> reply.data, off |-> 0],
        !.transferCount = Least(count, d.packet.length)]]

\* The first half of handleSetupPacket(): readEP(0) into "packet".
ReadSetup(d, rx) ==
  ReadEP([d EXCEPT !.out.transferCount = 8,
                   !.packet = Overlay(@, rx.data, Least(rx.count, 8))],
         rx.count)

\* "Set up EP0 state for a reply of some kind".
FreshReply(d) ==
  [d EXCEPT !.usbCtrlState = "wait",
            !.in  = [@ EXCEPT !.needsArming = FALSE, !.stall = FALSE,
                              !.transferCount = 0],
            !.out = [needsArming |-> FALSE, stall |-> FALSE,
                     transferCount |-> 0]]

HandleSetupPacket(d, rx, ans) ==
  LET read     == ReadSetup(d, rx)
      standard == HandleStandardRequest(FreshReply(read), ans.altOk)
      reply    == IF standard.response = "unhandled" /\ read.activeConfig # 0
                  THEN ClassRequest(standard.dev, ans) ELSE standard
  IN  IF read.out.transferCount # 0 THEN StallEP(read)
      ELSE CompleteSetupPacket(ArmReply(reply))

\* Mutant: a write is acknowledged with its first packet.
HandleControllerOutPacket_AcksEarly(d, rx, ans) ==
  IF d.usbCtrlState = "dataRX"
  THEN RunCallback(WriteEP([ReadEP(d, rx.count) EXCEPT
                              !.in.needsArming = TRUE,
                              !.usbCtrlState = "statusTX"]))
  ELSE HandleSetupPacket(
         RunCallback([d EXCEPT !.usbCtrlState = "idle"]), rx, ans)

HandleControllerOutPacket(d, rx, ans) ==
  LET read == ReadEP(d, rx.count)
      full == WriteEP([read EXCEPT !.in.needsArming = TRUE,
                                   !.usbCtrlState = "statusTX"])
  IN  CASE d.usbCtrlState = "dataRX" ->
             IF read.out.transferCount = 0 THEN RunCallback(full) ELSE read
        [] d.usbCtrlState # "dataRX" ->
             HandleSetupPacket(
               RunCallback([d EXCEPT !.usbCtrlState = "idle"]), rx, ans)

\* Mutant: every packet sent is taken for the end of the transfer.
HandleControllerInPacket_Ends(d) ==
  RunCallback([d EXCEPT !.usbCtrlState = "idle"])

HandleControllerInPacket(d) ==
  LET sent == WriteEP(d)
  IN  CASE d.usbCtrlState = "dataTX" ->
             IF sent.in.transferCount = 0
             THEN [sent EXCEPT !.usbCtrlState = "statusRX"] ELSE sent
        [] d.usbCtrlState # "dataTX" ->
             RunCallback([d EXCEPT !.usbCtrlState = "idle"])

\* handleControlPacket() of stm32f1, for a received packet.
HandleControlPacket(d, rx, ans) ==
  IF rx.kind = "setup" THEN HandleSetupPacket(d, rx, ans)
  ELSE HandleControllerOutPacket(d, rx, ans)

\* Mutant: what the transfer is engaged in is not looked at.
HandleControlPacketByState_Setup(d, rx, ans) == HandleSetupPacket(d, rx, ans)

\* handleControlPacket() of the other two chips: the state of the last transfer
\* decides what the packet is.
HandleControlPacketByState(d, rx, ans) ==
  IF d.usbCtrlState = "idle" THEN HandleSetupPacket(d, rx, ans)
  ELSE HandleControllerOutPacket(d, rx, ans)

=============================================================================
