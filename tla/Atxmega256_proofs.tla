-------------------------- MODULE Atxmega256_proofs --------------------------
(***************************************************************************)
(* For every build, every set of requests and answers, every interleaving  *)
(* of the bus, the interrupt and the application, and however the device   *)
(* is cut off: the state has its type, and a device the application has    *)
(* detached is off the bus.                                                *)
(*                                                                         *)
(* For every patient host and every set of drivers that keep to the        *)
(* conventions (Conventional, Patient, ReadsThrough), and an interrupt     *)
(* that keeps up with the host and acknowledges a packet before the next   *)
(* one comes: EP0 with the events it has still to serve is always where    *)
(* the host takes it to be (Conversing); so address, configuration and the *)
(* bytes of every transfer are what the host takes them to be, and the     *)
(* driver is the control pipe of ControlTransfer.                          *)
(***************************************************************************)
EXTENDS Atxmega256, UsbHost_proofs

\* From the first half of detach() on, and until attach(), the attach bit is
\* clear: nothing the interrupt does sets it.
Silent == app # "attached" => ~dev.hw.enabled

IInv == TypeOK /\ Sound(dev) /\ WithinWrite /\ Silent

LEMMA InitInvariant == Init => IInv
<1> SUFFICES ASSUME Init PROVE IInv
  OBVIOUS
<1> DEFINE g1 == [PowerOn.hw EXCEPT !.tx = "nack"]
           g2 == [g1 EXCEPT !.rx = "nack"]
<1>1. NoMore(PowerOn.hw, g2)
  <2>1. NoMore(PowerOn.hw, g1)
    BY PowerOnSound, Fields, NoMoreItself, SetTx
  <2> HIDE DEF g1
  <2> QED BY <2>1, SetRx
<1>2. Sound(dev)
  <2>1. Sound([PowerOn EXCEPT !.hw = g2])
    BY <1>1, PowerOnSound, SetHw
  <2> QED BY <2>1 DEF Init
<1>3. ~dev.hw.enabled
  BY DEF Init, PowerOn
<1> QED BY <1>2, <1>3, LostTyped DEF Init, IInv, TypeOK, Sound, WithinWrite, Silent,
     Lost, AppStates

-----------------------------------------------------------------------------
(* The application.                                                        *)

LEMMA AttachStep ==
  ASSUME IInv, Attach
  PROVE  IInv'
<1> DEFINE g1 == [dev.hw EXCEPT !.itrEnable = BusEvents]
           g2 == [g1 EXCEPT !.addr = 0]
           g3 == [g2 EXCEPT !.enabled = TRUE]
           e1 == [dev EXCEPT !.hw = g3]
           e2 == [e1 EXCEPT !.activeConfig = 0]
<1>1. Sound(dev)
  BY DEF IInv
<1>2. NoMore(dev.hw, g1) /\ g1.itrEnable = BusEvents
  BY <1>1, Fields, NoMoreItself, SetItrEnable DEF BusEvents, Interrupts, Registers
<1> HIDE DEF g1
<1>3. NoMore(dev.hw, g3) /\ g3.itrEnable = BusEvents
  <2>1. NoMore(dev.hw, g2) /\ g2.itrEnable = BusEvents
    <3>1. NoMore(dev.hw, g2)
      <4>1. 0 \in 0..127
        OBVIOUS
      <4> QED BY <1>2, <4>1, SetAddr
    <3> QED BY <1>2, <3>1 DEF NoMore, Registers
  <2> HIDE DEF g2
  <2>2. NoMore(dev.hw, g3)
    BY <2>1, SetEnabled
  <2> QED BY <2>1, <2>2 DEF NoMore, Registers
<1> HIDE DEF g3
<1>4. Sound(e1) /\ e1.hw = g3
  BY <1>1, <1>3, SetHw DEF Sound, Devices
<1> HIDE DEF e1
<1>5. Sound(e2)
  <2>1. Quiet(e1) /\ 0 \in 0..configsCount
    BY <1>3, <1>4, BuildOptions DEF BuildOptions, Quiet, BusEvents
  <2> QED BY <1>4, <2>1, SetActiveConfig
<1>6. dev' = e2
  BY DEF Attach, e1, g1, g2, g3
<1> QED BY <1>5, <1>6 DEF IInv, TypeOK, Attach, Sound, WithinWrite, Silent, AppStates

LEMMA DetachBusStep ==
  ASSUME IInv, DetachBus
  PROVE  IInv'
<1> DEFINE g == [dev.hw EXCEPT !.enabled = FALSE]
<1>1. Sound(dev)
  BY DEF IInv
<1>2. Sound([dev EXCEPT !.hw = g])
  BY <1>1, Fields, NoMoreItself, SetEnabled, SetHw
<1>3. Sound(dev') /\ ~dev'.hw.enabled
  BY <1>1, <1>2 DEF DetachBus, Sound, Devices, Registers
<1>4. host' \in Hosts /\ WithinWrite'
  BY FoundTyped DEF DetachBus
<1> QED BY <1>3, <1>4 DEF IInv, TypeOK, DetachBus, Sound, Silent, AppStates

LEMMA DetachStackStep ==
  ASSUME IInv, DetachStack
  PROVE  IInv'
<1> DEFINE g  == [dev.hw EXCEPT !.itrEnable = {}]
           e1 == [dev EXCEPT !.hw = g]
           e2 == DeinitHandlers(e1)
           e3 == [e2 EXCEPT !.activeConfig = 0]
<1>1. Sound(dev) /\ ~dev.hw.enabled
  BY DEF IInv, DetachStack, Silent
<1>2. NoMore(dev.hw, g) /\ g.itrEnable = {} /\ ~g.enabled
  BY <1>1, Fields, NoMoreItself, SetItrEnable DEF Registers
<1> HIDE DEF g
<1>3. Sound(e1) /\ Quiet(e1) /\ e1.hw = g
  <2>1. Sound(e1)
    BY <1>1, <1>2, SetHw
  <2>2. e1.hw = g
    BY <1>1 DEF Sound, Devices
  <2> QED BY <1>2, <2>1, <2>2 DEF Quiet
<1>4. Sound(e3) /\ e3.hw = g
  <2>1. 0 \in 0..configsCount
    BY BuildOptions DEF BuildOptions
  <2> HIDE DEF e1
  <2>2. Sound(e2) /\ Quiet(e2) /\ e2.hw = g
    BY <1>3, DeinitHandlersSound
  <2> HIDE DEF e2
  <2> QED BY <2>1, <2>2, SetActiveConfig
<1>5. dev' = e3
  BY <1>1 DEF DetachStack, DeinitHandlers, g, Sound, Devices
<1>6. Sound(dev') /\ ~dev'.hw.enabled
  BY <1>2, <1>4, <1>5
<1> QED BY <1>6 DEF IInv, TypeOK, DetachStack, Sound, WithinWrite, Silent, AppStates

-----------------------------------------------------------------------------
(* The interrupt.                                                          *)

LEMMA WakeupSound ==
  ASSUME NEW d, Sound(d)
  PROVE  /\ Sound(Wakeup(d)) /\ Wakeup(d).hw.enabled = d.hw.enabled
         /\ Sound(Suspend(d)) /\ Suspend(d).hw.enabled = d.hw.enabled
<1>1. ASSUME NEW v \in BOOLEAN, NEW e
      PROVE  /\ Sound([d EXCEPT !.usbSuspended = v, !.hw.status = @ \ {e}])
             /\ [d EXCEPT !.usbSuspended = v, !.hw.status = @ \ {e}].hw.enabled
                  = d.hw.enabled
  <2> DEFINE s == [d EXCEPT !.usbSuspended = v]
             g == [d.hw EXCEPT !.status = d.hw.status \ {e}]
  <2>1. Sound(s) /\ s.hw = d.hw
    BY DEF Sound, Registry, Devices
  <2>2. NoMore(d.hw, g) /\ g.enabled = d.hw.enabled
    <3>1. d.hw.status \ {e} \in SUBSET Interrupts
      BY Fields DEF Registers
    <3> QED BY <3>1, Fields, NoMoreItself, SetStatus DEF Registers
  <2> HIDE DEF s
  <2>3. Sound([s EXCEPT !.hw = g]) /\ [s EXCEPT !.hw = g].hw = g
    BY <2>1, <2>2, SetHw DEF Sound, Devices
  <2> QED BY <2>2, <2>3 DEF s
<1> QED BY <1>1 DEF Wakeup, Suspend

LEMMA ResetSound ==
  ASSUME NEW d, Sound(d)
  PROVE  Sound(Reset(d)) /\ Reset(d).hw.enabled = d.hw.enabled
<1> DEFINE r  == ResetEPs(d, "all")
           e1 == [r EXCEPT !.usbState = "waiting"]
           g1 == [r.hw EXCEPT !.tx = "nack"]
           g2 == [g1 EXCEPT !.rx = "valid"]
           g3 == [g2 EXCEPT !.rxPacket = d.hw.rxPacket]
           g4 == [g3 EXCEPT !.addr = 0]
           g5 == [g4 EXCEPT !.itrEnable = r.hw.itrEnable \cup BusEvents \cup {"ctr"}]
           g6 == [g5 EXCEPT !.status = r.hw.status \ {"reset"}]
<1>1. Sound(r) /\ r.hw.eps = 0
  BY ResetEPsSound
<1>2. r.hw.enabled = d.hw.enabled
  BY DEF ResetEPs, Sound, Devices, Registers
<1> HIDE DEF r
<1>3. Sound(e1) /\ e1.hw = r.hw
  <2>1. Sound(e1)
    BY <1>1, SetUsbState DEF DeviceStates
  <2> QED BY <1>1, <2>1 DEF Sound, Devices
<1>4. NoMore(r.hw, g2) /\ g2.enabled = r.hw.enabled
  <2>1. NoMore(r.hw, g1) /\ g1.enabled = r.hw.enabled
    <3>1. r.hw \in Registers
      BY <1>1, Fields
    <3>2. NoMore(r.hw, g1)
      BY <3>1, NoMoreItself, SetTx
    <3> QED BY <3>1, <3>2 DEF Registers
  <2> HIDE DEF g1
  <2>2. NoMore(r.hw, g2)
    BY <2>1, SetRx
  <2> QED BY <2>1, <2>2 DEF NoMore, Registers
<1> HIDE DEF g2
<1>5. NoMore(r.hw, g3) /\ g3.enabled = r.hw.enabled
  <2>1. d.hw.rxPacket \in RxPackets
    BY Fields DEF Registers
  <2> QED BY <1>4, <2>1, SetRxPacket DEF NoMore, Registers
<1> HIDE DEF g3
<1>6. NoMore(r.hw, g4) /\ g4.enabled = r.hw.enabled /\ g4.eps = 0
  <2>1. NoMore(r.hw, g4)
    <3>1. 0 \in 0..127
      OBVIOUS
    <3> QED BY <1>5, <3>1, SetAddr
  <2> QED BY <1>1, <1>5, <2>1 DEF NoMore, Registers
<1> HIDE DEF g4
<1>7. NoMore(r.hw, g5) /\ g5.enabled = r.hw.enabled
  <2>1. r.hw.itrEnable \cup BusEvents \cup {"ctr"} \in SUBSET Interrupts
    BY <1>1, Fields DEF Registers, Interrupts, BusEvents
  <2> QED BY <1>6, <2>1, SetItrEnable DEF NoMore, Registers
<1> HIDE DEF g5
<1>8. NoMore(r.hw, g6) /\ g6.enabled = r.hw.enabled
  <2>1. r.hw.status \ {"reset"} \in SUBSET Interrupts
    BY <1>1, Fields DEF Registers
  <2> QED BY <1>7, <2>1, SetStatus DEF NoMore, Registers
<1> HIDE DEF g6, e1
<1>9. Sound([e1 EXCEPT !.hw = g6]) /\ [e1 EXCEPT !.hw = g6].hw = g6
  BY <1>3, <1>8, SetHw DEF Sound, Devices
<1>10. Reset(d) = [e1 EXCEPT !.hw = g6]
  <2>1. g5.status = r.hw.status /\ g3.itrEnable = r.hw.itrEnable
    BY <1>1, Fields DEF g5, g4, g3, g2, Registers
  <2> QED BY <2>1 DEF Reset, r, e1, g2, g3, g4, g5, g6
<1> QED BY <1>2, <1>8, <1>9, <1>10

LEMMA HandledSound ==
  ASSUME IInv, NEW d, Sound(d)
  PROVE  Sound(Handled(d)) /\ Handled(d).hw.enabled = dev.hw.enabled
<1> DEFINE tx == IF dev.hw.tx = "stall" THEN "stall" ELSE d.hw.tx
           g1 == [d.hw EXCEPT !.enabled = dev.hw.enabled]
           g2 == [g1 EXCEPT !.tx = tx]
<1>1. dev.hw \in Registers /\ d.hw \in Registers
  BY Fields DEF IInv
<1>2. NoMore(d.hw, g1) /\ g1.enabled = dev.hw.enabled /\ g1.tx = d.hw.tx
  BY <1>1, NoMoreItself, SetEnabled DEF Registers
<1>3. tx \in {"disabled", "nack", "valid", "stall"}
  BY <1>1 DEF Registers
<1> HIDE DEF g1
<1>4. NoMore(d.hw, g2) /\ g2.enabled = dev.hw.enabled
  <2> HIDE DEF tx
  <2>1. NoMore(d.hw, g2)
    BY <1>2, <1>3, SetTx
  <2> QED BY <1>2, <2>1 DEF NoMore, Registers
<1>5. Sound([d EXCEPT !.hw = g2]) /\ [d EXCEPT !.hw = g2].hw = g2
  <2> HIDE DEF g2
  <2> QED BY <1>4, SetHw DEF Sound, Devices
<1>6. Handled(d) = [d EXCEPT !.hw = g2]
  BY <1>2 DEF Handled, g1
<1> QED BY <1>4, <1>5, <1>6

\* None of the steps of the interrupt handler is the host's, and none attaches.
LEMMA InterruptStep ==
  ASSUME IInv, Interrupt
  PROVE  IInv'
<1>1. Sound(dev) /\ TypeOK
  BY DEF IInv
<1>2. host' = host /\ app' = app
  BY DEF Interrupt, InterruptReset, InterruptEvents, PacketSent, AcknowledgeSent,
     PacketReceived, NothingForEP0
<1>3. pc' \in {"idle", "in", "ack", "out"} /\ flags' \subseteq {"setup", "io"}
  BY <1>1 DEF Interrupt, InterruptReset, InterruptEvents, PacketSent,
     AcknowledgeSent, PacketReceived, NothingForEP0, TypeOK
<1>4. Sound(Entered) /\ Entered.hw.enabled = dev.hw.enabled
  BY <1>1, WakeupSound DEF Entered
<1>5. Sound(dev') /\ dev'.hw.enabled = dev.hw.enabled
  <2>1. CASE InterruptReset
    BY <1>4, <2>1, ResetSound DEF InterruptReset
  <2>2. CASE InterruptEvents
    BY <1>4, <2>2, WakeupSound DEF InterruptEvents
  <2>3. CASE PacketSent
    BY <1>1, <2>3, HandleControllerInPacketSound, HandledSound DEF PacketSent
  <2>4. CASE AcknowledgeSent
    <3>1. Sound([dev EXCEPT !.hw.txComplete = FALSE])
      BY <1>1, Fields, NoMoreItself, SetTxComplete, SetHw
    <3>2. dev'.hw.enabled = dev.hw.enabled
      BY <1>1, <2>4 DEF AcknowledgeSent, Sound, Devices, Registers
    <3> QED BY <2>4, <3>1, <3>2 DEF AcknowledgeSent
  <2>5. CASE PacketReceived
    <3> DEFINE rx == dev.hw.rxPacket
               d  == [dev EXCEPT !.hw.rxPacket = NoPacket]
    <3>1. rx \in RxPackets /\ Sound(d) /\ ClassAnswers[rx.data.dir] \subseteq Answers
      BY <1>1, Fetched
    <3>2. PICK ans \in ClassAnswers[rx.data.dir] :
            dev' = Handled(HandleControlPacketByState(d, rx, ans))
      BY <2>5 DEF PacketReceived
    <3> HIDE DEF d, rx
    <3>3. Sound(HandleControlPacketByState(d, rx, ans))
      BY <3>1, HandleControlPacketByStateSound
    <3> QED BY <3>2, <3>3, HandledSound
  <2>6. CASE NothingForEP0
    BY <1>1, <2>6 DEF NothingForEP0
  <2> QED BY <2>1, <2>2, <2>3, <2>4, <2>5, <2>6 DEF Interrupt
<1>6. dev' \in Devices
  BY <1>5 DEF Sound
<1> QED BY <1>2, <1>3, <1>5, <1>6 DEF IInv, TypeOK, WithinWrite, Silent

-----------------------------------------------------------------------------
(* The host and the bus.                                                   *)

LEMMA HostStep ==
  ASSUME IInv, Host
  PROVE  IInv'
<1>1. Sound(dev) /\ host \in Hosts /\ WithinWrite /\ TypeOK
  BY DEF IInv, TypeOK
<1>2. pc' = pc /\ app' = app /\ flags' \subseteq {"setup", "io"}
  BY <1>1 DEF Host, HostSetup, HostIn, HostStalled, HostOutData, HostOutStatus,
     HostReset, HostSuspend, HostResume, HostUserTraffic, TypeOK
<1>3. Sound(dev') /\ host' \in Hosts /\ WithinWrite'
  <2>1. ASSUME NEW r \in Requests, HostSetup(r)
        PROVE  Sound(dev') /\ host' \in Hosts /\ WithinWrite'
    <3>1. /\ host' \in Hosts /\ WithinWrite'
          /\ [kind |-> "setup", data |-> r, count |-> 8] \in RxPackets
      BY <1>1, <2>1, AsksTyped DEF HostSetup
    <3> QED BY <1>1, <2>1, <3>1, Delivered DEF HostSetup
  <2>2. CASE HostIn
    <3>1. Sound(dev') /\ dev.hw.txData.len \in Word
      BY <1>1, <2>2, Taken DEF HostIn
    <3> QED BY <1>1, <2>2, <3>1, TakesTyped DEF HostIn
  <2>3. CASE HostStalled
    BY <1>1, <2>3, RefusedTyped DEF HostStalled
  <2>4. CASE HostOutData
    <3> DEFINE count == Least(host.req.length - host.got, epBufferSize)
    <3>1. count \in Word /\ host' \in Hosts /\ WithinWrite'
      BY <1>1, <2>4, SendsTyped DEF HostOutData
    <3>2. PICK data \in Payloads :
            dev' = [dev EXCEPT !.hw.rx = "nack",
              !.hw.rxPacket = [kind |-> "out", data |-> data, count |-> count]]
      BY <2>4 DEF HostOutData
    <3>3. [kind |-> "out", data |-> data, count |-> count] \in RxPackets
      BY <3>1, HostAssumption DEF HostAssumption, RxPackets
    <3> HIDE DEF count
    <3> QED BY <1>1, <3>1, <3>2, <3>3, Delivered
  <2>5. CASE HostOutStatus
    <3>1. [kind |-> "out", data |-> ZeroPacket, count |-> 0] \in RxPackets
      BY PacketsTyped, Words DEF RxPackets
    <3>2. Sound(dev')
      BY <1>1, <2>5, <3>1, Delivered DEF HostOutStatus
    <3> QED BY <1>1, <2>5, <3>2, AcknowledgedTyped DEF HostOutStatus, WithinWrite
  <2>6. CASE HostReset
    BY <1>1, <2>6, Flagged, FoundTyped DEF HostReset, Interrupts
  <2>7. CASE HostSuspend \/ HostResume
    BY <1>1, <2>7, Flagged, SuspendsTyped DEF HostSuspend, HostResume, Interrupts
  <2>8. CASE HostUserTraffic
    BY <1>1, <2>8, Reached DEF HostUserTraffic, WithinWrite
  <2> QED BY <2>1, <2>2, <2>3, <2>4, <2>5, <2>6, <2>7, <2>8 DEF Host
<1>4. dev'.hw.enabled = dev.hw.enabled
  <2>1. dev \in Devices /\ dev.hw \in Registers
    BY <1>1, Fields DEF Sound
  <2>2. CASE \E r \in Requests : HostSetup(r)
    <3>1. PICK packet : dev' = [dev EXCEPT !.hw.tx = "nack", !.hw.rx = "nack",
                                           !.hw.rxPacket = packet]
      BY <2>2 DEF HostSetup
    <3> QED BY <2>1, <3>1 DEF Devices, Registers
  <2>4. CASE HostIn
    BY <2>1, <2>4 DEF HostIn, Devices, Registers
  <2>5. CASE HostOutData
    <3>1. PICK packet : dev' = [dev EXCEPT !.hw.rx = "nack", !.hw.rxPacket = packet]
      BY <2>5 DEF HostOutData
    <3> QED BY <2>1, <3>1 DEF Devices, Registers
  <2>6. CASE HostOutStatus
    BY <2>1, <2>6 DEF HostOutStatus, Devices, Registers
  <2>3. CASE HostStalled \/ HostReset \/ HostSuspend \/ HostResume \/ HostUserTraffic
    BY <2>1, <2>3 DEF HostStalled, HostReset, HostSuspend, HostResume, HostUserTraffic,
       Devices, Registers
  <2> QED BY <2>2, <2>3, <2>4, <2>5, <2>6 DEF Host
<1> QED BY <1>1, <1>2, <1>3, <1>4 DEF IInv, TypeOK, Sound, Silent

-----------------------------------------------------------------------------

LEMMA NextInvariant ==
  ASSUME IInv, [Next]_vars
  PROVE  IInv'
<1>1. CASE UNCHANGED vars
  BY <1>1 DEF vars, IInv, TypeOK, WithinWrite, Silent
<1> QED BY <1>1, AttachStep, DetachBusStep, DetachStackStep, InterruptStep, HostStep
        DEF Next

\* The type invariant, and what it needs to be inductive, hold in every
\* reachable state (src/atxmega256a3u/core.cxx:341).
THEOREM Invariance == Spec => []IInv
<1>1. Init => IInv
  BY InitInvariant
<1>2. IInv /\ [Next]_vars => IInv'
  BY NextInvariant
<1> QED BY <1>1, <1>2, PTL DEF Spec

\* The stack's globals, EP0's status and the registers keep their types,
\* whatever requests arrive and however they are cut short: no index of
\* src/device.cxx leaves its table, no counter wraps.
THEOREM TypeCorrect == Spec => []TypeOK
<1>1. IInv => TypeOK
  BY DEF IInv
<1> QED BY <1>1, Invariance, PTL

\* detach() leaves the device off the bus, however late an interrupt runs
\* between its two halves (src/atxmega256a3u/core.cxx:81): nothing but attach()
\* sets the attach bit.
THEOREM DetachedStaysSilent == Spec => []DetachedIsSilent
<1>1. IInv => DetachedIsSilent
  BY DEF IInv, Silent, DetachedIsSilent
<1> QED BY <1>1, Invariance, PTL

-----------------------------------------------------------------------------
(* Host and device in conversation: with an interrupt that keeps up, a     *)
(* conventional and patient host, and no cut in the data of a write.       *)

\* Between PacketSent and AcknowledgeSent the packet sent has been served,
\* although its flag is still up.
Seen(d, at) == [d EXCEPT !.hw.txComplete = d.hw.txComplete /\ at # "ack"]

\* Every event of EP0 is flagged, or being served.
Noticed ==
  LET kind == dev.hw.rxPacket.kind
  IN  /\ "ctr" \in dev.hw.itrEnable
      /\ kind = "setup" => pc # "idle" \/ "setup" \in flags
      /\ kind = "out" => pc # "idle" \/ "io" \in flags
      /\ kind = "setup" /\ pc = "out" => ~dev.hw.txComplete
      /\ dev.hw.txComplete => pc \in {"in", "ack"} \/ "io" \in flags

\* A device that is lost, or has a bus reset to serve, holds nothing of a write.
Attended ==
  /\ host.phase # "gone" => app = "attached"
  /\ app = "attached" => dev.hw.enabled /\ "reset" \in dev.hw.itrEnable
  /\ "reset" \in dev.hw.status /\ host.phase # "gone" =>
       host.phase = "idle" /\ host.addr = 0 /\ host.cfg = 0
  /\ ~Live(dev, host) =>
       dev.hw.rxPacket = NoPacket /\ dev.usbCtrlState # "dataRX"

Conversing ==
  Attended /\ (Live(dev, host) => Following(Seen(dev, pc), host) /\ Noticed)

LEMMA SeenIsDevice ==
  ASSUME NEW d, Sound(d), NEW at
  PROVE  LET o == Seen(d, at)
         IN  /\ Sound(o) /\ SameButEP0(d, o) /\ o.hw.tx = d.hw.tx
             /\ o.hw.rx = d.hw.rx /\ o.hw.rxPacket = d.hw.rxPacket
             /\ o.hw.txComplete = (d.hw.txComplete /\ at # "ack")
             /\ at # "ack" \/ ~d.hw.txComplete => o = d
<1> DEFINE v == d.hw.txComplete /\ at # "ack"
           o == [d EXCEPT !.hw.txComplete = v]
<1>1. d.hw.txComplete \in BOOLEAN /\ d.hw \in Registers /\ d \in Devices
  BY Fields DEF Registers, Sound
<1>2. v \in BOOLEAN
  OBVIOUS
<1>3. at # "ack" \/ ~d.hw.txComplete => v = d.hw.txComplete
  BY <1>1
<1>4. Seen(d, at) = o
  BY DEF Seen
<1> HIDE DEF v
<1>5. /\ Sound(o) /\ SameButEP0(d, o) /\ o.hw.txComplete = v
      /\ o.hw.tx = d.hw.tx /\ o.hw.rx = d.hw.rx
      /\ o.hw.rxPacket = d.hw.rxPacket
  BY <1>2, Marked
<1>6. ASSUME v = d.hw.txComplete PROVE o = d
  BY <1>1, <1>6 DEF Devices, Registers
<1> HIDE DEF o
<1> QED BY <1>3, <1>4, <1>5, <1>6 DEF v

\* Steps that touch neither EP0 nor the transfer.
LEMMA SeenFrame ==
  ASSUME NEW d, Sound(d), NEW o, Sound(o), NEW at, NEW to, NEW h, NEW k,
         Following(Seen(d, at), h), SamePipe(d, o), o.usbState = d.usbState,
         SameTransfer(h, k), to = "ack" <=> at = "ack"
  PROVE  Following(Seen(o, to), k)
<1> DEFINE e == Seen(d, at)
           f == Seen(o, to)
<1>1. /\ SameButEP0(d, e) /\ e.hw.tx = d.hw.tx /\ e.hw.rx = d.hw.rx
      /\ e.hw.rxPacket = d.hw.rxPacket
      /\ e.hw.txComplete = (d.hw.txComplete /\ at # "ack")
  BY SeenIsDevice
<1>2. /\ SameButEP0(o, f) /\ f.hw.tx = o.hw.tx /\ f.hw.rx = o.hw.rx
      /\ f.hw.rxPacket = o.hw.rxPacket
      /\ f.hw.txComplete = (o.hw.txComplete /\ at # "ack")
  BY SeenIsDevice
<1> HIDE DEF e, f
<1>3. SamePipe(e, f) /\ f.usbState = e.usbState
  BY <1>1, <1>2 DEF SamePipe, SameButEP0, SameConfig, SameAddress
<1> QED BY <1>3, FollowingFrame DEF e, f

\* The stack's handlers leave the attach bit and a stall as the chip does.
LEMMA HandledNothing ==
  ASSUME Sound(dev), NEW d, Sound(d), d.hw.enabled = dev.hw.enabled,
         dev.hw.tx = "stall" => d.hw.tx = "stall"
  PROVE  Handled(d) = d
<1> DEFINE t == IF dev.hw.tx = "stall" THEN "stall" ELSE d.hw.tx
           g == [d.hw EXCEPT !.enabled = dev.hw.enabled, !.tx = t]
<1>1. t = d.hw.tx /\ d.hw \in Registers /\ d \in Devices
  BY Fields DEF Sound
<1>2. Handled(d) = [d EXCEPT !.hw = g]
  BY <1>1 DEF Handled, Devices
<1> HIDE DEF t
<1>3. g = d.hw
  BY <1>1 DEF Registers
<1> HIDE DEF g
<1>4. [d EXCEPT !.hw = g] = d
  BY <1>1, <1>3 DEF Devices
<1> QED BY <1>2, <1>4

-----------------------------------------------------------------------------
(* The steps of the interrupt handler, in conversation.                    *)

LEMMA ResetDone ==
  ASSUME NEW d, Sound(d)
  PROVE  LET o == Reset(d)
         IN  /\ o.usbState = "waiting" /\ o.usbCtrlState = d.usbCtrlState
             /\ ~o.in.isMultiPart /\ o.hw.addr = 0 /\ o.hw.enabled = d.hw.enabled
             /\ o.hw.rx = "valid" /\ o.hw.rxPacket = d.hw.rxPacket
             /\ ~o.hw.txComplete /\ o.hw.eps = 0 /\ o.hw.tx = "nack"
             /\ "ctr" \in o.hw.itrEnable /\ "reset" \in o.hw.itrEnable
             /\ "reset" \notin o.hw.status
<1> DEFINE i == [d.in EXCEPT !.needsArming = FALSE, !.stall = FALSE,
                             !.isMultiPart = FALSE, !.transferCount = 0]
           b == [needsArming |-> FALSE, stall |-> FALSE, transferCount |-> 0]
           h == [d.hw EXCEPT !.eps = 0, !.epComplete = FALSE]
           g == [h EXCEPT !.tx = "disabled", !.txComplete = FALSE,
                          !.rx = "disabled", !.rxPacket = NoPacket]
           t == d.hw.itrEnable \cup BusEvents \cup {"ctr"}
           s == d.hw.status \ {"reset"}
           f == [g EXCEPT !.tx = "nack", !.rx = "valid", !.rxPacket = d.hw.rxPacket,
                          !.addr = 0, !.itrEnable = t, !.status = s]
           r == ResetEPs(d, "all")
           o == Reset(d)
<1>1. ~i.isMultiPart
  BY Fields DEF EpIn
<1>2. g.itrEnable = d.hw.itrEnable /\ g.status = d.hw.status
  BY Fields DEF Registers
<1>3. /\ f.itrEnable = t /\ f.status = s /\ f.rxPacket = d.hw.rxPacket
      /\ f.rx = "valid" /\ f.tx = "nack" /\ f.addr = 0 /\ f.eps = 0
      /\ f.enabled = d.hw.enabled /\ ~f.txComplete
  <2> HIDE DEF t, s
  <2> QED BY Fields DEF Registers
<1>4. r = [d EXCEPT !.in = i, !.out = b, !.hw = g]
  <2> HIDE DEF i, b
  <2>1. r = [[d EXCEPT !.hw = h] EXCEPT !.in = i, !.out = b, !.hw = g]
    BY DEF ResetEPs, i, b, Sound, Devices
  <2> HIDE DEF h, g
  <2> QED BY <2>1 DEF Sound, Devices
<1>5. o = [r EXCEPT !.usbState = "waiting", !.hw = f]
  <2>1. r.hw = g
    <3> HIDE DEF i, b, g
    <3> QED BY <1>4 DEF Sound, Devices
  <2> QED BY <1>2, <2>1 DEF Reset, t, s
<1> HIDE DEF i, b, g, f
<1>6. /\ o.usbState = "waiting" /\ o.in = i /\ o.hw = f
      /\ o.usbCtrlState = d.usbCtrlState
  <2> HIDE DEF r, o
  <2>1. /\ r.in = i /\ r.usbCtrlState = d.usbCtrlState
        /\ o.usbState = "waiting" /\ o.in = r.in /\ o.hw = f
        /\ o.usbCtrlState = r.usbCtrlState
    BY <1>4, <1>5 DEF Sound, Devices
  <2> QED BY <2>1
<1>7. "ctr" \in t /\ "reset" \in t /\ "reset" \notin s
  BY DEF BusEvents
<1> HIDE DEF o, t, s
<1> QED BY <1>1, <1>3, <1>6, <1>7 DEF o

\* The events of the bus change nothing of EP0.
LEMMA EventsFrame ==
  ASSUME NEW d, Sound(d)
  PROVE  \A o \in {Wakeup(d), Suspend(d)} :
           /\ SamePipe(d, o) /\ o.usbState = d.usbState
           /\ o.hw.itrEnable = d.hw.itrEnable
           /\ "reset" \in o.hw.status <=> "reset" \in d.hw.status
<1>1. ASSUME NEW v \in BOOLEAN, NEW e \in {"wakeup", "suspend"}
      PROVE  LET o == [d EXCEPT !.usbSuspended = v, !.hw.status = @ \ {e}]
             IN  /\ SamePipe(d, o) /\ o.usbState = d.usbState
                 /\ o.hw.itrEnable = d.hw.itrEnable
                 /\ "reset" \in o.hw.status <=> "reset" \in d.hw.status
  <2> DEFINE s == d.hw.status \ {e}
             g == [d.hw EXCEPT !.status = s]
             o == [d EXCEPT !.usbSuspended = v, !.hw = g]
  <2>1. "reset" \in s <=> "reset" \in d.hw.status
    OBVIOUS
  <2>2. o = [d EXCEPT !.usbSuspended = v, !.hw.status = @ \ {e}]
    BY DEF Sound, Devices
  <2> HIDE DEF s
  <2>3. /\ g.rxPacket = d.hw.rxPacket /\ g.eps = d.hw.eps
        /\ g.addr = d.hw.addr /\ g.enabled = d.hw.enabled
        /\ g.tx = d.hw.tx /\ g.rx = d.hw.rx
        /\ g.txData = d.hw.txData /\ g.txComplete = d.hw.txComplete
        /\ g.itrEnable = d.hw.itrEnable /\ g.status = s
    BY Fields DEF Registers
  <2> HIDE DEF g
  <2>4. /\ o.hw = g /\ o.in = d.in /\ o.out = d.out /\ o.packet = d.packet
        /\ o.usbCtrlState = d.usbCtrlState /\ o.usbState = d.usbState
        /\ o.activeConfig = d.activeConfig /\ o.handlersUp = d.handlersUp
        /\ o.setupCallback = d.setupCallback
    BY DEF Sound, Devices
  <2> HIDE DEF o
  <2>5. /\ SamePipe(d, o) /\ o.usbState = d.usbState
        /\ o.hw.itrEnable = d.hw.itrEnable
        /\ "reset" \in o.hw.status <=> "reset" \in d.hw.status
    BY <2>1, <2>3, <2>4 DEF SamePipe, SameConfig
  <2> QED BY <2>2, <2>5
<1> QED BY <1>1 DEF Wakeup, Suspend

LEMMA EnteredFrame ==
  ASSUME Sound(dev)
  PROVE  /\ Sound(Entered) /\ SamePipe(dev, Entered)
         /\ Entered.usbState = dev.usbState
         /\ Entered.hw.itrEnable = dev.hw.itrEnable
         /\ "reset" \in Entered.hw.status <=> "reset" \in dev.hw.status
BY WakeupSound, EventsFrame DEF Entered, SamePipe, SameConfig

LEMMA InterruptResetConverses ==
  ASSUME IInv, IInv', Conversing, InterruptReset
  PROVE  Conversing'
<1>1. /\ Sound(dev) /\ dev' = Reset(Entered) /\ pc' = "idle"
      /\ app' = app /\ host' = host /\ "reset" \in dev.hw.status
  BY DEF IInv, InterruptReset
<1>2. /\ Sound(Entered) /\ SamePipe(dev, Entered)
  BY <1>1, EnteredFrame
<1>3. /\ dev'.usbState = "waiting" /\ dev'.usbCtrlState = dev.usbCtrlState
      /\ ~dev'.in.isMultiPart /\ dev'.hw.addr = 0
      /\ dev'.hw.enabled = dev.hw.enabled /\ dev'.hw.rx = "valid"
      /\ dev'.hw.rxPacket = dev.hw.rxPacket /\ ~dev'.hw.txComplete
      /\ "ctr" \in dev'.hw.itrEnable /\ "reset" \in dev'.hw.itrEnable
      /\ "reset" \notin dev'.hw.status
  BY <1>1, <1>2, ResetDone DEF SamePipe
<1>4. dev.hw.rxPacket = NoPacket /\ dev.usbCtrlState # "dataRX"
  BY <1>1 DEF Conversing, Attended, Live
<1>5. Attended'
  BY <1>1, <1>3, <1>4 DEF Conversing, Attended
<1>6. Seen(dev, pc)' = dev'
  BY <1>3, SeenIsDevice DEF IInv
<1>7. ASSUME Live(dev, host)' PROVE Following(dev', host') /\ Noticed'
  <2>1. host'.phase = "idle" /\ host'.addr = 0 /\ host'.cfg = 0 /\ dev.hw.enabled
    BY <1>1, <1>7 DEF Live, Conversing, Attended
  <2>2. Following(dev', host')
    BY <1>3, <1>4, <2>1, ResetFollows
  <2>3. NoPacket.kind = "none"
    BY DEF NoPacket
  <2> QED BY <1>3, <1>4, <2>2, <2>3 DEF Noticed
<1> QED BY <1>5, <1>6, <1>7 DEF Conversing

\* Only what goes on beside EP0.
LEMMA BesideConverses ==
  ASSUME IInv, IInv', Conversing, SamePipe(dev, dev'),
         dev'.usbState = dev.usbState, SameTransfer(host, host'),
         pc' = "ack" <=> pc = "ack", app' = app,
         dev'.hw.itrEnable = dev.hw.itrEnable,
         "reset" \in dev'.hw.status <=> "reset" \in dev.hw.status,
         Live(dev, host) => Noticed'
  PROVE  Conversing'
<1>1. Sound(dev) /\ Sound(dev')
  BY DEF IInv
<1>2. Live(dev', host') <=> Live(dev, host)
  BY DEF Live, SameTransfer
<1>3. Attended'
  BY <1>2 DEF Conversing, Attended, SamePipe, SameTransfer
<1>4. Live(dev, host) => Following(Seen(dev, pc)', host')
  BY <1>1, SeenFrame DEF Conversing
<1> QED BY <1>2, <1>3, <1>4 DEF Conversing

LEMMA EventsBesideEP0 ==
  ASSUME IInv, InterruptEvents
  PROVE  /\ SamePipe(dev, dev') /\ dev'.usbState = dev.usbState
         /\ dev'.hw.itrEnable = dev.hw.itrEnable
         /\ "reset" \in dev'.hw.status <=> "reset" \in dev.hw.status
<1>1. /\ Sound(dev)
      /\ dev' = IF "suspend" \in dev.hw.status THEN Suspend(Entered) ELSE Entered
  BY DEF IInv, InterruptEvents
<1>2. /\ Sound(Entered) /\ SamePipe(dev, Entered)
      /\ Entered.usbState = dev.usbState
      /\ Entered.hw.itrEnable = dev.hw.itrEnable
      /\ "reset" \in Entered.hw.status <=> "reset" \in dev.hw.status
  BY <1>1, EnteredFrame
<1>3. /\ SamePipe(dev, dev') /\ dev'.usbState = dev.usbState
      /\ dev'.hw.itrEnable = dev.hw.itrEnable
      /\ "reset" \in dev'.hw.status <=> "reset" \in dev.hw.status
  <2>1. CASE dev' = Entered
    BY <1>2, <2>1
  <2>2. CASE dev' = Suspend(Entered)
    <3>1. /\ SamePipe(Entered, dev') /\ dev'.usbState = Entered.usbState
          /\ dev'.hw.itrEnable = Entered.hw.itrEnable
          /\ "reset" \in dev'.hw.status <=> "reset" \in Entered.hw.status
      BY <1>2, <2>2, EventsFrame
    <3> QED BY <1>2, <3>1 DEF SamePipe, SameConfig
  <2> QED BY <1>1, <2>1, <2>2
<1> QED BY <1>3

LEMMA InterruptEventsConverses ==
  ASSUME IInv, IInv', Conversing, InterruptEvents
  PROVE  Conversing'
<1>1. /\ Sound(dev) /\ pc = "idle" /\ pc' \in {"idle", "in"}
      /\ app' = app /\ host' = host
      /\ IF dev'.usbState \in {"detached", "attached", "powered"}
         THEN flags' = {} /\ pc' = "idle" ELSE flags' = flags \ {"io"} /\ pc' = "in"
  BY DEF IInv, InterruptEvents
<1>2. /\ SamePipe(dev, dev') /\ dev'.usbState = dev.usbState
      /\ dev'.hw.itrEnable = dev.hw.itrEnable
      /\ "reset" \in dev'.hw.status <=> "reset" \in dev.hw.status
  BY EventsBesideEP0
<1>3. ASSUME Live(dev, host) PROVE Noticed'
  <2>1. Noticed /\ Seen(dev, pc) = dev /\ dev.usbState \in Served
    <3>1. Noticed /\ Seen(dev, pc) = dev
      BY <1>1, <1>3, SeenIsDevice DEF Conversing
    <3> QED BY <1>3, <3>1 DEF Conversing, Following, Receiving
  <2>2. pc' = "in"
    BY <1>1, <1>2, <2>1 DEF Served
  <2> QED BY <1>2, <2>1, <2>2 DEF Noticed, SamePipe
<1> QED BY <1>1, <1>2, <1>3, BesideConverses, SameTransferItself

LEMMA HandledFrame ==
  ASSUME Sound(dev), NEW d, Sound(d)
  PROVE  LET o == Handled(d)
         IN  /\ o.hw.itrEnable = d.hw.itrEnable /\ o.hw.status = d.hw.status
             /\ o.hw.rxPacket = d.hw.rxPacket /\ o.hw.txComplete = d.hw.txComplete
             /\ o.hw.enabled = dev.hw.enabled /\ o.usbCtrlState = d.usbCtrlState
             /\ SameConfig(d, o) /\ o.hw.addr = d.hw.addr
<1> DEFINE t == IF dev.hw.tx = "stall" THEN "stall" ELSE d.hw.tx
           g == [d.hw EXCEPT !.enabled = dev.hw.enabled, !.tx = t]
<1>1. Handled(d) = [d EXCEPT !.hw = g]
  BY DEF Handled, Sound, Devices
<1> HIDE DEF t
<1>2. /\ g.itrEnable = d.hw.itrEnable /\ g.status = d.hw.status
      /\ g.rxPacket = d.hw.rxPacket /\ g.txComplete = d.hw.txComplete
      /\ g.enabled = dev.hw.enabled /\ g.addr = d.hw.addr /\ g.eps = d.hw.eps
  BY Fields DEF Registers
<1> HIDE DEF g
<1> QED BY <1>1, <1>2, RegistersReplaced DEF SameConfig

\* In conversation the chip keeps nothing of what the stack does; what is served
\* is the state with the flag taken.
LEMMA PacketSentServed ==
  ASSUME ReadsThrough, IInv, Conversing, Live(dev, host), PacketSent
  PROVE  LET o == HandleControllerInPacket([dev EXCEPT !.hw.txComplete = FALSE])
         IN  /\ Following(dev, host) /\ Noticed
             /\ Sound(o) /\ SameButEP0(dev', o) /\ o.hw.tx = dev'.hw.tx
             /\ Seen(dev, pc)' = o
<1> DEFINE d == HandleControllerInPacket(dev)
           s == [dev EXCEPT !.hw.txComplete = FALSE]
           o == HandleControllerInPacket(s)
<1>1. /\ Sound(dev) /\ host \in Hosts /\ dev.hw.txComplete
      /\ pc = "in" /\ pc' = "ack" /\ dev' = Handled(d)
  BY DEF IInv, TypeOK, PacketSent
<1>2. Sound(d)
  BY <1>1, HandleControllerInPacketSound
<1>3. Seen(dev, pc) = dev
  BY <1>1, SeenIsDevice
<1>4. Following(dev, host) /\ Noticed /\ dev.hw.enabled
  BY <1>3 DEF Conversing, Following, Receiving
<1>5. o = [d EXCEPT !.hw.txComplete = FALSE]
  BY <1>1, MarkedBeforeSent
<1>6. o.hw.enabled /\ (dev.hw.tx = "stall" => o.hw.tx = "stall")
  BY <1>1, <1>4, SentFollows DEF Live
<1>7. Sound(o) /\ SameButEP0(d, o) /\ o.hw.tx = d.hw.tx
  <2> HIDE DEF o, d
  <2> QED BY <1>2, <1>5, Marked
<1> HIDE DEF d
<1>8. dev' = d
  BY <1>1, <1>2, <1>4, <1>6, <1>7, HandledNothing DEF SameButEP0, SameAddress
<1>9. Seen(dev, pc)' = o
  BY <1>1, <1>5, <1>8 DEF Seen
<1> HIDE DEF o
<1> QED BY <1>4, <1>7, <1>8, <1>9 DEF o

LEMMA PacketSentConverses ==
  ASSUME ReadsThrough, IInv, IInv', Conversing, PacketSent
  PROVE  Conversing'
<1> DEFINE d == HandleControllerInPacket(dev)
           o == HandleControllerInPacket([dev EXCEPT !.hw.txComplete = FALSE])
<1>1. /\ Sound(dev) /\ host \in Hosts /\ dev.hw.txComplete
      /\ pc = "in" /\ pc' = "ack" /\ dev' = Handled(d)
      /\ app' = app /\ host' = host /\ flags' = flags
  BY DEF IInv, TypeOK, PacketSent
<1>2. Sound(d) /\ Untouched(dev, d) /\ d.usbCtrlState # "dataRX"
  BY <1>1, HandleControllerInPacketSound, HandleControllerInPacketKeeps, SentState
<1>3. /\ dev'.hw.itrEnable = dev.hw.itrEnable /\ dev'.hw.status = dev.hw.status
      /\ dev'.hw.rxPacket = dev.hw.rxPacket /\ dev'.hw.enabled = dev.hw.enabled
      /\ dev'.hw.txComplete /\ dev'.usbCtrlState # "dataRX"
  BY <1>1, <1>2, HandledFrame DEF Untouched
<1> HIDE DEF d
<1>4. Attended'
  BY <1>1, <1>3 DEF Conversing, Attended, Live
<1>5. ASSUME Live(dev, host)
      PROVE  Following(Seen(dev, pc)', host') /\ Noticed'
  <2>1. Following(dev, host) /\ Noticed /\ Seen(dev, pc)' = o
    BY <1>5, PacketSentServed
  <2>2. Following(o, host)
    BY <1>1, <1>5, <2>1, SentFollows DEF Live
  <2>3. Noticed'
    BY <1>1, <1>3, <2>1 DEF Noticed
  <2> HIDE DEF o
  <2> QED BY <1>1, <2>1, <2>2, <2>3
<1> QED BY <1>1, <1>3, <1>4, <1>5 DEF Conversing, Live

LEMMA AcknowledgeSentConverses ==
  ASSUME IInv, IInv', Conversing, AcknowledgeSent
  PROVE  Conversing'
<1> DEFINE o == [dev EXCEPT !.hw.txComplete = FALSE]
           d == Seen(dev, pc)
<1>1. /\ Sound(dev) /\ Sound(dev') /\ pc = "ack" /\ pc' = "out" /\ dev' = o
      /\ app' = app /\ host' = host /\ flags' = flags
  BY DEF IInv, AcknowledgeSent
<1>2. /\ ~dev'.hw.txComplete /\ SameButEP0(dev, dev') /\ dev'.hw.tx = dev.hw.tx
      /\ dev'.hw.rx = dev.hw.rx /\ dev'.hw.rxPacket = dev.hw.rxPacket
  BY <1>1, Marked
<1>3. Attended'
  BY <1>1, <1>2 DEF Conversing, Attended, Live, SameButEP0, SameAddress
<1>4. ASSUME Live(dev, host)
      PROVE  Following(Seen(dev, pc)', host') /\ Noticed'
  <2>1. /\ SameButEP0(dev, d) /\ d.hw.tx = dev.hw.tx /\ d.hw.rx = dev.hw.rx
        /\ d.hw.rxPacket = dev.hw.rxPacket /\ ~d.hw.txComplete
        /\ d.hw.txComplete \in BOOLEAN
    <3>1. /\ SameButEP0(dev, d) /\ d.hw.tx = dev.hw.tx /\ d.hw.rx = dev.hw.rx
          /\ d.hw.rxPacket = dev.hw.rxPacket /\ Sound(d)
          /\ d.hw.txComplete = (dev.hw.txComplete /\ pc # "ack")
      BY <1>1, SeenIsDevice
    <3>2. d.hw.txComplete \in BOOLEAN
      <4> HIDE DEF d
      <4> QED BY <3>1, Fields DEF Registers
    <3> QED BY <1>1, <3>1, <3>2
  <2>2. Following(d, host) /\ Noticed
    BY <1>4 DEF Conversing
  <2> HIDE DEF d, o
  <2>3. dev'.hw.txComplete \in BOOLEAN
    BY <1>1, Fields DEF Registers
  <2>4. SamePipe(d, dev') /\ dev'.usbState = d.usbState
    BY <1>2, <2>1, <2>3 DEF SamePipe, SameButEP0, SameConfig, SameAddress
  <2>5. Following(dev', host')
    BY <1>1, <2>2, <2>4, FollowingFrame, SameTransferItself
  <2>6. Seen(dev, pc)' = dev'
    BY <1>1, SeenIsDevice
  <2>7. Noticed'
    BY <1>1, <1>2, <2>2 DEF Noticed, SameButEP0
  <2> QED BY <2>5, <2>6, <2>7
<1>5. Live(dev', host') <=> Live(dev, host)
  BY <1>1, <1>2 DEF Live, SameButEP0
<1> QED BY <1>3, <1>4, <1>5 DEF Conversing

LEMMA PacketReceivedServed ==
  ASSUME Mannerly, IInv, Conversing, PacketReceived
  PROVE  LET rx == dev.hw.rxPacket
             e  == [dev EXCEPT !.hw.rxPacket = NoPacket]
         IN  /\ Live(dev, host) /\ Following(dev, host) /\ Noticed
             /\ rx.kind \in {"setup", "out"}
             /\ rx.kind = "setup" => ~dev.hw.txComplete
             /\ \E ans \in ClassAnswers[rx.data.dir] :
                  dev' = HandleControlPacketByState(e, rx, ans)
<1> DEFINE rx == dev.hw.rxPacket
           e  == [dev EXCEPT !.hw.rxPacket = NoPacket]
<1>1. /\ Sound(dev) /\ host \in Hosts /\ pc = "out" /\ rx # NoPacket
  BY DEF IInv, TypeOK, PacketReceived
<1>2. PICK ans \in ClassAnswers[rx.data.dir] :
        dev' = Handled(HandleControlPacketByState(e, rx, ans))
  BY DEF PacketReceived
<1> DEFINE o == HandleControlPacketByState(e, rx, ans)
<1>3. Live(dev, host) /\ Noticed /\ Following(dev, host)
  <2>1. Live(dev, host) /\ Seen(dev, pc) = dev
    BY <1>1, SeenIsDevice DEF Conversing, Attended
  <2> QED BY <2>1 DEF Conversing
<1>4. Sound(e) /\ rx \in RxPackets /\ ans \in Answers
  BY <1>1, <1>2, PacketFetched, Fetched
<1>5. dev.hw.enabled /\ (rx.kind = "setup" => dev.hw.tx = "nack" /\ ~dev.hw.txComplete)
  BY <1>1, <1>3 DEF Following, Receiving, Noticed
<1>6. rx.kind \in {"setup", "out"}
  BY <1>1, <1>3, <1>4 DEF RxPackets, Following, Receiving
<1>7. Following(o, host) /\ (dev.hw.tx = "stall" => o.hw.tx = "stall")
  <2>1. CASE rx.kind = "setup"
    BY <1>1, <1>3, <1>5, <2>1, SetupFollows DEF Live
  <2>2. CASE rx.kind = "out"
    BY <1>1, <1>3, <2>2, OutFollows DEF Live
  <2> QED BY <1>6, <2>1, <2>2
<1>8. Sound(o)
  BY <1>4, HandleControlPacketByStateSound
<1> HIDE DEF o, e
<1>9. dev' = o
  BY <1>1, <1>2, <1>5, <1>7, <1>8, HandledNothing DEF o, Following, Receiving
<1> QED BY <1>2, <1>3, <1>5, <1>6, <1>9 DEF o, e

LEMMA PacketReceivedConverses ==
  ASSUME Mannerly, IInv, IInv', Conversing, PacketReceived
  PROVE  Conversing'
<1> DEFINE rx == dev.hw.rxPacket
           e  == [dev EXCEPT !.hw.rxPacket = NoPacket]
<1>1. /\ Sound(dev) /\ host \in Hosts /\ pc = "out" /\ pc' = "idle"
      /\ app' = app /\ host' = host /\ Attended
      /\ flags' = IF rx.kind = "setup" THEN flags \ {"setup"} ELSE flags
  BY DEF IInv, TypeOK, PacketReceived, Conversing
<1>2. /\ Live(dev, host) /\ Following(dev, host) /\ Noticed
      /\ rx.kind \in {"setup", "out"} /\ (rx.kind = "setup" => ~dev.hw.txComplete)
  BY PacketReceivedServed
<1>3. PICK ans \in ClassAnswers[rx.data.dir] :
        dev' = HandleControlPacketByState(e, rx, ans)
  BY PacketReceivedServed
<1>4. Untouched(e, dev') /\ Following(dev', host)
  <2>1. CASE rx.kind = "setup"
    BY <1>1, <1>2, <1>3, <2>1, SetupFollows DEF Live
  <2>2. CASE rx.kind = "out"
    BY <1>1, <1>2, <1>3, <2>2, OutFollows DEF Live
  <2> QED BY <1>2, <2>1, <2>2
<1>5. /\ e.hw.rxPacket = NoPacket /\ e.hw.txComplete = dev.hw.txComplete
      /\ e.hw.itrEnable = dev.hw.itrEnable /\ e.hw.status = dev.hw.status
  BY <1>1, PacketFetched
<1> HIDE DEF e
<1>6. /\ dev'.hw.rxPacket = NoPacket /\ dev'.hw.txComplete = dev.hw.txComplete
      /\ dev'.hw.itrEnable = dev.hw.itrEnable /\ dev'.hw.status = dev.hw.status
      /\ dev'.hw.enabled
  BY <1>4, <1>5 DEF Untouched, Following, Receiving
<1>7. Seen(dev, pc)' = dev'
  BY <1>1, SeenIsDevice DEF IInv
<1>8. Live(dev', host')
  BY <1>1, <1>2, <1>6 DEF Live
<1>9. Attended'
  BY <1>1, <1>2, <1>6, <1>8 DEF Attended, Live
<1>10. Noticed'
  <2>1. NoPacket.kind = "none"
    BY DEF NoPacket
  <2> QED BY <1>1, <1>2, <1>6, <2>1 DEF Noticed
<1> QED BY <1>1, <1>4, <1>7, <1>8, <1>9, <1>10 DEF Conversing

LEMMA NothingForEP0Converses ==
  ASSUME IInv, IInv', Conversing, NothingForEP0
  PROVE  Conversing'
<1>1. /\ dev' = dev /\ host' = host /\ app' = app /\ flags' = flags
      /\ \/ pc = "in" /\ ~dev.hw.txComplete /\ pc' = "out"
         \/ pc = "out" /\ dev.hw.rxPacket = NoPacket /\ pc' = "idle"
  BY DEF NothingForEP0
<1>2. SamePipe(dev, dev')
  BY <1>1 DEF SamePipe, SameConfig
<1>3. NoPacket.kind = "none"
  BY DEF NoPacket
<1>4. Live(dev, host) => Noticed'
  BY <1>1, <1>3 DEF Conversing, Noticed
<1> QED BY <1>1, <1>2, <1>4, BesideConverses, SameTransferItself

-----------------------------------------------------------------------------
(* The host's steps, in conversation.                                      *)

\* What a host that takes part in a transaction finds.
LEMMA ReachableConverses ==
  ASSUME IInv, Conversing, Reachable
  PROVE  LET d == Seen(dev, pc)
         IN  /\ Live(dev, host) /\ Following(d, host) /\ Noticed /\ Attended
             /\ Sound(d) /\ SameButEP0(dev, d)
             /\ d.hw.tx = dev.hw.tx /\ d.hw.rx = dev.hw.rx
             /\ d.hw.rxPacket = dev.hw.rxPacket /\ d.hw.addr = host.addr
             /\ d.hw.txComplete = (dev.hw.txComplete /\ pc # "ack")
             /\ pc # "ack" => d = dev
<1> DEFINE d == Seen(dev, pc)
<1>1. /\ Sound(d) /\ SameButEP0(dev, d)
      /\ d.hw.tx = dev.hw.tx /\ d.hw.rx = dev.hw.rx
      /\ d.hw.rxPacket = dev.hw.rxPacket
      /\ d.hw.txComplete = (dev.hw.txComplete /\ pc # "ack")
      /\ pc # "ack" => d = dev
  BY SeenIsDevice DEF IInv
<1>2. Live(dev, host) /\ Following(d, host) /\ Noticed /\ Attended
  BY DEF Conversing, Live, Reachable
<1> HIDE DEF d
<1>3. d.hw.addr = host.addr
  BY <1>1 DEF Reachable, SameButEP0, SameAddress
<1> QED BY <1>1, <1>2, <1>3 DEF d

\* A transaction at EP0 that the device follows.
LEMMA TransactionConverses ==
  ASSUME IInv', Conversing, Reachable, SameButEP0(dev, dev'), app' = app,
         host'.phase # "gone", Following(Seen(dev, pc)', host'), Noticed'
  PROVE  Conversing'
<1>1. app = "attached" /\ "reset" \notin dev'.hw.status
  BY DEF Reachable, SameButEP0, Conversing, Attended
<1>2. Attended'
  BY <1>1 DEF Reachable, SameButEP0, SameAddress, Conversing, Attended, Live
<1> QED BY <1>2 DEF Conversing

LEMMA HostSetupConverses ==
  ASSUME PromptIRQ, Patient, ReadsThrough, IInv, IInv', Conversing,
         NEW r \in Requests, HostSetup(r)
  PROVE  Conversing'
<1> DEFINE p == [kind |-> "setup", data |-> r, count |-> 8]
           k == host'
<1>1. /\ Sound(dev) /\ host \in Hosts /\ HostAsks(r) /\ Reachable
      /\ dev.hw.rxPacket = NoPacket /\ pc \notin {"ack", "out"} /\ pc' = pc
      /\ dev' = [dev EXCEPT !.hw.tx = "nack", !.hw.rx = "nack", !.hw.rxPacket = p]
      /\ flags' = flags \cup {"setup"} /\ app' = app
  BY DEF IInv, TypeOK, HostSetup, HostAsks
<1>2. k.phase = FirstPhase(r)
  BY <1>1 DEF HostAsks, Hosts
<1>3. p.kind = "setup" /\ NoPacket.kind = "none"
  BY DEF NoPacket
<1> HIDE DEF p
<1>4. /\ SameButEP0(dev, dev') /\ dev'.hw.rxPacket = p
      /\ dev'.hw.tx = "nack" /\ dev'.hw.txComplete = dev.hw.txComplete
  BY <1>1, SetupPut
<1>5. Following(dev, host) /\ Noticed /\ dev.hw.addr = host.addr
  BY <1>1, ReachableConverses DEF Reachable
<1>6. Following(dev', host')
  BY <1>1, <1>4, <1>5, AskFollows DEF p
<1>7. k.phase # "gone"
  <2>1. r.dir \in {"in", "out"}
    BY HostAssumption DEF HostAssumption, SetupPackets
  <2> QED BY <1>2, <2>1 DEF FirstPhase
<1>8. Seen(dev, pc)' = dev'
  BY <1>1, SeenIsDevice DEF IInv
<1>9. Noticed'
  BY <1>1, <1>3, <1>4, <1>5 DEF Noticed, SameButEP0
<1> QED BY <1>1, <1>4, <1>6, <1>7, <1>8, <1>9, TransactionConverses

LEMMA HostInConverses ==
  ASSUME Mannerly, ReadsThrough, ~LateAck, IInv, IInv', Conversing, HostIn
  PROVE  Conversing'
<1>1. /\ Sound(dev) /\ host \in Hosts /\ Reachable /\ pc # "ack" /\ pc' = pc
      /\ dev.hw.tx = "valid" /\ HostTakes(dev.hw.txData.len)
      /\ dev' = [dev EXCEPT !.hw.tx = "nack", !.hw.txComplete = TRUE]
      /\ flags' = flags \cup {"io"} /\ app' = app
  BY AtxmegaAssumption DEF AtxmegaAssumption, IInv, TypeOK, HostIn
<1>2. /\ SameButEP0(dev, dev') /\ dev'.hw.tx = "nack" /\ dev'.hw.txComplete
      /\ dev'.hw.rx = dev.hw.rx /\ dev'.hw.rxPacket = dev.hw.rxPacket
  BY <1>1, PacketTaken
<1>3. Following(dev, host) /\ Noticed
  BY <1>1, ReachableConverses
<1>4. Following(dev', host') /\ dev.hw.rxPacket = NoPacket
  BY <1>1, <1>2, <1>3, TakenFollows
<1>5. host'.phase # "gone"
  BY <1>1 DEF HostTakes, Acknowledged, Hosts
<1>6. Seen(dev, pc)' = dev'
  BY <1>1, SeenIsDevice DEF IInv
<1>7. Noticed'
  <2>1. NoPacket.kind = "none"
    BY DEF NoPacket
  <2> QED BY <1>1, <1>2, <1>3, <1>4, <2>1 DEF Noticed, SameButEP0
<1> QED BY <1>1, <1>2, <1>4, <1>5, <1>6, <1>7, TransactionConverses

\* The transmit half's flag is none of the receive half's business.
LEMMA SeenPut ==
  ASSUME Sound(dev), Sound(dev'), pc' = pc, SameButEP0(dev, dev'),
         dev'.hw.tx = dev.hw.tx, dev'.hw.txComplete = dev.hw.txComplete
  PROVE  LET d == Seen(dev, pc)
             o == Seen(dev', pc')
         IN  /\ SameButEP0(d, o) /\ o.hw.tx = d.hw.tx
             /\ o.hw.txComplete = d.hw.txComplete
             /\ o.hw.rxPacket = dev'.hw.rxPacket /\ o.hw.rx = dev'.hw.rx
<1> DEFINE d == Seen(dev, pc)
           o == Seen(dev', pc')
<1>1. /\ SameButEP0(dev, d) /\ d.hw.tx = dev.hw.tx
      /\ d.hw.txComplete = (dev.hw.txComplete /\ pc # "ack")
  BY SeenIsDevice
<1>2. /\ SameButEP0(dev', o) /\ o.hw.tx = dev'.hw.tx
      /\ o.hw.rxPacket = dev'.hw.rxPacket /\ o.hw.rx = dev'.hw.rx
      /\ o.hw.txComplete = (dev'.hw.txComplete /\ pc' # "ack")
  BY SeenIsDevice
<1> HIDE DEF d, o
<1>3. SameButEP0(d, o)
  BY <1>1, <1>2 DEF SameButEP0, SameConfig, SameAddress
<1> QED BY <1>1, <1>2, <1>3 DEF d, o

LEMMA HostStalledConverses ==
  ASSUME IInv, IInv', Conversing, HostStalled
  PROVE  Conversing'
<1> DEFINE d == Seen(dev, pc)
<1>1. /\ host \in Hosts /\ Reachable /\ dev' = dev /\ app' = app /\ pc' = pc
      /\ dev.hw.tx = "stall" /\ host.phase \in {"dataIn", "statusIn"}
      /\ HostRefused /\ flags' = flags
  BY DEF IInv, TypeOK, HostStalled
<1>2. /\ Following(d, host) /\ Noticed /\ Sound(d) /\ d.hw.tx = "stall"
  BY <1>1, ReachableConverses
<1>3. host'.phase # "gone"
  BY <1>1 DEF HostRefused, Hosts
<1>4. SameButEP0(dev, dev') /\ SameButEP0(d, d)
  BY <1>1 DEF SameButEP0, SameConfig, SameAddress
<1> HIDE DEF d
<1>5. Following(d, host')
  BY <1>1, <1>2, <1>4, RefusedFollows
<1>6. Seen(dev, pc)' = d
  BY <1>1 DEF Seen, d
<1>7. Noticed'
  BY <1>1, <1>2 DEF Noticed
<1> QED BY <1>1, <1>3, <1>4, <1>5, <1>6, <1>7, TransactionConverses

LEMMA HostOutDataConverses ==
  ASSUME Conventional, IInv, IInv', Conversing, HostOutData
  PROVE  Conversing'
<1> DEFINE count == Least(host.req.length - host.got, epBufferSize)
           d == Seen(dev, pc)
           o == Seen(dev', pc')
<1>1. /\ Sound(dev) /\ Sound(dev') /\ host \in Hosts /\ Reachable /\ app' = app
      /\ dev.hw.rxPacket = NoPacket /\ host.phase = "dataOut" /\ pc' = pc
      /\ HostSends(count) /\ flags' = flags \cup {"io"}
  BY DEF IInv, TypeOK, HostOutData, CanReceive
<1>2. PICK data \in Payloads :
        dev' = [dev EXCEPT !.hw.rx = "nack",
                  !.hw.rxPacket = [kind |-> "out", data |-> data, count |-> count]]
  BY DEF HostOutData
<1> DEFINE p == [kind |-> "out", data |-> data, count |-> count]
<1>3. p.kind = "out" /\ Inert(data) /\ Mannerly
  BY DEF Conventional
<1>4. host'.phase \in {"dataOut", "statusIn"}
  BY <1>1 DEF HostSends, Hosts
<1> HIDE DEF count
<1>5. /\ SameButEP0(dev, dev') /\ dev'.hw.rxPacket = p
      /\ dev'.hw.tx = dev.hw.tx /\ dev'.hw.txComplete = dev.hw.txComplete
  <2>1. dev' = [dev EXCEPT !.hw.rx = "nack", !.hw.rxPacket = p]
    BY <1>2
  <2> HIDE DEF p
  <2> QED BY <1>1, <2>1, PacketPut
<1>6. /\ Following(d, host) /\ Noticed /\ Sound(d) /\ d.hw.rxPacket = NoPacket
  BY <1>1, ReachableConverses
<1>7. /\ SameButEP0(d, o) /\ o.hw.tx = d.hw.tx /\ o.hw.rxPacket = p
      /\ o.hw.txComplete = d.hw.txComplete
  BY <1>1, <1>5, SeenPut
<1> HIDE DEF d, o
<1>8. Following(o, host')
  BY <1>1, <1>3, <1>6, <1>7, DataSentFollows DEF count
<1>9. Noticed'
  BY <1>1, <1>3, <1>5, <1>6 DEF Noticed, SameButEP0
<1> QED BY <1>1, <1>4, <1>5, <1>8, <1>9, TransactionConverses DEF o

LEMMA HostOutStatusConverses ==
  ASSUME Mannerly, ReadsThrough, IInv, IInv', Conversing, HostOutStatus
  PROVE  Conversing'
<1> DEFINE d == Seen(dev, pc)
           o == Seen(dev', pc')
           p == [kind |-> "out", data |-> ZeroPacket, count |-> 0]
<1>1. /\ Sound(dev) /\ Sound(dev') /\ host \in Hosts /\ Reachable /\ app' = app
      /\ dev.hw.rxPacket = NoPacket /\ pc' = pc /\ host' = Acknowledged
      /\ \/ host.phase = "statusOut"
         \/ host.phase = "dataIn" /\ host.req \in Abandonable
      /\ dev' = [dev EXCEPT !.hw.rx = "nack", !.hw.rxPacket = p]
      /\ flags' = flags \cup {"io"}
  BY DEF IInv, TypeOK, HostOutStatus, CanReceive
<1>2. p.kind = "out"
  OBVIOUS
<1>3. host'.phase = "idle"
  BY <1>1 DEF Acknowledged, Hosts
<1>4. /\ SameButEP0(dev, dev') /\ dev'.hw.rxPacket = p
      /\ dev'.hw.tx = dev.hw.tx /\ dev'.hw.txComplete = dev.hw.txComplete
  <2> HIDE DEF p
  <2> QED BY <1>1, PacketPut
<1>5. /\ Following(d, host) /\ Noticed /\ Sound(d) /\ d.hw.rxPacket = NoPacket
  BY <1>1, ReachableConverses
<1>6. SameButEP0(d, o) /\ o.hw.rxPacket = p
  BY <1>1, <1>4, SeenPut
<1> HIDE DEF d, o
<1>7. Following(o, host')
  BY <1>1, <1>5, <1>6, StatusSentFollows
<1>8. Noticed'
  BY <1>1, <1>2, <1>4, <1>5 DEF Noticed, SameButEP0
<1> QED BY <1>1, <1>3, <1>4, <1>7, <1>8, TransactionConverses DEF o

\* A bus reset, or the end of a session, comes with nothing of a write.
LEMMA Uncut ==
  ASSUME IInv, ~RudeCuts, MayCut
  PROVE  dev.hw.rxPacket = NoPacket /\ dev.usbCtrlState # "dataRX"
BY DEF MayCut

LEMMA HostResetConverses ==
  ASSUME ~RudeCuts, IInv, Conversing, HostReset
  PROVE  Conversing'
<1> DEFINE s == dev.hw.status \cup {"reset"}
<1>1. /\ Sound(dev) /\ app = "attached" /\ app' = app /\ HostFound
      /\ dev.hw.rxPacket = NoPacket /\ dev.usbCtrlState # "dataRX"
      /\ dev' = [dev EXCEPT !.hw.status = s]
  BY Uncut DEF IInv, HostReset
<1> HIDE DEF s
<1>2. SamePipe(dev, dev') /\ dev'.hw.status = s /\ dev'.hw.itrEnable = dev.hw.itrEnable
  BY <1>1, FlagRaised
<1>3. host'.phase = "idle" /\ host'.addr = 0 /\ host'.cfg = 0
  BY <1>1 DEF HostFound, Lost
<1>4. "reset" \in dev'.hw.status
  BY <1>2 DEF s
<1> QED BY <1>1, <1>2, <1>3, <1>4 DEF Conversing, Attended, Live, SamePipe

LEMMA HostBesideEP0 ==
  ASSUME IInv, HostSuspend \/ HostResume \/ HostUserTraffic
  PROVE  /\ SameTransfer(host, host')
         /\ SamePipe(dev, dev') /\ dev'.usbState = dev.usbState
         /\ dev'.hw.itrEnable = dev.hw.itrEnable
         /\ "reset" \in dev'.hw.status <=> "reset" \in dev.hw.status
<1>1. Sound(dev) /\ host \in Hosts
  BY DEF IInv, TypeOK
<1>2. SameTransfer(host, host')
  <2>1. ASSUME NEW v
        PROVE  SameTransfer(host, [host EXCEPT !.suspended = v])
    BY <1>1 DEF SameTransfer, Hosts
  <2> QED BY <2>1, SameTransferItself DEF HostSuspend, HostResume, HostUserTraffic
<1>3. /\ SamePipe(dev, dev') /\ dev'.usbState = dev.usbState
      /\ dev'.hw.itrEnable = dev.hw.itrEnable
      /\ "reset" \in dev'.hw.status <=> "reset" \in dev.hw.status
  <2>1. CASE HostSuspend \/ HostResume
    <3>1. PICK e \in {"suspend", "wakeup"} :
            dev' = [dev EXCEPT !.hw.status = dev.hw.status \cup {e}]
      BY <2>1 DEF HostSuspend, HostResume
    <3> DEFINE s == dev.hw.status \cup {e}
    <3>2. "reset" \in s <=> "reset" \in dev.hw.status
      OBVIOUS
    <3>3. dev' = [dev EXCEPT !.hw.status = s]
      BY <3>1
    <3>4. dev'.usbState = dev.usbState
      BY <1>1, <3>3 DEF Sound, Devices
    <3> HIDE DEF s
    <3> QED BY <1>1, <3>2, <3>3, <3>4, FlagRaised
  <2>2. CASE HostUserTraffic
    <3> DEFINE g == [dev.hw EXCEPT !.epComplete = TRUE]
    <3>1. dev' = [dev EXCEPT !.hw = g]
      BY <2>2 DEF HostUserTraffic
    <3>2. /\ g.rxPacket = dev.hw.rxPacket /\ g.eps = dev.hw.eps
          /\ g.addr = dev.hw.addr /\ g.enabled = dev.hw.enabled
          /\ g.tx = dev.hw.tx /\ g.rx = dev.hw.rx
          /\ g.txData = dev.hw.txData /\ g.txComplete = dev.hw.txComplete
          /\ g.itrEnable = dev.hw.itrEnable /\ g.status = dev.hw.status
      BY <1>1, Fields DEF Registers
    <3> HIDE DEF g
    <3> QED BY <1>1, <3>1, <3>2, RegistersReplaced DEF SamePipe, SameConfig
  <2> QED BY <2>1, <2>2
<1> QED BY <1>2, <1>3

LEMMA HostBesideConverses ==
  ASSUME IInv, IInv', Conversing, HostSuspend \/ HostResume \/ HostUserTraffic
  PROVE  Conversing'
<1>1. app' = app /\ pc' = pc /\ (flags' = flags \/ flags' = flags \cup {"io"})
  BY DEF HostSuspend, HostResume, HostUserTraffic
<1>2. /\ SameTransfer(host, host')
      /\ SamePipe(dev, dev') /\ dev'.usbState = dev.usbState
      /\ dev'.hw.itrEnable = dev.hw.itrEnable
      /\ "reset" \in dev'.hw.status <=> "reset" \in dev.hw.status
  BY HostBesideEP0
<1>3. Live(dev, host) => Noticed'
  BY <1>1, <1>2 DEF Conversing, Noticed, SamePipe
<1> QED BY <1>1, <1>2, <1>3, BesideConverses

-----------------------------------------------------------------------------
(* The application's steps, and the theorem.                               *)

LEMMA ApplicationConverses ==
  ASSUME ~RudeCuts, IInv, Conversing, Attach \/ DetachBus \/ DetachStack
  PROVE  Conversing'
<1>1. Sound(dev)
  BY DEF IInv
<1>2. /\ host'.phase = "gone" /\ dev'.hw.rxPacket = dev.hw.rxPacket
      /\ dev'.usbCtrlState = dev.usbCtrlState
      /\ app' = "attached" => dev'.hw.enabled /\ "reset" \in dev'.hw.itrEnable
      /\ dev.hw.rxPacket = NoPacket /\ dev.usbCtrlState # "dataRX"
  <2>1. CASE Attach
    <3>1. host' = host /\ host.phase = "gone"
      BY <2>1 DEF Attach, Conversing, Attended
    <3>2. /\ dev'.hw.rxPacket = dev.hw.rxPacket /\ dev'.hw.enabled
          /\ dev'.usbCtrlState = dev.usbCtrlState
          /\ "reset" \in dev'.hw.itrEnable
      <4> DEFINE t == BusEvents
      <4>1. "reset" \in t
        BY DEF BusEvents
      <4>2. dev' = [dev EXCEPT !.hw.itrEnable = t, !.hw.addr = 0,
                               !.activeConfig = 0, !.hw.enabled = TRUE]
        BY <2>1 DEF Attach
      <4> HIDE DEF t
      <4> QED BY <1>1, <4>1, <4>2 DEF Sound, Devices, Registers
    <3> QED BY <3>1, <3>2 DEF Conversing, Attended, Live
  <2>2. CASE DetachBus
    <3>1. host' = Lost /\ app' = "detaching" /\ MayCut
      BY <2>2 DEF DetachBus
    <3>2. /\ dev'.hw.rxPacket = dev.hw.rxPacket
          /\ dev'.usbCtrlState = dev.usbCtrlState
      BY <1>1, <2>2 DEF DetachBus, Sound, Devices, Registers
    <3> QED BY <3>1, <3>2, Uncut DEF Lost
  <2>3. CASE DetachStack
    <3>1. host' = host /\ host.phase = "gone" /\ app' = "detached"
      BY <2>3 DEF DetachStack, Conversing, Attended
    <3>2. /\ dev'.hw.rxPacket = dev.hw.rxPacket
          /\ dev'.usbCtrlState = dev.usbCtrlState
      BY <1>1, <2>3 DEF DetachStack, DeinitHandlers, Sound, Devices, Registers
    <3> QED BY <3>1, <3>2 DEF Conversing, Attended, Live
  <2> QED BY <2>1, <2>2, <2>3
<1> QED BY <1>2 DEF Conversing, Attended, Live

LEMMA NextConversing ==
  ASSUME PromptIRQ, Conventional, Patient, ReadsThrough, ~RudeCuts, ~LateAck,
         IInv, IInv', Conversing, [Next]_vars
  PROVE  Conversing'
<1>1. CASE UNCHANGED vars
  BY <1>1 DEF vars, Conversing, Attended, Noticed, Live, Seen
<1>2. CASE Attach \/ DetachBus \/ DetachStack
  BY <1>2, ApplicationConverses
<1>3. CASE Interrupt
  BY <1>3, InterruptResetConverses, InterruptEventsConverses, PacketSentConverses,
     AcknowledgeSentConverses, PacketReceivedConverses, NothingForEP0Converses
     DEF Interrupt, Conventional
<1>4. CASE Host
  BY <1>4, HostSetupConverses, HostInConverses, HostStalledConverses,
     HostOutDataConverses, HostOutStatusConverses, HostResetConverses,
     HostBesideConverses DEF Host, Conventional
<1> QED BY <1>1, <1>2, <1>3, <1>4 DEF Next

LEMMA InitConversing == Init => Conversing
<1> SUFFICES ASSUME Init PROVE Conversing
  OBVIOUS
<1>1. /\ host.phase = "gone" /\ app = "detached" /\ dev.hw.rxPacket = NoPacket
      /\ dev.usbCtrlState = "idle"
  BY DEF Init, Lost, PowerOn
<1> QED BY <1>1 DEF Conversing, Attended, Live

LEMMA ConversationHolds ==
  ASSUME PromptIRQ, Conventional, Patient, ReadsThrough, ~RudeCuts, ~LateAck
  PROVE  Spec => [](IInv /\ Conversing)
<1>1. Init => IInv /\ Conversing
  BY InitInvariant, InitConversing
<1>2. IInv /\ Conversing /\ [Next]_vars => (IInv /\ Conversing)'
  BY NextInvariant, NextConversing
<1> QED BY <1>1, <1>2, PTL DEF Spec

\* With every event served, the pipe is as the host takes it to be.
LEMMA SettledFollows ==
  ASSUME IInv, Conversing, Settled, host.phase # "gone"
  PROVE  /\ Following(dev, host) /\ dev.hw.rxPacket = NoPacket
         /\ ~dev.hw.txComplete /\ "reset" \notin dev.hw.status
<1>1. "reset" \notin dev.hw.status
  BY DEF Settled, Raised, Conversing, Attended
<1>2. Following(Seen(dev, pc), host) /\ Noticed
  BY <1>1 DEF Conversing, Live
<1>3. Seen(dev, pc) = dev
  BY SeenIsDevice DEF IInv, Settled
<1>4. flags = {} /\ pc = "idle"
  BY <1>2 DEF Noticed, Settled, Raised
<1>5. dev.hw.rxPacket.kind \in {"none", "setup", "out"}
  BY Fields DEF IInv, Registers, RxPackets
<1>6. dev.hw.rxPacket.kind = "none" /\ ~dev.hw.txComplete
  BY <1>2, <1>4, <1>5 DEF Noticed
<1> QED BY <1>1, <1>2, <1>3, <1>6 DEF Following, Receiving

\* With an interrupt that keeps up (PromptIRQ, LateAck), a host and drivers
\* that keep to the conventions (Conventional, Patient, ReadsThrough) and no
\* write cut off (RudeCuts): once every event has been served, host and device
\* agree on the address, also when the next request has overtaken the service
\* of the last one (src/atxmega256a3u/core.cxx:377).
THEOREM AddressesStayAgreed ==
  ASSUME PromptIRQ, Conventional, Patient, ReadsThrough, ~RudeCuts, ~LateAck
  PROVE  Spec => []AddressAgreement
<1>1. IInv /\ Conversing => AddressAgreement
  <2> SUFFICES ASSUME IInv, Conversing, Settled, host.phase = "idle"
               PROVE  dev.hw.enabled /\ dev.hw.addr = host.addr
    BY DEF AddressAgreement, AddressesAgree
  <2>1. /\ Following(dev, host) /\ dev.hw.rxPacket = NoPacket
        /\ ~dev.hw.txComplete /\ NoPacket.kind = "none"
    BY SettledFollows DEF NoPacket
  <2> QED BY <2>1 DEF Following, Addressed, Receiving, Ready
<1> QED BY <1>1, ConversationHolds, PTL

\* With an interrupt that keeps up (PromptIRQ, LateAck), a host and drivers
\* that keep to the conventions (Conventional, Patient, ReadsThrough) and no
\* write cut off (RudeCuts): a configuration the host has seen acknowledged is
\* active, its endpoints enabled and its handlers initialised.
THEOREM ConfigsStayAgreed ==
  ASSUME PromptIRQ, Conventional, Patient, ReadsThrough, ~RudeCuts, ~LateAck
  PROVE  Spec => []ConfigAgreement
<1>1. IInv /\ Conversing => ConfigAgreement
  <2> SUFFICES ASSUME IInv, Conversing, Settled, host.phase = "idle", host.cfg # 0
               PROVE  /\ dev.activeConfig = host.cfg /\ dev.hw.eps = host.cfg
                      /\ host.cfg \in dev.handlersUp
    BY DEF ConfigAgreement, ConfigsAgree
  <2>1. Following(dev, host)
    BY SettledFollows
  <2> QED BY <2>1 DEF Following, ConfiguredTo, Chosen, Up
<1> QED BY <1>1, ConversationHolds, PTL

\* With an interrupt that keeps up (PromptIRQ, LateAck), a host and drivers
\* that keep to the conventions (Conventional, Patient, ReadsThrough) and no
\* write cut off (RudeCuts): a transfer is never left with EP0 unable to take
\* its next packet: of the two sets of flags the handler clears apart, neither
\* loses an event (src/atxmega256a3u/core.cxx:373).
THEOREM TransfersStayOpen ==
  ASSUME PromptIRQ, Conventional, Patient, ReadsThrough, ~RudeCuts, ~LateAck
  PROVE  Spec => []NoDeadTransfer
<1>1. IInv /\ Conversing => NoDeadTransfer
  <2> SUFFICES ASSUME IInv, Conversing, Settled, Reachable PROVE EP0Open
    BY DEF NoDeadTransfer, EP0Open
  <2>1. host.phase # "gone" /\ host \in Hosts
    BY DEF Reachable, IInv, TypeOK
  <2>2. /\ Following(dev, host) /\ dev.hw.rxPacket = NoPacket
        /\ ~dev.hw.txComplete /\ NoPacket.kind = "none"
    BY <2>1, SettledFollows DEF NoPacket
  <2>3. dev.hw.rx = "valid"
    BY <2>2 DEF Following, Receiving
  <2>4. host.phase = "dataIn" => dev.hw.tx \in {"valid", "stall"}
    BY <2>2 DEF Following, Transferring, Reading, Refused, Offered, Sent
  <2>5. host.phase = "statusIn" => dev.hw.tx \in {"valid", "stall"}
    BY <2>2 DEF Following, Transferring, Finishing, Refused, Acking
  <2> QED BY <2>1, <2>3, <2>4, <2>5 DEF EP0Open, Hosts
<1> QED BY <1>1, ConversationHolds, PTL

\* A step that takes the device from the host's view leaves it no address.
LEMMA LostWithoutAddress ==
  ASSUME IInv, [Next]_vars, host.phase # "gone",
         dev'.hw.addr \notin {0, dev.hw.addr}
  PROVE  host'.phase # "gone"
<1>1. Sound(dev)
  BY DEF IInv
<1>2. CASE UNCHANGED vars \/ Interrupt \/ Attach \/ DetachStack
  BY <1>2 DEF vars, Interrupt, Attach, DetachStack, InterruptReset,
              InterruptEvents, PacketSent, AcknowledgeSent, PacketReceived,
              NothingForEP0
<1>3. CASE DetachBus
  BY <1>1, <1>3 DEF DetachBus, Sound, Devices, Registers
<1>4. CASE \E r \in Requests : HostSetup(r)
  <2>1. PICK p : dev' = [dev EXCEPT !.hw.tx = "nack", !.hw.rx = "nack",
                                    !.hw.rxPacket = p]
    BY <1>4 DEF HostSetup
  <2>2. SameButEP0(dev, dev')
    BY <1>1, <2>1, SetupPut
  <2> QED BY <2>2 DEF SameButEP0, SameAddress
<1>5. CASE HostIn
  <2>1. dev' = [dev EXCEPT !.hw.tx = "nack", !.hw.txComplete = TRUE]
    BY <1>5 DEF HostIn
  <2>2. SameButEP0(dev, dev')
    BY <1>1, <2>1, PacketTaken
  <2> QED BY <2>2 DEF SameButEP0, SameAddress
<1>6. CASE HostOutData \/ HostOutStatus
  <2>1. PICK p : dev' = [dev EXCEPT !.hw.rx = "nack", !.hw.rxPacket = p]
    BY <1>6 DEF HostOutData, HostOutStatus
  <2>2. SameButEP0(dev, dev')
    BY <1>1, <2>1, PacketPut
  <2> QED BY <2>2 DEF SameButEP0, SameAddress
<1>7. CASE HostStalled \/ HostReset \/ HostSuspend \/ HostResume \/ HostUserTraffic
  <2>1. \/ dev' = dev
        \/ \E s : dev' = [dev EXCEPT !.hw.status = s]
        \/ host' = host
    BY <1>7 DEF HostStalled, HostReset, HostSuspend, HostResume, HostUserTraffic
  <2>2. ASSUME NEW s, dev' = [dev EXCEPT !.hw.status = s]
        PROVE  dev'.hw.addr = dev.hw.addr
    BY <1>1, <2>2, FlagRaised DEF SamePipe
  <2> QED BY <2>1, <2>2
<1> QED BY <1>2, <1>3, <1>4, <1>5, <1>6, <1>7 DEF Next, Host

\* With an interrupt that keeps up (PromptIRQ, LateAck), a host and drivers
\* that keep to the conventions (Conventional, Patient, ReadsThrough) and no
\* write cut off (RudeCuts): the device takes the address of a SET_ADDRESS only
\* once the host has seen it acknowledged, although the acknowledgement is
\* served when the next request may already be there (src/device.cxx:30).
THEOREM AddressFollowsStatus ==
  ASSUME PromptIRQ, Conventional, Patient, ReadsThrough, ~RudeCuts, ~LateAck
  PROVE  Spec => AddressAfterStatus
<1>1. ASSUME IInv, IInv', Conversing', [Next]_vars, host.phase # "gone",
             dev'.hw.addr \notin {0, dev.hw.addr}
      PROVE  host'.addr = dev'.hw.addr \/ "reset" \in dev'.hw.status
  <2> DEFINE o == Seen(dev, pc)'
  <2>1. host'.phase # "gone"
    BY <1>1, LostWithoutAddress
  <2>2. Live(dev', host') => Following(o, host')
    BY <1>1 DEF Conversing
  <2>3. o.hw.addr = dev'.hw.addr
    BY <1>1, SeenIsDevice DEF IInv, SameButEP0, SameAddress
  <2> HIDE DEF o
  <2> QED BY <1>1, <2>1, <2>2, <2>3 DEF Live, Following, Addressed
<1>2. IInv /\ Conversing /\ [Next]_vars /\ (IInv /\ Conversing)' =>
        [host.phase # "gone" /\ dev'.hw.addr \notin {0, dev.hw.addr} =>
           host'.addr = dev'.hw.addr \/ "reset" \in dev'.hw.status]_dev
  BY <1>1
<1> QED BY <1>2, ConversationHolds, PTL DEF Spec, AddressAfterStatus

-----------------------------------------------------------------------------
(* The driver implements the contract of a control pipe.                   *)

LEMMA RefinesInit == Init => Contract!Init
BY DEF Init, PowerOn, Lost, ZeroPacket, Offer, Running, Resetting, AddressOf,
       Contract!Init, Contract!Nothing

\* While the device counts as reset EP0 serves nobody.
LEMMA ServedUnseen ==
  ASSUME Conversing, ~Live(dev, host), host' = host, dev'.hw.status = dev.hw.status
  PROVE  UNCHANGED Contract!vars
<1>1. /\ host.phase \in {"idle", "gone"}
      /\ Resetting(dev, host) /\ Resetting(dev', host')
  BY DEF Conversing, Attended, Live, Resetting
<1> QED BY <1>1, UnseenShows, SameTransferItself

\* The steps beside EP0 are none of the contract's; a bus reset and a detached
\* bus are its Reset.
LEMMA BesideRefines ==
  ASSUME IInv, Conversing,
         \/ InterruptReset \/ InterruptEvents \/ NothingForEP0
         \/ HostSuspend \/ HostResume \/ HostUserTraffic
  PROVE  UNCHANGED Contract!vars
<1>1. CASE InterruptReset
  <2>1. /\ Sound(dev) /\ dev' = Reset(Entered) /\ host' = host
        /\ "reset" \in dev.hw.status
    BY <1>1 DEF IInv, InterruptReset
  <2>2. dev'.hw.addr = 0 /\ dev'.hw.eps = 0
    BY <2>1, EnteredFrame, ResetDone
  <2>3. host.phase \in {"idle", "gone"} /\ Resetting(dev, host)
    BY <2>1 DEF Conversing, Attended, Resetting
  <2>4. /\ Offer(dev', host) = <<"nothing">> /\ Running(dev', host) = 0
        /\ AddressOf(dev', host) = 0
    BY <2>2, <2>3 DEF Offer, Running, AddressOf
  <2> QED BY <2>1, <2>3, <2>4, Unseen, SameTransferItself, ContractStutters
<1>2. CASE InterruptEvents
  <2>1. host' = host
    BY <1>2 DEF InterruptEvents
  <2> QED BY <1>2, <2>1, EventsBesideEP0, SameTransferItself, ViewKept DEF Resetting
<1>3. CASE NothingForEP0
  BY <1>3, SameTransferItself, ContractStutters DEF NothingForEP0
<1>4. CASE HostSuspend \/ HostResume \/ HostUserTraffic
  BY <1>4, HostBesideEP0, ViewKept DEF Resetting, SameTransfer
<1> QED BY <1>1, <1>2, <1>3, <1>4

LEMMA ApplicationRefines ==
  ASSUME IInv, Conversing, Attach \/ DetachBus \/ DetachStack \/ HostReset
  PROVE  [Contract!Next]_(Contract!vars)
<1>1. CASE Attach \/ DetachStack
  <2>1. host.phase = "gone" /\ host' = host
    BY <1>1 DEF Attach, DetachStack, Conversing, Attended
  <2>2. Resetting(dev, host) /\ Resetting(dev', host')
    BY <2>1 DEF Resetting
  <2> QED BY <2>1, <2>2, UnseenShows, SameTransferItself
<1>2. CASE DetachBus
  <2>1. host' = Lost /\ Resetting(dev', host')
    BY <1>2 DEF DetachBus, Lost, Resetting
  <2> QED BY <2>1, ContractResets DEF Contract!Next, Contract!Host
<1>3. CASE HostReset
  <2>1. "reset" \in dev'.hw.status /\ HostFound
    BY <1>3 DEF HostReset, IInv, Sound, Devices, Registers
  <2>2. Resetting(dev', host')
    BY <2>1 DEF Resetting
  <2> QED BY <2>1, <2>2, ContractResets DEF Contract!Next, Contract!Host
<1> QED BY <1>1, <1>2, <1>3

LEMMA HostRefines ==
  ASSUME Mannerly, ReadsThrough, ~LateAck, IInv, Conversing,
         \/ \E r \in Requests : HostSetup(r)
         \/ HostIn \/ HostStalled \/ HostOutData \/ HostOutStatus
  PROVE  Contract!Next
<1> DEFINE d == Seen(dev, pc)
<1>1. Sound(dev) /\ host \in Hosts
  BY DEF IInv, TypeOK
<1>2. ASSUME Reachable
      PROVE  /\ Following(d, host) /\ Sound(d)
             /\ d.hw.tx = dev.hw.tx /\ d.hw.rxPacket = dev.hw.rxPacket
             /\ pc # "ack" => d = dev
  BY <1>2, ReachableConverses
<1>3. ASSUME NEW r \in Requests, HostSetup(r) PROVE Contract!Next
  <2> DEFINE p == [kind |-> "setup", data |-> r, count |-> 8]
  <2>1. /\ HostAsks(r)
        /\ dev' = [dev EXCEPT !.hw.tx = "nack", !.hw.rx = "nack", !.hw.rxPacket = p]
    BY <1>3 DEF HostSetup
  <2> HIDE DEF p
  <2>2. SameButEP0(dev, dev') /\ dev'.hw.tx = "nack"
    BY <1>1, <2>1, SetupPut
  <2> QED BY <1>1, <2>1, <2>2, AskShows
<1>4. CASE HostIn
  <2>1. /\ Reachable /\ pc # "ack" /\ dev.hw.tx = "valid"
        /\ HostTakes(dev.hw.txData.len)
        /\ dev' = [dev EXCEPT !.hw.tx = "nack", !.hw.txComplete = TRUE]
    BY <1>4, AtxmegaAssumption DEF AtxmegaAssumption, HostIn
  <2>2. /\ SameButEP0(dev, dev') /\ dev'.hw.tx = "nack" /\ dev'.hw.txComplete
        /\ dev'.hw.rx = dev.hw.rx /\ dev'.hw.rxPacket = dev.hw.rxPacket
    BY <1>1, <2>1, PacketTaken
  <2>3. host.phase = "statusIn" => dev.hw.txData.len = 0
    BY <1>1, <1>2, <2>1, <2>2, TakenFollows
  <2> QED BY <1>1, <2>1, <2>2, <2>3, TakeShows
<1>5. CASE HostStalled
  <2>1. SameButEP0(dev, dev')
    BY <1>5 DEF HostStalled, SameButEP0, SameConfig, SameAddress
  <2> QED BY <1>1, <1>5, <2>1, RefusalShows DEF HostStalled
<1>6. CASE HostOutData
  <2> DEFINE count == Least(host.req.length - host.got, epBufferSize)
  <2>1. /\ Reachable /\ dev.hw.rxPacket = NoPacket /\ host.phase = "dataOut"
        /\ HostSends(count)
    BY <1>6 DEF HostOutData, CanReceive
  <2>2. PICK p : dev' = [dev EXCEPT !.hw.rx = "nack", !.hw.rxPacket = p]
    BY <1>6 DEF HostOutData
  <2>3. SameButEP0(dev, dev') /\ dev'.hw.tx = dev.hw.tx
    BY <1>1, <2>2, PacketPut
  <2> HIDE DEF d
  <2>4. dev.hw.tx \in {"stall", "nack"}
    BY <1>2, <2>1 DEF Following, Transferring, Writing, Refused, Armed, NoPacket
  <2> QED BY <1>1, <2>1, <2>3, <2>4, SendShows
<1>7. CASE HostOutStatus
  <2>1. /\ Reachable /\ dev.hw.rxPacket = NoPacket /\ host' = Acknowledged
        /\ \/ host.phase = "statusOut"
           \/ host.phase = "dataIn" /\ host.req \in Abandonable
    BY <1>7 DEF HostOutStatus, CanReceive
  <2>2. PICK p : dev' = [dev EXCEPT !.hw.rx = "nack", !.hw.rxPacket = p]
    BY <1>7 DEF HostOutStatus
  <2>3. SameButEP0(dev, dev')
    BY <1>1, <2>2, PacketPut
  <2>4. ~IsSetAddress(host.req)
    <3>1. host.req \in Requests /\ host.req.length # 0
      BY <1>2, <2>1 DEF Following, Transferring
    <3> QED BY <3>1, DataStageRequest
  <2> QED BY <1>1, <2>1, <2>3, <2>4, StatusShows
<1> QED BY <1>3, <1>4, <1>5, <1>6, <1>7

LEMMA PacketReceivedRefines ==
  ASSUME Mannerly, IInv, Conversing, PacketReceived
  PROVE  [Contract!Next]_(Contract!vars)
<1> DEFINE rx == dev.hw.rxPacket
           e  == [dev EXCEPT !.hw.rxPacket = NoPacket]
<1>1. /\ Sound(dev) /\ host \in Hosts /\ host' = host
  BY DEF IInv, TypeOK, PacketReceived
<1>2. /\ Live(dev, host) /\ Following(dev, host)
      /\ rx.kind \in {"setup", "out"} /\ (rx.kind = "setup" => ~dev.hw.txComplete)
  BY PacketReceivedServed
<1>3. PICK ans \in ClassAnswers[rx.data.dir] :
        dev' = HandleControlPacketByState(e, rx, ans)
  BY PacketReceivedServed
<1>4. e.hw.status = dev.hw.status /\ SameConfig(dev, e) /\ e.hw.addr = dev.hw.addr
  BY <1>1, PacketFetched DEF SameAddress
<1>5. CASE rx.kind = "setup"
  <2>1. /\ Untouched(e, dev') /\ Outcome(host.req, "nack", dev')
        /\ dev'.hw.addr = dev.hw.addr
        /\ ~IsSetConfiguration(host.req) => Running(dev', host) = Running(dev, host)
        /\ IsSetConfiguration(host.req) =>
             IF dev'.hw.tx = "valid" THEN Running(dev', host) = host.req.value % 256
             ELSE Running(dev', host) \in {Running(dev, host), 0}
    BY <1>1, <1>2, <1>3, <1>5, SetupFollows DEF Live
  <2>2. /\ host.req \in Requests /\ host.phase = FirstPhase(host.req)
        /\ host.got = 0 /\ dev.hw.tx = "nack" /\ WellFormed(host.req)
    BY <1>2, <1>5 DEF Following, Receiving, Mannerly
  <2> HIDE DEF e
  <2>3. AddressOf(dev', host) = AddressOf(dev, host)
    BY <1>4, <2>1 DEF AddressOf, Resetting, Untouched
  <2> QED BY <1>1, <2>1, <2>2, <2>3, RequestShows
<1>6. CASE rx.kind = "out"
  <2>1. /\ Untouched(e, dev') /\ SameConfig(e, dev') /\ SameAddress(e, dev')
        /\ \/ Offer(dev', host) = Offer(dev, host)
           \/ /\ host.phase = "statusIn" /\ ~IsSetConfiguration(host.req)
              /\ Offer(dev, host) = Contract!Nothing
              /\ Offer(dev', host) = Contract!Ack
    BY <1>1, <1>2, <1>3, <1>6, OutFollows
  <2> HIDE DEF e
  <2>2. /\ AddressOf(dev', host) = AddressOf(dev, host)
        /\ Running(dev', host) = Running(dev, host)
    BY <1>4, <2>1 DEF AddressOf, Running, Resetting, Untouched, SameConfig, SameAddress
  <2>3. CASE Offer(dev', host) = Offer(dev, host)
    BY <1>1, <2>2, <2>3, AddressShows
  <2>4. CASE Offer(dev', host) # Offer(dev, host)
    BY <1>1, <2>1, <2>2, <2>4, WriteShows
  <2> QED BY <2>3, <2>4
<1> QED BY <1>2, <1>5, <1>6

LEMMA PacketSentRefines ==
  ASSUME ReadsThrough, IInv, Conversing, PacketSent
  PROVE  [Contract!Next]_(Contract!vars)
<1> DEFINE s == [dev EXCEPT !.hw.txComplete = FALSE]
           d == HandleControllerInPacket(dev)
           o == HandleControllerInPacket(s)
<1>1. /\ Sound(dev) /\ host \in Hosts /\ host' = host /\ dev.hw.txComplete
      /\ dev' = Handled(d)
  BY DEF IInv, TypeOK, PacketSent
<1>2. CASE ~Live(dev, host)
  <2>1. dev'.hw.status = dev.hw.status
    BY <1>1, HandleControllerInPacketSound, HandleControllerInPacketKeeps, HandledFrame
       DEF Untouched
  <2> QED BY <1>1, <1>2, <2>1, ServedUnseen
<1>3. CASE Live(dev, host)
  <2>1. /\ Following(dev, host) /\ Sound(o) /\ SameButEP0(dev', o)
        /\ o.hw.tx = dev'.hw.tx
    BY <1>3, PacketSentServed
  <2>2. /\ Untouched(s, o) /\ SameConfig(s, o)
        /\ o.hw.addr \in {dev.hw.addr, host.addr}
        /\ IF host.phase = "dataIn" /\ dev.hw.rxPacket.kind # "setup"
           THEN /\ host.req.length # 0 /\ host.req \in Requests /\ Sent(dev, host)
                /\ o.hw.addr = dev.hw.addr /\ Offered(o, host)
           ELSE Offer(o, host) = Offer(dev, host)
    BY <1>1, <1>3, <2>1, SentFollows DEF Live
  <2>3. SameConfig(dev, s) /\ s.hw.status = dev.hw.status
    BY <1>1, Marked DEF SameButEP0
  <2> HIDE DEF s, o
  <2>4. /\ SameConfig(dev, dev') /\ dev'.hw.status = dev.hw.status
        /\ dev'.hw.addr = o.hw.addr /\ dev'.hw.txData = o.hw.txData
    BY <2>1, <2>2, <2>3 DEF SameButEP0, SameConfig, SameAddress, Untouched
  <2>5. /\ Running(dev', host) = Running(dev, host)
        /\ AddressOf(dev', host) \in {AddressOf(dev, host), host.addr}
        /\ o.hw.addr = dev.hw.addr => AddressOf(dev', host) = AddressOf(dev, host)
    BY <1>3, <2>2, <2>4 DEF Running, AddressOf, Resetting, SameConfig, Live
  <2>6. CASE host.phase = "dataIn" /\ dev.hw.rxPacket.kind # "setup"
    <3>1. Offer(dev, host) = Contract!Nothing
      BY <2>2, <2>6, NothingOffered DEF Sent
    <3> QED BY <1>1, <2>1, <2>2, <2>4, <2>5, <2>6, <3>1, NextDataShows
  <2>7. CASE ~(host.phase = "dataIn" /\ dev.hw.rxPacket.kind # "setup")
    <3>1. Offer(dev', host) = Offer(o, host)
      BY <2>1, <2>4 DEF Offer
    <3> QED BY <1>1, <2>2, <2>5, <2>7, <3>1, AddressShows
  <2> QED BY <2>6, <2>7
<1> QED BY <1>2, <1>3

LEMMA AcknowledgeSentRefines ==
  ASSUME IInv, AcknowledgeSent
  PROVE  UNCHANGED Contract!vars
<1>1. /\ Sound(dev) /\ host' = host
      /\ dev' = [dev EXCEPT !.hw.txComplete = FALSE]
  BY DEF IInv, AcknowledgeSent
<1>2. SameButEP0(dev, dev') /\ dev'.hw.tx = dev.hw.tx
  BY <1>1, Marked
<1> QED BY <1>1, <1>2, FlagShowsNothing

LEMMA StepRefines ==
  ASSUME Conventional, Patient, ReadsThrough, ~LateAck, IInv, Conversing, [Next]_vars
  PROVE  [Contract!Next]_(Contract!vars)
<1>1. CASE Attach \/ DetachBus \/ DetachStack \/ HostReset
  BY <1>1, ApplicationRefines
<1>2. CASE \/ InterruptReset \/ InterruptEvents \/ NothingForEP0
           \/ HostSuspend \/ HostResume \/ HostUserTraffic
  BY <1>2, BesideRefines
<1>3. CASE PacketReceived \/ PacketSent \/ AcknowledgeSent
  BY <1>3, PacketReceivedRefines, PacketSentRefines, AcknowledgeSentRefines
     DEF Conventional
<1>4. CASE \/ \E r \in Requests : HostSetup(r)
           \/ HostIn \/ HostStalled \/ HostOutData \/ HostOutStatus
  BY <1>4, HostRefines DEF Conventional
<1>5. CASE UNCHANGED vars
  BY <1>5, SameTransferItself, ContractStutters DEF vars
<1> QED BY <1>1, <1>2, <1>3, <1>4, <1>5 DEF Next, Interrupt, Host

\* With an interrupt that keeps up (PromptIRQ, LateAck), a host and drivers
\* that keep to the conventions (Conventional, Patient, ReadsThrough) and no
\* write cut off (RudeCuts): the stack on this chip is a control pipe as
\* completeSetupPacket() documents it (src/device.cxx:260), although every
\* packet may be served late and after the next request has come
\* (src/atxmega256a3u/core.cxx:377): the data of a transfer are the bytes asked
\* for, and the address and the configuration change only as the host's
\* requests say.
THEOREM ControlTransferImplemented ==
  ASSUME PromptIRQ, Conventional, Patient, ReadsThrough, ~RudeCuts, ~LateAck
  PROVE  Spec => ImplementsControlTransfer
<1>1. IInv /\ Conversing /\ [Next]_vars => [Contract!Next]_(Contract!vars)
  BY StepRefines
<1> QED BY <1>1, RefinesInit, ConversationHolds, PTL
        DEF Spec, ImplementsControlTransfer, Contract!Spec

\* With an interrupt that keeps up (PromptIRQ, LateAck), a host and drivers
\* that keep to the conventions (Conventional, Patient, ReadsThrough) and no
\* write cut off (RudeCuts): a host's buffer is never overrun on this chip
\* either: no transfer moves more bytes than it was asked for, and each packet
\* continues the last (src/device.cxx:320).
THEOREM HostNeverOverrun ==
  ASSUME PromptIRQ, Conventional, Patient, ReadsThrough, ~RudeCuts, ~LateAck
  PROVE  Spec => []Contract!WithinRequest
<1> QED BY ControlTransferImplemented, PipeNeverOverruns, PTL

=============================================================================
