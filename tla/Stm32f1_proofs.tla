---------------------------- MODULE Stm32f1_proofs ----------------------------
(***************************************************************************)
(* For every build, every set of requests and answers and every            *)
(* interleaving of the bus, the interrupt and the application: the state   *)
(* has its type, and a user endpoint that can interrupt has its handlers.  *)
(*                                                                         *)
(* For every host and every set of drivers that keep to the conventions    *)
(* (Conventional), and an interrupt that keeps up with the host: EP0 is    *)
(* always where the host takes it to be (Conversing); so address,          *)
(* configuration, and the bytes of every transfer are what the host takes  *)
(* them to be, and the stack is the control pipe of ControlTransfer.       *)
(***************************************************************************)
EXTENDS Stm32f1, UsbHost_proofs

IInv == TypeOK /\ Sound(dev) /\ WithinWrite

-----------------------------------------------------------------------------
(* The application and the interrupt.                                      *)

LEMMA InitInvariant == Init => IInv
BY PowerOnSound, LostTyped DEF Init, IInv, TypeOK, Sound, WithinWrite, Lost,
     AppStates

LEMMA SetSuspended ==
  ASSUME NEW d, Sound(d), NEW v \in BOOLEAN
  PROVE  Sound([d EXCEPT !.usbSuspended = v])
BY DEF Sound, Registry, Devices

LEMMA WakeupSound ==
  ASSUME NEW d, Sound(d)
  PROVE  Sound(Wakeup(d))
<1> DEFINE e  == [d EXCEPT !.usbSuspended = FALSE]
           g1 == [d.hw EXCEPT !.forceSuspend = FALSE]
           g2 == [g1 EXCEPT !.itrEnable =
                    (d.hw.itrEnable \ {"wakeup"}) \cup {"suspend"}]
<1>1. Sound(e) /\ e.hw = d.hw
  BY SetSuspended DEF Sound, Devices
<1>2. NoMore(d.hw, g1) /\ g1.itrEnable = d.hw.itrEnable
  <2>1. d.hw \in Registers
    BY Fields
  <2>2. NoMore(d.hw, g1)
    BY <2>1, NoMoreItself, SetForceSuspend
  <2> QED BY <2>1, <2>2 DEF Registers
<1> HIDE DEF g1
<1>3. NoMore(d.hw, g2)
  <2>1. (d.hw.itrEnable \ {"wakeup"}) \cup {"suspend"} \in SUBSET Interrupts
    BY Fields DEF Registers, Interrupts
  <2> QED BY <1>2, <2>1, SetItrEnable
<1> HIDE DEF e
<1>4. Sound([e EXCEPT !.hw = g2])
  BY <1>1, <1>3, SetHw
<1>5. Wakeup(d) = [e EXCEPT !.hw = g2]
  BY DEF Wakeup, e, g1
<1> QED BY <1>4, <1>5

LEMMA SuspendSound ==
  ASSUME NEW d, Sound(d)
  PROVE  Sound(Suspend(d))
<1> DEFINE e  == [d EXCEPT !.usbSuspended = TRUE]
           g1 == [d.hw EXCEPT !.forceSuspend = TRUE]
           g2 == [g1 EXCEPT !.itrEnable =
                    (d.hw.itrEnable \ {"suspend"}) \cup {"wakeup"}]
<1>1. Sound(e) /\ e.hw = d.hw
  BY SetSuspended DEF Sound, Devices
<1>2. NoMore(d.hw, g1) /\ g1.itrEnable = d.hw.itrEnable
  <2>1. d.hw \in Registers
    BY Fields
  <2>2. NoMore(d.hw, g1)
    BY <2>1, NoMoreItself, SetForceSuspend
  <2> QED BY <2>1, <2>2 DEF Registers
<1> HIDE DEF g1
<1>3. NoMore(d.hw, g2)
  <2>1. (d.hw.itrEnable \ {"suspend"}) \cup {"wakeup"} \in SUBSET Interrupts
    BY Fields DEF Registers, Interrupts
  <2> QED BY <1>2, <2>1, SetItrEnable
<1> HIDE DEF e
<1>4. Sound([e EXCEPT !.hw = g2])
  BY <1>1, <1>3, SetHw
<1>5. Suspend(d) = [e EXCEPT !.hw = g2]
  BY DEF Suspend, e, g1
<1> QED BY <1>4, <1>5

LEMMA ResetSound ==
  ASSUME NEW d, Sound(d)
  PROVE  Sound(Reset(d))
<1> DEFINE r  == ResetEPs(d, "all")
           e1 == [r EXCEPT !.usbState = "waiting"]
           e2 == [e1 EXCEPT !.activeConfig = 0]
           g1 == [r.hw EXCEPT !.tx = "nack"]
           g2 == [g1 EXCEPT !.rx = "valid"]
           g3 == [g2 EXCEPT !.addr = 0]
           g4 == [g3 EXCEPT !.enabled = TRUE]
           g5 == [g4 EXCEPT !.itrEnable =
                    r.hw.itrEnable \cup {"sof", "ctr", "wakeup"}]
<1>1. Sound(r) /\ r.hw.eps = 0
  BY ResetEPsSound
<1> HIDE DEF r
<1>2. Sound(e1) /\ Quiet(e1) /\ e1.hw = r.hw
  <2>1. Sound(e1)
    BY <1>1, SetUsbState DEF DeviceStates
  <2>2. e1.hw = r.hw
    BY <1>1 DEF Sound, Devices
  <2> QED BY <1>1, <2>1, <2>2 DEF Quiet
<1> HIDE DEF e1
<1>3. Sound(e2) /\ e2.hw = r.hw
  <2>1. 0 \in 0..configsCount
    BY BuildOptions DEF BuildOptions
  <2> QED BY <1>2, <2>1, SetActiveConfig
<1>4. NoMore(r.hw, g2)
  BY <1>1, Fields, NoMoreItself, SetTx, SetRx
<1> HIDE DEF g2
<1>5. NoMore(r.hw, g4)
  <2>1. 0 \in 0..127
    OBVIOUS
  <2>2. NoMore(r.hw, g3)
    BY <1>4, <2>1, SetAddr
  <2> HIDE DEF g3
  <2> QED BY <2>2, SetEnabled
<1>6. g4.eps = 0
  BY <1>1, <1>5 DEF NoMore
<1> HIDE DEF g4
<1>7. NoMore(r.hw, g5)
  <2>1. r.hw.itrEnable \cup {"sof", "ctr", "wakeup"} \in SUBSET Interrupts
    BY <1>1, Fields DEF Registers, Interrupts
  <2> QED BY <1>5, <1>6, <2>1, SetItrEnable
<1> HIDE DEF g5, e2
<1>8. Sound([e2 EXCEPT !.hw = g5])
  BY <1>3, <1>7, SetHw
<1>9. Reset(d) = [e2 EXCEPT !.hw = g5]
  BY DEF Reset, r, e1, e2, g1, g2, g3, g4, g5
<1> QED BY <1>8, <1>9

LEMMA EnteredSound ==
  ASSUME Sound(dev)
  PROVE  Sound(Entered)
<1> DEFINE read == [dev EXCEPT !.hw.status = {}]
           p1   == [read EXCEPT !.usbState = "powered"]
           g    == [read.hw EXCEPT !.itrEnable = read.hw.itrEnable \cup {"suspend"}]
           p2   == [p1 EXCEPT !.hw = g]
<1>1. Sound(read)
  <2>1. NoMore(dev.hw, [dev.hw EXCEPT !.status = {}])
    BY Fields, NoMoreItself, SetStatus
  <2> QED BY <2>1, SetHw
<1> HIDE DEF read
<1>2. Sound(p1) /\ p1.hw = read.hw
  <2>1. Sound(p1)
    BY <1>1, SetUsbState DEF DeviceStates
  <2>2. p1.hw = read.hw
    BY <1>1 DEF Sound, Devices
  <2> QED BY <2>1, <2>2
<1>3. NoMore(read.hw, g)
  <2>1. read.hw.itrEnable \cup {"suspend"} \in SUBSET Interrupts
    BY <1>1, Fields DEF Registers, Interrupts
  <2> QED BY <1>1, <2>1, Fields, NoMoreItself, SetItrEnable
<1> HIDE DEF g, p1
<1>4. Sound(p2)
  BY <1>2, <1>3, SetHw
<1>5. p2 = [read EXCEPT !.usbState = "powered",
                        !.hw.itrEnable = @ \cup {"suspend"}]
  BY DEF g, p1
<1> HIDE DEF p2
<1>6. Sound(Wakeup(read)) /\ Sound(Wakeup(p2))
  BY <1>1, <1>4, WakeupSound
<1> QED BY <1>1, <1>4, <1>5, <1>6 DEF Entered, read

\* The steps of the interrupt handler; none of them is the host's.
LEMMA InterruptStep ==
  ASSUME IInv, Interrupt
  PROVE  IInv'
<1>1. Sound(dev)
  BY DEF IInv
<1>2. host' = host /\ app' = app
  BY DEF Interrupt, InterruptSuspended, InterruptReset, InterruptEvents,
     InterruptSuspend, ProcessEP0Out, ProcessEP0In, NothingForEP0,
     ProcessUserEndpoint
<1>3. pc' \in {"idle", "suspend", "suspendRx", "ep0rx", "ep0tx", "ep1"}
  BY DEF Interrupt, InterruptSuspended, InterruptReset, InterruptEvents,
     InterruptSuspend, ProcessEP0Out, ProcessEP0In, NothingForEP0,
     ProcessUserEndpoint, IInv, TypeOK, AppStates
<1>4. Sound(dev')
  <2>1. CASE InterruptSuspended
    BY <1>1, <2>1, EnteredSound DEF InterruptSuspended
  <2>2. CASE InterruptReset
    BY <1>1, <2>2, EnteredSound, ResetSound DEF InterruptReset
  <2>3. CASE InterruptEvents
    BY <1>1, <2>3, EnteredSound DEF InterruptEvents
  <2>8. CASE InterruptSuspend
    <3> DEFINE d == Suspend(dev)
               status == d.hw.status \cup
                           (IF "reset" \in d.hw.status THEN {"wakeup"} ELSE {})
    <3>1. Sound(d)
      BY <1>1, SuspendSound
    <3> HIDE DEF d
    <3>2. status \in SUBSET Interrupts
      BY <3>1, Fields DEF Registers, Interrupts
    <3> HIDE DEF status
    <3>3. NoMore(d.hw, [d.hw EXCEPT !.status = status])
      BY <3>1, <3>2, Fields, NoMoreItself, SetStatus
    <3>4. Sound([d EXCEPT !.hw.status = status])
      BY <3>1, <3>3, SetHw
    <3>5. dev' = [d EXCEPT !.hw.status = status]
      BY <2>8 DEF InterruptSuspend, d, status
    <3> QED BY <3>4, <3>5
  <2>4. CASE ProcessEP0Out
    <3> DEFINE rx == dev.hw.rxPacket
               d  == [dev EXCEPT !.hw.rxPacket = NoPacket]
    <3>1. rx \in RxPackets /\ Sound(d) /\ ClassAnswers[rx.data.dir] \subseteq Answers
      BY <1>1, Fetched
    <3>2. PICK ans \in ClassAnswers[rx.data.dir] :
            dev' = HandleControlPacket(d, rx, ans)
      BY <2>4 DEF ProcessEP0Out
    <3> HIDE DEF d, rx
    <3> QED BY <3>1, <3>2, HandleControlPacketSound
  <2>5. CASE ProcessEP0In
    <3>1. NoMore(dev.hw, [dev.hw EXCEPT !.txComplete = FALSE])
      BY <1>1, Fields, NoMoreItself, SetTxComplete
    <3>2. Sound([dev EXCEPT !.hw.txComplete = FALSE])
      BY <1>1, <3>1, SetHw
    <3> DEFINE sent == HandleControllerInPacket(
                         [dev EXCEPT !.hw.txComplete = FALSE])
    <3>3. Sound(sent)
      BY <3>2, HandleControllerInPacketSound
    <3> HIDE DEF sent
    <3>4. PICK data \in StillReads(sent) :
            dev' = [sent EXCEPT !.hw.rxPacket.data = data]
      BY <2>5 DEF ProcessEP0In, sent
    <3> DEFINE packet == [sent.hw.rxPacket EXCEPT !.data = data]
    <3>5. packet \in RxPackets
      <4>1. sent.hw.rxPacket \in RxPackets
        BY <3>3, Fields DEF Registers
      <4>2. data \in SetupPackets
        BY <3>4, <4>1, HostAssumption DEF StillReads, HostAssumption, RxPackets
      <4> QED BY <4>1, <4>2 DEF RxPackets
    <3> HIDE DEF packet
    <3>6. NoMore(sent.hw, [sent.hw EXCEPT !.rxPacket = packet])
      BY <3>3, <3>5, Fields, NoMoreItself, SetRxPacket
    <3>7. Sound([sent EXCEPT !.hw = [sent.hw EXCEPT !.rxPacket = packet]])
      BY <3>3, <3>6, SetHw
    <3>8. dev' = [sent EXCEPT !.hw = [sent.hw EXCEPT !.rxPacket = packet]]
      BY <3>4 DEF packet
    <3> QED BY <3>7, <3>8
  <2>6. CASE NothingForEP0
    BY <1>1, <2>6 DEF NothingForEP0
  <2>7. CASE ProcessUserEndpoint
    <3>1. NoMore(dev.hw, [dev.hw EXCEPT !.epComplete = FALSE])
      BY <1>1, Fields, NoMoreItself, SetEpComplete
    <3>2. Sound([dev EXCEPT !.hw.epComplete = FALSE])
      BY <1>1, <3>1, SetHw
    <3> QED BY <1>1, <2>7, <3>2 DEF ProcessUserEndpoint
  <2> QED BY <2>1, <2>2, <2>3, <2>4, <2>5, <2>6, <2>7, <2>8 DEF Interrupt
<1>5. dev' \in Devices
  BY <1>4 DEF Sound
<1> QED BY <1>2, <1>3, <1>4, <1>5 DEF IInv, TypeOK, WithinWrite, AppStates

LEMMA AttachStep ==
  ASSUME IInv, Attach
  PROVE  IInv'
<1> DEFINE g1 == [dev.hw EXCEPT !.itrEnable = {"reset"}]
           g2 == [g1 EXCEPT !.status = {}]
           e1 == [dev EXCEPT !.hw = g2]
           e2 == [e1 EXCEPT !.activeConfig = 0]
<1>1. Sound(dev)
  BY DEF IInv
<1>2. NoMore(dev.hw, g2) /\ g2.itrEnable = {"reset"}
  <2>1. NoMore(dev.hw, g1) /\ g1.itrEnable = {"reset"}
    <3>1. {"reset"} \in SUBSET Interrupts
      BY DEF Interrupts
    <3>2. NoMore(dev.hw, g1)
      BY <1>1, <3>1, Fields, NoMoreItself, SetItrEnable
    <3>3. g1.itrEnable = {"reset"}
      BY <1>1, Fields DEF Registers
    <3> QED BY <3>2, <3>3
  <2> HIDE DEF g1
  <2>2. NoMore(dev.hw, g2)
    BY <2>1, SetStatus
  <2>3. g2.itrEnable = {"reset"}
    BY <2>1 DEF NoMore, Registers
  <2> QED BY <2>2, <2>3
<1> HIDE DEF g2
<1>3. Sound(e1) /\ e1.hw = g2
  <2>1. Sound(e1)
    BY <1>1, <1>2, SetHw
  <2>2. e1.hw = g2
    BY <1>1 DEF Sound, Devices
  <2> QED BY <2>1, <2>2
<1> HIDE DEF e1
<1>4. Sound(e2)
  <2>1. Quiet(e1) /\ 0 \in 0..configsCount
    BY <1>2, <1>3, BuildOptions DEF BuildOptions, Quiet
  <2> QED BY <1>3, <2>1, SetActiveConfig
<1>5. dev' = Address(e2, 0)
  BY DEF Attach, e1, g1, g2
<1> HIDE DEF e2
<1>6. Sound(dev')
  BY <1>4, <1>5, AddressSound, Words
<1> QED BY <1>6 DEF IInv, TypeOK, Attach, Sound, WithinWrite, AppStates

LEMMA DetachBusStep ==
  ASSUME IInv, DetachBus
  PROVE  IInv'
<1> DEFINE g1 == [dev.hw EXCEPT !.addr = 0]
           g2 == [g1 EXCEPT !.enabled = FALSE]
<1>1. Sound(dev)
  BY DEF IInv
<1>2. NoMore(dev.hw, g2)
  <2>1. 0 \in 0..127
    OBVIOUS
  <2>2. NoMore(dev.hw, g1)
    BY <1>1, <2>1, Fields, NoMoreItself, SetAddr
  <2> HIDE DEF g1
  <2> QED BY <2>2, SetEnabled
<1>3. Sound([dev EXCEPT !.hw = g2])
  BY <1>1, <1>2, SetHw
<1>4. Sound(dev')
  BY <1>3 DEF DetachBus
<1> QED BY <1>4, LostTyped DEF IInv, TypeOK, DetachBus, Sound, WithinWrite,
     Lost, AppStates

LEMMA DetachStackStep ==
  ASSUME IInv, DetachStack
  PROVE  IInv'
<1> DEFINE e0 == DeinitHandlers(dev)
           g  == [dev.hw EXCEPT !.itrEnable = {}]
           e1 == [dev EXCEPT !.hw = g]
           e2 == DeinitHandlers(e1)
           e3 == [e2 EXCEPT !.activeConfig = 0]
<1>1. Sound(dev)
  BY DEF IInv
<1>2. NoMore(dev.hw, g) /\ g.itrEnable = {}
  <2>1. NoMore(dev.hw, g)
    BY <1>1, Fields, NoMoreItself, SetItrEnable
  <2>2. g.itrEnable = {}
    BY <1>1, Fields DEF Registers
  <2> QED BY <2>1, <2>2
<1> HIDE DEF g
<1>3. Sound(e1) /\ Quiet(e1)
  <2>1. Sound(e1)
    BY <1>1, <1>2, SetHw
  <2>2. e1.hw = g
    BY <1>1 DEF Sound, Devices
  <2> QED BY <1>2, <2>1, <2>2 DEF Quiet
<1>4. Sound(e3)
  <2>1. 0 \in 0..configsCount
    BY BuildOptions DEF BuildOptions
  <2> HIDE DEF e1
  <2>2. Sound(e2) /\ Quiet(e2)
    BY <1>3, DeinitHandlersSound
  <2> HIDE DEF e2
  <2> QED BY <2>1, <2>2, SetActiveConfig
<1>5. dev' = e3
  BY <1>1 DEF DetachStack, DeinitHandlers, g, Sound, Devices
<1>6. Sound(dev')
  BY <1>4, <1>5
<1> QED BY <1>6 DEF IInv, TypeOK, DetachStack, Sound, WithinWrite, AppStates

-----------------------------------------------------------------------------
(* The host and the bus.                                                   *)

LEMMA HostSetupStep ==
  ASSUME IInv, NEW r \in Requests, HostSetup(r)
  PROVE  IInv'
<1>1. /\ host' \in Hosts /\ WithinWrite'
      /\ [kind |-> "setup", data |-> r, count |-> 8] \in RxPackets
  BY AsksTyped DEF IInv, TypeOK, HostSetup, AppStates
<1>2. Sound(dev')
  BY <1>1, Delivered DEF HostSetup, IInv
<1> QED BY <1>1, <1>2 DEF IInv, TypeOK, HostSetup, Sound, AppStates

LEMMA HostInStep ==
  ASSUME IInv, HostIn
  PROVE  IInv'
<1>1. Sound(dev') /\ dev.hw.txData.len \in Word
  BY Taken DEF HostIn, IInv
<1>2. host' \in Hosts /\ WithinWrite'
  BY <1>1, TakesTyped DEF HostIn, IInv, TypeOK, AppStates
<1> QED BY <1>1, <1>2 DEF IInv, TypeOK, HostIn, Sound, AppStates

LEMMA HostOutDataStep ==
  ASSUME IInv, HostOutData
  PROVE  IInv'
<1> DEFINE count == Least(host.req.length - host.got, epBufferSize)
<1>1. count \in Word /\ host' \in Hosts /\ WithinWrite'
  BY SendsTyped DEF HostOutData, IInv, TypeOK, AppStates
<1>2. PICK data \in Payloads :
        dev' = [dev EXCEPT !.hw.rx = "nack",
          !.hw.rxPacket = [kind |-> "out", data |-> data, count |-> count]]
  BY DEF HostOutData
<1>3. [kind |-> "out", data |-> data, count |-> count] \in RxPackets
  BY <1>1, HostAssumption DEF HostAssumption, RxPackets
<1>4. Sound(dev')
  <2> HIDE DEF count
  <2> QED BY <1>2, <1>3, Delivered DEF IInv
<1> QED BY <1>1, <1>4 DEF IInv, TypeOK, HostOutData, Sound, AppStates

LEMMA HostOutStatusStep ==
  ASSUME IInv, HostOutStatus
  PROVE  IInv'
<1>1. Sound(dev')
  <2>1. [kind |-> "out", data |-> ZeroPacket, count |-> 0] \in RxPackets
    BY PacketsTyped, Words DEF RxPackets
  <2> QED BY <2>1, Delivered DEF HostOutStatus, IInv
<1>2. host' \in Hosts /\ host'.phase = "idle"
  BY AcknowledgedTyped DEF HostOutStatus, IInv, TypeOK, AppStates
<1> QED BY <1>1, <1>2 DEF IInv, TypeOK, HostOutStatus, Sound, WithinWrite, AppStates

LEMMA HostResetStep ==
  ASSUME IInv, HostReset
  PROVE  IInv'
<1> DEFINE flags == dev.hw.status \cup {"reset"} \cup
                      (IF dev.hw.forceSuspend THEN {"wakeup"} ELSE {})
           g1 == [dev.hw EXCEPT !.addr = 0]
           g2 == [g1 EXCEPT !.enabled = FALSE]
           g3 == [g2 EXCEPT !.tx = "disabled"]
           g4 == [g3 EXCEPT !.rx = "disabled"]
           g5 == [g4 EXCEPT !.eps = 0]
           g6 == [g5 EXCEPT !.status = flags]
<1>1. Sound(dev)
  BY DEF IInv
<1>2. flags \in SUBSET Interrupts
  BY <1>1, Fields DEF Registers, Interrupts
<1>3. NoMore(dev.hw, g2)
  <2>1. 0 \in 0..127
    OBVIOUS
  <2>2. NoMore(dev.hw, g1)
    BY <1>1, <2>1, Fields, NoMoreItself, SetAddr
  <2> HIDE DEF g1
  <2> QED BY <2>2, SetEnabled
<1>4. NoMore(dev.hw, g4)
  <2> HIDE DEF g2
  <2>1. NoMore(dev.hw, g3)
    BY <1>3, SetTx
  <2> HIDE DEF g3
  <2> QED BY <2>1, SetRx
<1>5. NoMore(dev.hw, g6)
  <2> HIDE DEF g4, flags
  <2>1. NoMore(dev.hw, g5)
    BY <1>4, DisableEps DEF NoMore
  <2> HIDE DEF g5
  <2> QED BY <1>2, <2>1, SetStatus
<1>6. dev' = [dev EXCEPT !.hw = g6]
  <2>1. /\ g1.status = dev.hw.status /\ g1.forceSuspend = dev.hw.forceSuspend
    BY <1>1, Fields DEF Registers
  <2> QED BY DEF HostReset, HostFound
<1> HIDE DEF g6
<1>7. Sound(dev')
  BY <1>1, <1>5, <1>6, SetHw
<1>8. host' \in Hosts /\ WithinWrite'
  BY FoundTyped DEF HostReset
<1> QED BY <1>7, <1>8 DEF IInv, TypeOK, HostReset, Sound, AppStates

\* Events the peripheral flags, and what only the host knows of.
LEMMA HostOtherStep ==
  ASSUME IInv, HostStalled \/ HostSuspend \/ HostResume \/ BusWakeup
                 \/ HostUserTraffic
  PROVE  IInv'
<1>1. Sound(dev) /\ host \in Hosts /\ WithinWrite
  BY DEF IInv, TypeOK, AppStates
<1>2. Sound(dev')
  <2>1. CASE HostSuspend \/ BusWakeup
    BY <1>1, <2>1, Flagged DEF HostSuspend, BusWakeup, Interrupts
  <2>2. CASE HostUserTraffic
    BY <1>1, <2>2, Reached DEF HostUserTraffic
  <2>3. CASE HostStalled \/ HostResume
    BY <1>1, <2>3 DEF HostStalled, HostResume
  <2> QED BY <2>1, <2>2, <2>3
<1>3. host' \in Hosts /\ WithinWrite'
  <2>1. CASE HostStalled
    BY <1>1, <2>1, RefusedTyped DEF HostStalled
  <2>2. CASE HostSuspend \/ HostResume
    BY <1>1, <2>2, SuspendsTyped DEF HostSuspend, HostResume
  <2>3. CASE BusWakeup \/ HostUserTraffic
    BY <1>1, <2>3 DEF BusWakeup, HostUserTraffic, WithinWrite
  <2> QED BY <2>1, <2>2, <2>3
<1>4. pc' = pc /\ app' = app
  BY DEF HostStalled, HostSuspend, HostResume, BusWakeup, HostUserTraffic
<1> QED BY <1>2, <1>3, <1>4 DEF IInv, TypeOK, Sound, AppStates

-----------------------------------------------------------------------------

LEMMA NextInvariant ==
  ASSUME IInv, [Next]_vars
  PROVE  IInv'
<1>1. CASE Attach
  BY <1>1, AttachStep
<1>2. CASE DetachBus
  BY <1>2, DetachBusStep
<1>3. CASE DetachStack
  BY <1>3, DetachStackStep
<1>4. CASE Interrupt
  BY <1>4, InterruptStep
<1>5. CASE Host
  BY <1>5, HostSetupStep, HostInStep, HostOutDataStep, HostOutStatusStep,
     HostResetStep, HostOtherStep DEF Host
<1>6. CASE UNCHANGED vars
  BY <1>6 DEF vars, IInv, TypeOK, WithinWrite, AppStates
<1> QED BY <1>1, <1>2, <1>3, <1>4, <1>5, <1>6 DEF Next

\* The type invariant, and what it needs to be inductive, hold in every
\* reachable state (src/stm32f1/core.cxx:444).
THEOREM Invariance == Spec => []IInv
<1>1. Init => IInv
  BY InitInvariant
<1>2. IInv /\ [Next]_vars => IInv'
  BY NextInvariant
<1> QED BY <1>1, <1>2, PTL DEF Spec

\* The stack's globals, EP0's status and the registers keep their types,
\* whatever requests arrive and however they are cut short: no index of
\* src/device.cxx leaves its table, no counter wraps.
THEOREM TypeCorrect == Spec => []TypeOK
<1>1. IInv => TypeOK
  BY DEF IInv
<1> QED BY <1>1, Invariance, PTL

\* While a user endpoint can interrupt, the row of the registry its handler is
\* looked up in (src/stm32f1/core.cxx:411) is that of the configuration it
\* belongs to, and initialised.
THEOREM HandlersInPlace == Spec => []EndpointsHaveHandlers
<1>1. IInv => EndpointsHaveHandlers
  BY DEF IInv, Sound, Registry, EndpointsHaveHandlers
<1> QED BY <1>1, Invariance, PTL

-----------------------------------------------------------------------------
(* The transfer under way.                                                 *)
(*                                                                         *)
(* With a prompt interrupt and a conventional host and drivers, EP0 is     *)
(* always where the host takes it to be.  The invariant says so of every   *)
(* state between a served bus reset and the next one, whatever the         *)
(* interrupt handler is in the middle of.                                  *)

\* Whoever the host has found is attached, and will notice a bus reset even
\* asleep; until it has, the host asks nothing of it.
Attended ==
  /\ host.phase # "gone" => app = "attached"
  /\ app = "attached" => "reset" \in dev.hw.itrEnable
  /\ dev.usbSuspended = dev.hw.forceSuspend
  /\ "reset" \in dev.hw.status /\ dev.usbSuspended => "wakeup" \in dev.hw.status
  /\ "reset" \in dev.hw.status /\ host.phase # "gone" =>
       host.phase = "idle" /\ host.addr = 0 /\ host.cfg = 0

\* EP0 receives, or holds what the host has sent: the setup packet of a request
\* on which nothing has been done, or a packet of a write or of a status stage.
Listening(d, h) ==
  LET rx == d.hw.rxPacket
  IN  /\ "ctr" \in d.hw.itrEnable /\ d.hw.enabled
      /\ rx.kind = "none" => d.hw.rx = "valid" /\ rx = NoPacket
      /\ rx.kind = "setup" =>
           /\ rx.data = h.req /\ rx.count = 8 /\ h.req \in Requests
           /\ h.phase = FirstPhase(h.req) /\ h.got = 0
           /\ ~d.hw.txComplete /\ d.hw.tx = "nack"
      /\ rx.kind = "out" =>
           /\ Inert(rx.data) /\ h.phase \in {"idle", "dataOut", "statusIn"}
           /\ h.phase = "idle" => d.usbCtrlState # "dataRX"

\* The acknowledgement of SET_ADDRESS has been sent and not yet served.
Completing(d) == d.hw.txComplete /\ IsSetAddress(d.packet)

\* The device has the address the host has given it, but while it waits to take
\* it; a callback that another request has stranded will find that request.
Addressing(d, h) ==
  /\ IsSetAddress(h.req) /\ h.phase # "idle" => h.addr = 0
  /\ IsSetAddress(h.req) /\ Ready(d, h) => d.usbState = "addressing"
  /\ d.usbState # "addressing" => d.hw.addr = h.addr
  /\ d.usbState = "addressing" =>
       /\ d.hw.addr = 0 /\ d.setupCallback = "address" /\ d.activeConfig = 0
       /\ d.hw.rxPacket.kind # "setup" /\ h.phase # "idle" => d.packet = h.req
       /\ d.hw.rxPacket.kind = "out" => ~IsSetAddress(d.packet)
       /\ IF Completing(d)
          THEN /\ d.hw.rxPacket.kind = "none" /\ h.phase = "idle"
               /\ d.usbCtrlState # "dataTX"
               /\ h.addr = d.packet.value /\ h.addr < 128
          ELSE h.addr = 0

\* So it is with the configuration; one without an address has none.
Configuring(d, h) ==
  /\ h.addr = 0 => d.activeConfig = 0
  /\ h.cfg # 0 => Chosen(d) /\ d.activeConfig = h.cfg
  /\ IsSetConfiguration(h.req) /\ h.phase # "idle" => h.cfg = 0 /\ h.addr # 0
  /\ IsSetConfiguration(h.req) /\ Ready(d, h) /\ h.req.value # 0 =>
       Chosen(d) /\ d.activeConfig = h.req.value

InStep(d, h) ==
  /\ Listening(d, h) /\ Transferring(d, h) /\ Addressing(d, h) /\ Configuring(d, h)

Conversing == Attended /\ (Live(dev, host) => InStep(dev, host))

-----------------------------------------------------------------------------
(* Steps that do not touch EP0.                                            *)

LEMMA PipeFrame ==
  ASSUME NEW d, NEW o, NEW h, NEW k,
         SamePipe(d, o), SameTransfer(h, k), InStep(d, h)
  PROVE  InStep(o, k)
<1>1. Listening(o, k)
  BY DEF InStep, Listening, SamePipe, SameTransfer
<1>2. Transferring(o, k)
  <2>1. /\ Refused(d) <=> Refused(o)
        /\ Acking(d) <=> Acking(o)
    BY DEF Refused, Acking, SamePipe
  <2>2. Armed(d, h) => Armed(o, k)
    BY DEF Armed, SamePipe, SameTransfer
  <2>3. ASSUME NEW n, Remaining(h, n) PROVE Remaining(k, n)
    BY <2>3 DEF Remaining, SameTransfer
  <2>4. Offered(d, h) => Offered(o, k)
    BY <2>3 DEF Offered, SamePipe, SameTransfer
  <2>5. Sent(d, h) => Sent(o, k)
    BY <2>3 DEF Sent, SamePipe, SameTransfer
  <2> QED BY <2>1, <2>2, <2>4, <2>5
          DEF InStep, Transferring, Reading, Writing, Finishing, SamePipe, SameTransfer
<1>3. Addressing(o, k)
  BY DEF InStep, Addressing, Ready, Completing, SamePipe, SameTransfer, SameConfig
<1>4. Configuring(o, k)
  BY DEF InStep, Configuring, Ready, Chosen, Up, SamePipe, SameTransfer, SameConfig
<1> QED BY <1>1, <1>2, <1>3, <1>4 DEF InStep

\* What the interrupt handler does before it looks at EP0.
LEMMA EnteredFrame ==
  ASSUME Sound(dev)
  PROVE  /\ SamePipe(dev, Entered) /\ Entered.hw.status = {}
         /\ "reset" \in dev.hw.itrEnable => "reset" \in Entered.hw.itrEnable
         /\ dev.usbSuspended = dev.hw.forceSuspend
              => Entered.usbSuspended = Entered.hw.forceSuspend
         /\ "wakeup" \notin dev.hw.status => Entered.usbSuspended = dev.usbSuspended
<1> DEFINE Framed(o) ==
             /\ o \in Devices /\ SamePipe(dev, o) /\ o.hw.status = {}
             /\ "reset" \in dev.hw.itrEnable => "reset" \in o.hw.itrEnable
           Slept(o) == /\ o.usbSuspended = dev.usbSuspended
                       /\ o.hw.forceSuspend = dev.hw.forceSuspend
           read == [dev EXCEPT !.hw.status = {}]
           more == [read EXCEPT !.usbState = "powered",
                                !.hw.itrEnable = @ \cup {"suspend"}]
           powered == IF dev.usbState # "attached" THEN read ELSE more
<1>1. Framed(read) /\ Slept(read) /\ read.usbState = dev.usbState
  BY DEF SamePipe, SameConfig, Sound, Devices, Registers
<1> HIDE DEF read
<1>2. dev.usbState = "attached" => Framed(more) /\ Slept(more)
  BY <1>1 DEF SamePipe, SameConfig, Devices, Registers, DeviceStates, Interrupts
<1>3. Framed(powered) /\ Slept(powered)
  BY <1>1, <1>2
<1> HIDE DEF powered
<1>4. /\ Framed(Wakeup(powered))
      /\ Wakeup(powered).usbSuspended = Wakeup(powered).hw.forceSuspend
  <2> DEFINE t == (powered.hw.itrEnable \ {"wakeup"}) \cup {"suspend"}
             g == [powered.hw EXCEPT !.forceSuspend = FALSE, !.itrEnable = t]
             w == [powered EXCEPT !.usbSuspended = FALSE, !.hw = g]
  <2>1. powered \in Devices /\ powered.hw \in Registers
    BY <1>3 DEF Devices
  <2>2. w = Wakeup(powered)
    BY <2>1 DEF Wakeup, Devices, Registers
  <2>3. /\ t \in SUBSET Interrupts
        /\ "ctr" \in powered.hw.itrEnable => "ctr" \in t
        /\ "reset" \in powered.hw.itrEnable => "reset" \in t
    BY <2>1 DEF Registers, Interrupts
  <2> HIDE DEF t
  <2>4. /\ g \in Registers /\ g.forceSuspend = FALSE /\ g.itrEnable = t
        /\ g.tx = powered.hw.tx /\ g.txData = powered.hw.txData
        /\ g.txComplete = powered.hw.txComplete /\ g.rx = powered.hw.rx
        /\ g.rxPacket = powered.hw.rxPacket /\ g.addr = powered.hw.addr
        /\ g.enabled = powered.hw.enabled /\ g.status = powered.hw.status
        /\ g.eps = powered.hw.eps
    BY <2>1, <2>3 DEF Registers
  <2> HIDE DEF g
  <2>5. /\ w \in Devices /\ w.hw = g /\ w.usbSuspended = FALSE
        /\ w.usbState = powered.usbState /\ w.in = powered.in
        /\ w.usbCtrlState = powered.usbCtrlState /\ w.out = powered.out
        /\ w.setupCallback = powered.setupCallback
        /\ w.packet = powered.packet /\ w.handlersUp = powered.handlersUp
        /\ w.activeConfig = powered.activeConfig
    BY <2>1, <2>4 DEF Devices
  <2> HIDE DEF w, Slept
  <2>6. /\ Framed(w) /\ w.usbSuspended = w.hw.forceSuspend
    <3>1. SamePipe(dev, powered) /\ powered.hw.status = {}
      BY <1>3
    <3>2. SamePipe(powered, w) /\ w.hw.status = powered.hw.status
      BY <2>3, <2>4, <2>5 DEF SamePipe, SameConfig
    <3>3. SamePipe(dev, w)
      BY <3>1, <3>2 DEF SamePipe, SameConfig
    <3>4. "reset" \in dev.hw.itrEnable => "reset" \in w.hw.itrEnable
      BY <1>3, <2>3, <2>4, <2>5
    <3> QED BY <2>4, <2>5, <3>1, <3>2, <3>3, <3>4
  <2> QED BY <2>2, <2>6
<1>5. Entered = IF "wakeup" \in dev.hw.status THEN Wakeup(powered) ELSE powered
  BY DEF Entered, powered, more, read
<1> HIDE DEF Framed
<1>6. Framed(Entered)
  BY <1>3, <1>4, <1>5
<1> QED BY <1>3, <1>4, <1>5, <1>6 DEF Framed

LEMMA SuspendFrame ==
  ASSUME NEW d, Sound(d)
  PROVE  LET o == [Suspend(d) EXCEPT !.hw.status =
                     @ \cup (IF "reset" \in @ THEN {"wakeup"} ELSE {})]
         IN  /\ SamePipe(d, o) /\ o.usbSuspended = o.hw.forceSuspend
             /\ "reset" \in o.hw.status <=> "reset" \in d.hw.status
             /\ "reset" \in o.hw.status => "wakeup" \in o.hw.status
             /\ "reset" \in d.hw.itrEnable => "reset" \in o.hw.itrEnable
BY DEF Suspend, SamePipe, SameConfig, Sound, Devices, Registers, Interrupts

LEMMA ResetDone ==
  ASSUME NEW d, Sound(d)
  PROVE  LET o == Reset(d)
         IN  /\ o.usbState = "waiting" /\ o.activeConfig = 0 /\ ~o.in.isMultiPart
             /\ o.hw.addr = 0 /\ o.hw.enabled /\ o.hw.rx = "valid"
             /\ o.hw.rxPacket = NoPacket /\ "ctr" \in o.hw.itrEnable
             /\ o.hw.status = d.hw.status /\ o.usbSuspended = d.usbSuspended
             /\ o.hw.forceSuspend = d.hw.forceSuspend
             /\ "reset" \in d.hw.itrEnable => "reset" \in o.hw.itrEnable
<1> DEFINE i == [d.in EXCEPT !.needsArming = FALSE, !.stall = FALSE,
                             !.isMultiPart = FALSE, !.transferCount = 0]
           b == [needsArming |-> FALSE, stall |-> FALSE, transferCount |-> 0]
           h == [d.hw EXCEPT !.eps = 0, !.epComplete = FALSE]
           g == [h EXCEPT !.tx = "disabled", !.txComplete = FALSE,
                          !.rx = "disabled", !.rxPacket = NoPacket]
           t == d.hw.itrEnable \cup {"sof", "ctr", "wakeup"}
           f == [g EXCEPT !.tx = "nack", !.rx = "valid", !.addr = 0,
                          !.enabled = TRUE, !.itrEnable = t]
           r == ResetEPs(d, "all")
           o == Reset(d)
<1>1. ~i.isMultiPart
  BY Fields DEF EpIn
<1>2. /\ g.status = d.hw.status /\ g.forceSuspend = d.hw.forceSuspend
      /\ g.itrEnable = d.hw.itrEnable /\ g.rxPacket = NoPacket
      /\ g = [d.hw EXCEPT !.eps = 0, !.epComplete = FALSE, !.tx = "disabled",
                          !.txComplete = FALSE, !.rx = "disabled",
                          !.rxPacket = NoPacket]
  BY Fields DEF Registers
<1>3. /\ f.status = d.hw.status /\ f.forceSuspend = d.hw.forceSuspend
      /\ f.itrEnable = t /\ f.rxPacket = NoPacket /\ f.rx = "valid"
      /\ f.addr = 0 /\ f.enabled
  <2> HIDE DEF t
  <2> QED BY <1>2, Fields DEF Registers
<1>4. r = [d EXCEPT !.in = i, !.out = b, !.hw = g]
  <2> HIDE DEF i, b
  <2>1. r = [[d EXCEPT !.hw = h] EXCEPT !.in = i, !.out = b, !.hw = g]
    BY DEF ResetEPs, i, b, Sound, Devices
  <2> HIDE DEF h, g
  <2> QED BY <2>1 DEF Sound, Devices
<1>5. o = [r EXCEPT !.usbState = "waiting", !.activeConfig = 0, !.hw = f]
  <2>1. r.hw = g
    <3> HIDE DEF i, b, g
    <3> QED BY <1>4 DEF Sound, Devices
  <2> QED BY <1>2, <2>1 DEF Reset, t
<1> HIDE DEF i, b, g, f
<1>6. /\ o.usbState = "waiting" /\ o.activeConfig = 0 /\ o.in = i /\ o.hw = f
      /\ o.usbSuspended = d.usbSuspended
  <2> HIDE DEF r, o
  <2>1. /\ r.in = i /\ r.usbSuspended = d.usbSuspended
        /\ o.usbState = "waiting" /\ o.activeConfig = 0
        /\ o.in = r.in /\ o.hw = f /\ o.usbSuspended = r.usbSuspended
    BY <1>4, <1>5 DEF Sound, Devices
  <2> QED BY <2>1
<1> HIDE DEF o
<1> QED BY <1>1, <1>3, <1>6 DEF t, o

LEMMA ResetInStep ==
  ASSUME NEW d, Sound(d), NEW h, h.phase = "idle", h.addr = 0, h.cfg = 0
  PROVE  InStep(Reset(d), h)
<1> DEFINE o == Reset(d)
<1>1. /\ o.usbState = "waiting" /\ o.activeConfig = 0 /\ ~o.in.isMultiPart
      /\ o.hw.addr = 0 /\ o.hw.enabled /\ o.hw.rx = "valid"
      /\ o.hw.rxPacket = NoPacket /\ "ctr" \in o.hw.itrEnable
  BY ResetDone
<1> HIDE DEF o
<1>2. NoPacket.kind = "none"
  BY DEF NoPacket
<1>3. Listening(o, h)
  BY <1>1, <1>2 DEF Listening
<1>4. Transferring(o, h)
  BY <1>1 DEF Transferring
<1>5. Addressing(o, h)
  BY <1>1 DEF Addressing, Ready
<1>6. Configuring(o, h)
  BY <1>1 DEF Configuring, Ready
<1> QED BY <1>3, <1>4, <1>5, <1>6 DEF InStep, o

\* A device that stays asleep has no bus reset to serve.
LEMMA AsleepWithoutReset ==
  ASSUME Sound(dev), Attended, InterruptSuspended
  PROVE  dev' = Entered /\ "wakeup" \notin dev.hw.status /\ "reset" \notin dev.hw.status
<1>1. dev' = Entered /\ Entered.usbSuspended /\ dev.usbSuspended \in BOOLEAN
  BY DEF InterruptSuspended, Sound, Devices
<1>2. "wakeup" \notin dev.hw.status
  <2> DEFINE d == IF dev.usbState # "attached" THEN [dev EXCEPT !.hw.status = {}]
                  ELSE [[dev EXCEPT !.hw.status = {}] EXCEPT
                         !.usbState = "powered",
                         !.hw.itrEnable = @ \cup {"suspend"}]
  <2>1. "wakeup" \in dev.hw.status => Entered = Wakeup(d)
    BY DEF Entered
  <2>2. "usbSuspended" \in DOMAIN d
    BY DEF Sound, Devices
  <2> HIDE DEF d
  <2>3. ~Wakeup(d).usbSuspended
    BY <2>2 DEF Wakeup
  <2> QED BY <1>1, <2>1, <2>3
<1> QED BY <1>1, <1>2, EnteredFrame DEF Attended

Unmoved(d, o) ==
  /\ SamePipe(d, o) /\ o.usbSuspended = d.usbSuspended
  /\ o.hw.itrEnable = d.hw.itrEnable /\ o.hw.forceSuspend = d.hw.forceSuspend

\* The steps of the interrupt handler with which nothing happens to EP0.
LEMMA NothingServed ==
  ASSUME Sound(dev), NothingForEP0 \/ ProcessUserEndpoint
  PROVE  Unmoved(dev, dev') /\ dev'.hw.status = dev.hw.status
<1>1. LET o == [dev EXCEPT !.hw.epComplete = FALSE]
      IN  Unmoved(dev, o) /\ o.hw.status = dev.hw.status
  BY DEF Unmoved, SamePipe, SameConfig, Sound, Devices, Registers
<1>2. dev' = dev \/ dev' = [dev EXCEPT !.hw.epComplete = FALSE]
  BY DEF NothingForEP0, ProcessUserEndpoint
<1> QED BY <1>1, <1>2 DEF Unmoved, SamePipe, SameConfig

\* Of the steps of the interrupt handler, those that do not serve EP0.
LEMMA OtherInterruptStep ==
  ASSUME IInv, Conversing,
         \/ InterruptSuspended \/ InterruptReset  \/ InterruptEvents
         \/ InterruptSuspend   \/ NothingForEP0   \/ ProcessUserEndpoint
  PROVE  Conversing'
<1>1. Sound(dev) /\ Attended /\ dev.usbSuspended \in BOOLEAN
  BY DEF IInv, Conversing, Sound, Devices
<1>2. host' = host /\ app' = app
  BY DEF InterruptSuspended, InterruptReset, InterruptEvents, InterruptSuspend,
         NothingForEP0, ProcessUserEndpoint
<1>3. ASSUME SamePipe(dev, dev'), Live(dev', host') => Live(dev, host)
      PROVE  Live(dev', host') => InStep(dev', host')
  BY <1>2, <1>3, PipeFrame, SameTransferItself DEF Conversing
<1>4. CASE InterruptSuspended
  <2>1. dev' = Entered /\ "wakeup" \notin dev.hw.status /\ "reset" \notin dev.hw.status
    BY <1>1, <1>4, AsleepWithoutReset
  <2>2. Attended'
    BY <1>1, <1>2, <2>1, EnteredFrame DEF Attended
  <2> QED BY <1>1, <1>2, <1>3, <2>1, <2>2, EnteredFrame DEF Live, Conversing
<1>5. CASE InterruptReset
  <2>1. dev' = Reset(Entered) /\ "reset" \in dev.hw.status
    BY <1>5 DEF InterruptReset
  <2>2. Sound(Entered)
    BY <1>1, EnteredSound
  <2>3. Attended'
    BY <1>1, <1>2, <2>1, <2>2, EnteredFrame, ResetDone DEF Attended
  <2>4. host'.phase # "gone" => InStep(dev', host')
    BY <1>1, <1>2, <2>1, <2>2, ResetInStep DEF Attended
  <2> QED BY <2>3, <2>4 DEF Conversing, Live
<1>6. CASE InterruptEvents
  <2>1. dev' = Entered /\ "reset" \notin dev.hw.status
    BY <1>6 DEF InterruptEvents
  <2>2. Attended'
    BY <1>1, <1>2, <2>1, EnteredFrame DEF Attended
  <2> QED BY <1>1, <1>2, <1>3, <2>1, <2>2, EnteredFrame DEF Live, Conversing
<1>7. CASE InterruptSuspend
  <2>1. dev' = [Suspend(dev) EXCEPT !.hw.status =
                  @ \cup (IF "reset" \in @ THEN {"wakeup"} ELSE {})]
    BY <1>7 DEF InterruptSuspend
  <2>2. /\ SamePipe(dev, dev') /\ dev'.usbSuspended = dev'.hw.forceSuspend
        /\ "reset" \in dev'.hw.status <=> "reset" \in dev.hw.status
        /\ "reset" \in dev'.hw.status => "wakeup" \in dev'.hw.status
        /\ "reset" \in dev.hw.itrEnable => "reset" \in dev'.hw.itrEnable
    BY <1>1, <2>1, SuspendFrame
  <2>3. Attended'
    BY <1>1, <1>2, <2>2 DEF Attended
  <2> QED BY <1>2, <1>3, <2>2, <2>3 DEF Live, Conversing
<1>8. CASE NothingForEP0 \/ ProcessUserEndpoint
  <2>1. Unmoved(dev, dev') /\ dev'.hw.status = dev.hw.status
    BY <1>1, <1>8, NothingServed
  <2>2. Attended'
    BY <1>1, <1>2, <2>1 DEF Attended, Unmoved
  <2> QED BY <1>2, <1>3, <2>1, <2>2 DEF Live, Conversing, Unmoved
<1> QED BY <1>4, <1>5, <1>6, <1>7, <1>8

-----------------------------------------------------------------------------
(* EP0's receive half is served.                                           *)

\* The request is read and answered.
LEMMA SetupInStep ==
  ASSUME Conventional, NEW d, Sound(d), NEW h \in Hosts, InStep(d, h),
         d.hw.rxPacket.kind = "setup",
         NEW ans \in ClassAnswers[d.hw.rxPacket.data.dir]
  PROVE  LET e == [d EXCEPT !.hw.rxPacket = NoPacket]
             o == HandleSetupPacket(e, d.hw.rxPacket, ans)
         IN  Untouched(e, o) /\ InStep(o, h)
<1> DEFINE rx == d.hw.rxPacket
           e  == [d EXCEPT !.hw.rxPacket = NoPacket]
           o  == HandleSetupPacket(e, rx, ans)
           p  == h.req
<1>1. /\ rx.data = p /\ rx.count = 8 /\ p \in Requests /\ h.got = 0
      /\ h.phase = FirstPhase(p) /\ ~d.hw.txComplete /\ d.hw.tx = "nack"
      /\ "ctr" \in d.hw.itrEnable /\ d.hw.enabled /\ ~d.in.isMultiPart
  BY DEF InStep, Listening, Transferring
<1>2. /\ Sound(e) /\ rx \in RxPackets /\ ans \in Answers /\ rx.count >= 8
      /\ WellFormed(p) /\ NoPacket.kind = "none"
  BY <1>1, PacketFetched, Fetched DEF Conventional, Mannerly, NoPacket
<1>3. /\ e.hw.rxPacket = NoPacket /\ ~e.hw.txComplete /\ e.hw.tx = "nack"
      /\ ~e.in.isMultiPart /\ "ctr" \in e.hw.itrEnable /\ e.hw.enabled
      /\ e.hw.addr = d.hw.addr /\ e.usbState = d.usbState
      /\ e.setupCallback = d.setupCallback /\ SameConfig(d, e)
  BY <1>1, PacketFetched DEF SameAddress, SameSender
<1> HIDE DEF e
<1>4. /\ o.packet = p /\ o.hw.rx = "valid" /\ Untouched(e, o)
      /\ Outcome(p, "nack", o) /\ Effects(p, e, o, o.hw.tx = "valid")
  BY <1>1, <1>2, <1>3, SetupOutcome DEF Conventional
<1>5. Sound(o)
  BY <1>2, HandleSetupPacketSound
<1> HIDE DEF o
<1>6. /\ o.hw.rxPacket = NoPacket /\ ~o.hw.txComplete
      /\ "ctr" \in o.hw.itrEnable /\ o.hw.enabled /\ o.hw.addr = d.hw.addr
  BY <1>3, <1>4 DEF Untouched, Effects
<1>7. h.phase # "idle"
  <2>1. p.dir \in {"in", "out"}
    BY DEF Hosts, SetupPackets
  <2> QED BY <1>1, <2>1 DEF FirstPhase
<1>8. Listening(o, h)
  BY <1>2, <1>4, <1>6 DEF Listening
<1>9. Transferring(o, h)
  BY <1>1, <1>2, <1>4, <1>5, <1>6, OutcomeTransfers
<1>10. ~(IsSetAddress(p) /\ IsSetConfiguration(p))
  BY DEF IsSetAddress, IsSetConfiguration
<1>11. d.usbState = "addressing" => h.addr = 0
  BY <1>1 DEF InStep, Addressing, Completing
<1>12. d.hw.addr = h.addr
  BY <1>11 DEF InStep, Addressing
<1>13. IsSetConfiguration(p) => h.addr # 0 /\ h.cfg = 0
  BY <1>7 DEF InStep, Configuring
<1>14. IsSetAddress(p) => h.addr = 0
  BY <1>7 DEF InStep, Addressing
<1>15. ~IsSetConfiguration(p) => SameConfig(d, o)
  BY <1>3, <1>4 DEF Effects, SameConfig
<1>16. Addressing(o, h)
  <2>1. IsSetAddress(p) /\ Ready(o, h) => o.usbState = "addressing"
    BY <1>4 DEF Ready, Effects
  <2>2. ASSUME o.usbState = "addressing"
        PROVE  h.addr = 0 /\ o.setupCallback = "address" /\ o.activeConfig = 0
    <3>1. ~IsSetConfiguration(p)
      BY <1>3, <1>4, <1>11, <1>13, <2>2 DEF Effects
    <3>2. h.addr = 0
      BY <1>3, <1>4, <1>11, <1>14, <2>2, <3>1 DEF Effects
    <3>3. d.activeConfig = 0 /\ o.activeConfig = 0
      BY <1>15, <3>1, <3>2 DEF InStep, Configuring, SameConfig
    <3>4. o.setupCallback = "address"
      <4>1. d.usbState = "addressing" => d.setupCallback = "address"
        BY DEF InStep, Addressing
      <4>2. e.activeConfig = 0
        BY <1>3, <3>3 DEF SameConfig
      <4> QED BY <1>3, <1>4, <2>2, <3>1, <4>1, <4>2 DEF Effects
    <3> QED BY <3>2, <3>3, <3>4
  <2>3. ~Completing(o)
    BY <1>6 DEF Completing
  <2> QED BY <1>2, <1>4, <1>6, <1>12, <1>14, <2>1, <2>2, <2>3 DEF Addressing
<1>17. Configuring(o, h)
  <2>1. h.addr = 0 => o.activeConfig = 0
    BY <1>13, <1>15 DEF InStep, Configuring, SameConfig
  <2>2. h.cfg # 0 => Chosen(o) /\ o.activeConfig = h.cfg
    BY <1>13, <1>15 DEF InStep, Configuring, SameConfig, Chosen, Up
  <2>3. IsSetConfiguration(p) /\ Ready(o, h) /\ p.value # 0 =>
          Chosen(o) /\ o.activeConfig = p.value
    <3>1. IsSetConfiguration(p) => p.value % 256 = p.value
      <4>1. IsSetConfiguration(p) => p.value < 256 /\ p.value \in Nat
        BY <1>2, Words DEF WellFormed, Hosts, SetupPackets
      <4> QED BY <4>1
    <3> QED BY <1>4, <3>1 DEF Ready, Effects
  <2> QED BY <1>13, <2>1, <2>2, <2>3 DEF Configuring
<1> QED BY <1>4, <1>8, <1>9, <1>16, <1>17 DEF InStep, o, e

\* A packet of a write is counted, one of a status stage ends its transfer.
LEMMA OutInStep ==
  ASSUME Conventional, NEW d, Sound(d), NEW h \in Hosts, InStep(d, h),
         d.hw.rxPacket.kind = "out", NEW ans
  PROVE  LET e == [d EXCEPT !.hw.rxPacket = NoPacket]
             o == HandleControllerOutPacket(e, d.hw.rxPacket, ans)
         IN  Untouched(e, o) /\ InStep(o, h)
<1> DEFINE rx == d.hw.rxPacket
           e  == [d EXCEPT !.hw.rxPacket = NoPacket]
           o  == HandleControllerOutPacket(e, rx, ans)
<1>1. /\ Inert(rx.data) /\ h.phase \in {"idle", "dataOut", "statusIn"}
      /\ h.phase = "idle" => d.usbCtrlState # "dataRX"
      /\ "ctr" \in d.hw.itrEnable /\ d.hw.enabled /\ ~d.in.isMultiPart
  BY DEF InStep, Listening, Transferring
<1>2. /\ Sound(e) /\ rx \in RxPackets
      /\ NoPacket.kind = "none" /\ NoPacket.count = 0
  BY PacketFetched, Fetched DEF NoPacket
<1>3. /\ e.hw.rxPacket = NoPacket /\ e.hw.txComplete = d.hw.txComplete
      /\ e.hw.tx = d.hw.tx /\ e.in = d.in /\ e.out = d.out
      /\ e.packet = d.packet /\ e.usbCtrlState = d.usbCtrlState
      /\ "ctr" \in e.hw.itrEnable /\ e.hw.enabled /\ ~e.in.isMultiPart
      /\ e.hw.addr = d.hw.addr /\ e.usbState = d.usbState
      /\ e.setupCallback = d.setupCallback /\ SameConfig(d, e)
  BY <1>1, PacketFetched DEF SameAddress, SameSender, SameReceiver
<1> HIDE DEF e
<1>4. h.phase # "idle" => h.req \in Requests
  BY DEF InStep, Transferring
<1>5. /\ h.phase = "dataOut" => Writing(d, h) /\ h.req.length # 0
      /\ h.phase = "statusIn" =>
           h.req.length # 0 /\ h.got = h.req.length /\ (Refused(d) \/ Armed(d, h))
  BY DEF InStep, Transferring, Finishing
<1>6. h.phase # "idle" => ~IsSetAddress(h.req) /\ ~IsSetConfiguration(h.req)
  BY <1>1, <1>4, <1>5, DataStageRequest DEF Conventional
<1>7. /\ d.usbState # "addressing" => d.hw.addr = h.addr
      /\ d.usbState = "addressing" =>
           /\ d.hw.addr = 0 /\ h.addr = 0 /\ d.setupCallback = "address"
           /\ d.activeConfig = 0 /\ ~IsSetAddress(d.packet)
           /\ h.phase # "idle" => d.packet = h.req
  BY DEF InStep, Addressing
\* The callback leaves no address pending.
<1>8. ASSUME CalledBack(e, o)
      PROVE  /\ o.usbState # "addressing" /\ o.hw.addr = h.addr /\ o.hw.enabled
             /\ SameConfig(d, o)
  <2>1. SameConfig(d, o)
    BY <1>3, <1>8 DEF CalledBack, SameConfig
  <2>2. CASE d.usbState = "addressing"
    BY <1>3, <1>7, <1>8, <2>1, <2>2 DEF CalledBack
  <2>3. CASE d.usbState # "addressing"
    BY <1>3, <1>7, <1>8, <2>1, <2>3 DEF CalledBack, SameAddress
  <2> QED BY <2>2, <2>3
<1>9. ASSUME Untouched(e, o), o.hw.rx = "valid", o.hw.enabled
      PROVE  Listening(o, h)
  BY <1>2, <1>3, <1>9 DEF Listening, Untouched
<1>10. ASSUME o.usbState # "addressing", o.hw.addr = h.addr
       PROVE  Addressing(o, h)
  BY <1>6, <1>10 DEF Addressing, Ready
<1>11. ASSUME SameConfig(d, o)
       PROVE  Configuring(o, h)
  BY <1>6, <1>11 DEF InStep, Configuring, Ready, SameConfig, Chosen, Up
<1>12. CASE d.usbCtrlState = "dataRX"
  <2>1. /\ h.phase \in {"dataOut", "statusIn"} /\ Armed(d, h)
        /\ h.phase = "dataOut" => h.got < h.req.length
        /\ h.phase = "statusIn" => h.got = h.req.length
    BY <1>1, <1>5, <1>12 DEF Writing, Refused
  <2>2. h.req.length \in Nat /\ h.got \in Nat /\ rx.count \in Nat
    BY <1>2, Words DEF Hosts, SetupPackets, RxPackets
  <2>3. /\ rx.count <= d.out.transferCount
        /\ h.phase = "statusIn" <=> d.out.transferCount = rx.count
        /\ d.out.transferCount - rx.count = h.req.length - h.got
    BY <2>1, <2>2 DEF Armed
  <2>4. /\ Untouched(e, o) /\ o.hw.rx = "valid" /\ o.packet = e.packet
        /\ ~o.in.isMultiPart
        /\ IF d.out.transferCount = rx.count
           THEN /\ CalledBack(e, o) /\ o.usbCtrlState = "statusTX"
                /\ o.hw.tx = "valid" /\ o.hw.txData.len = 0
           ELSE /\ Keeps(e, o) /\ o.usbCtrlState = "dataRX"
                /\ o.setupCallback = e.setupCallback
                /\ o.hw.tx = e.hw.tx /\ o.in = e.in
                /\ o.out.transferCount = d.out.transferCount - rx.count
    BY <1>2, <1>3, <1>12, <2>1, <2>3, DataRead DEF Armed
  <2> HIDE DEF o
  <2>5. o.hw.rxPacket = NoPacket /\ ~o.hw.txComplete
    BY <1>3, <2>1, <2>4 DEF Untouched, Armed
  <2>6. CASE h.phase = "statusIn"
    <3>1. Acking(o)
      BY <2>3, <2>4, <2>5, <2>6 DEF Acking
    <3>2. Transferring(o, h)
      BY <1>2, <1>4, <1>5, <2>4, <2>5, <2>6, <3>1 DEF Transferring, Finishing
    <3>3. CalledBack(e, o)
      BY <2>3, <2>4, <2>6
    <3> QED BY <1>8, <1>9, <1>10, <1>11, <2>4, <3>2, <3>3 DEF InStep, o, e
  <2>7. CASE h.phase = "dataOut"
    <3>1. Keeps(e, o) /\ o.usbCtrlState = "dataRX"
      BY <2>3, <2>4, <2>7
    <3>2. Armed(o, h)
      <4>1. /\ o.hw.tx = "nack" /\ o.in.transferCount = 0
            /\ o.out.transferCount = h.req.length - h.got
        BY <1>3, <2>1, <2>3, <2>4, <2>7 DEF Armed
      <4> QED BY <1>2, <2>1, <2>2, <2>5, <2>7, <3>1, <4>1 DEF Armed
    <3>3. Transferring(o, h)
      BY <1>2, <1>4, <1>5, <2>4, <2>5, <2>7, <3>2 DEF Transferring, Writing
    <3>4. SameConfig(d, o)
      BY <1>3, <3>1 DEF Keeps, SameConfig
    <3>5. o.hw.enabled /\ o.hw.addr = d.hw.addr /\ o.usbState = d.usbState
      BY <1>3, <3>1 DEF Keeps, SameAddress
    <3>6. Addressing(o, h)
      <4>1. /\ o.packet = d.packet /\ o.activeConfig = d.activeConfig
            /\ o.setupCallback = d.setupCallback
        BY <1>3, <2>3, <2>4, <2>7, <3>4 DEF SameConfig
      <4> QED BY <1>2, <1>6, <1>7, <2>5, <2>7, <3>5, <4>1 DEF Addressing, Completing
    <3> QED BY <1>9, <1>11, <2>4, <3>3, <3>4, <3>5, <3>6 DEF InStep, o, e
  <2> QED BY <2>1, <2>6, <2>7
<1>13. CASE d.usbCtrlState # "dataRX"
  <2>1. /\ Untouched(e, o) /\ CalledBack(e, o)
        /\ o.hw.tx = "stall" /\ o.hw.rx = "valid"
        /\ o.usbCtrlState = "idle" /\ ~o.in.isMultiPart
    BY <1>1, <1>2, <1>3, <1>13, StatusRead
  <2> HIDE DEF o
  <2>2. o.hw.rxPacket = NoPacket /\ o.hw.txComplete = d.hw.txComplete
    BY <1>3, <2>1 DEF Untouched
  <2>3. h.phase \in {"dataOut", "statusIn"} => Refused(o)
    BY <1>5, <1>13, <2>1, <2>2 DEF Writing, Armed, Refused
  <2>4. Transferring(o, h)
    BY <1>1, <1>2, <1>4, <1>5, <2>1, <2>2, <2>3
       DEF Transferring, Writing, Finishing
  <2> QED BY <1>8, <1>9, <1>10, <1>11, <2>1, <2>4 DEF InStep, o, e
<1> QED BY <1>12, <1>13

LEMMA ProcessEP0OutStep ==
  ASSUME Conventional, IInv, Conversing, ProcessEP0Out
  PROVE  Conversing'
<1> DEFINE e == [dev EXCEPT !.hw.rxPacket = NoPacket]
           rx == dev.hw.rxPacket
<1>1. /\ Sound(dev) /\ host \in Hosts /\ Sound(e) /\ rx \in RxPackets
      /\ ClassAnswers[rx.data.dir] \subseteq Answers
      /\ host' = host /\ app' = app /\ rx # NoPacket
  BY PacketFetched, Fetched DEF IInv, TypeOK, ProcessEP0Out
<1>2. PICK ans \in ClassAnswers[rx.data.dir] :
        dev' = HandleControlPacket(e, rx, ans)
  BY DEF ProcessEP0Out
<1>3. /\ e.hw.itrEnable = dev.hw.itrEnable /\ e.hw.status = dev.hw.status
      /\ e.hw.forceSuspend = dev.hw.forceSuspend
      /\ e.usbSuspended = dev.usbSuspended
  BY <1>1, PacketFetched
<1>4. dev' = IF rx.kind = "setup" THEN HandleSetupPacket(e, rx, ans)
             ELSE HandleControllerOutPacket(e, rx, ans)
  BY <1>2 DEF HandleControlPacket
<1>5. Untouched(e, dev')
  BY <1>1, <1>4, HandleSetupPacketKeeps, HandleControllerOutPacketKeeps
<1>6. Attended' /\ (Live(dev', host') => Live(dev, host))
  BY <1>1, <1>3, <1>5 DEF Conversing, Attended, Untouched, Live
<1>7. ASSUME Live(dev, host)
      PROVE  InStep(dev', host)
  <2>1. InStep(dev, host)
    BY <1>7 DEF Conversing
  <2>2. rx.kind \in {"setup", "out"}
    BY <1>1, <2>1 DEF InStep, Listening, RxPackets
  <2>3. CASE rx.kind = "setup"
    BY <1>1, <1>4, <2>1, <2>3, SetupInStep
  <2>4. CASE rx.kind = "out"
    BY <1>1, <1>4, <2>1, <2>4, OutInStep
  <2> QED BY <2>2, <2>3, <2>4
<1> QED BY <1>1, <1>6, <1>7 DEF Conversing

-----------------------------------------------------------------------------
(* EP0's transmit half is served.                                          *)

\* The next packet follows, or the transfer's callback is run.
LEMMA SentInStep ==
  ASSUME NEW d, Sound(d), NEW h \in Hosts, h.phase # "gone", InStep(d, h),
         d.hw.txComplete
  PROVE  LET e == [d EXCEPT !.hw.txComplete = FALSE]
             o == HandleControllerInPacket(e)
         IN  /\ Untouched(e, o) /\ InStep(o, h)
             /\ d.hw.rxPacket.kind \in {"none", "out"}
<1> DEFINE e == [d EXCEPT !.hw.txComplete = FALSE]
           o == HandleControllerInPacket(e)
<1>1. /\ "ctr" \in d.hw.itrEnable /\ d.hw.enabled
      /\ d.hw.rxPacket.kind \in {"none", "out"}
      /\ d.hw.rxPacket.kind = "out" =>
           /\ Inert(d.hw.rxPacket.data) /\ h.phase \in {"idle", "dataOut", "statusIn"}
      /\ d.hw.rxPacket.kind = "none" => d.hw.rx = "valid" /\ d.hw.rxPacket = NoPacket
  <2>1. d.hw.rxPacket \in RxPackets
    BY Fields DEF Registers
  <2> QED BY <2>1 DEF InStep, Listening, RxPackets
<1>2. h.phase \notin {"dataOut", "statusIn"}
  BY <1>1 DEF InStep, Transferring, Writing, Finishing, Refused, Armed, Acking
<1>3. h.phase \in {"dataIn", "idle", "statusOut"}
  BY <1>2 DEF Hosts
<1>4. h.phase = "dataIn" =>
        /\ d.hw.rxPacket.kind = "none" /\ h.req.dir = "in" /\ Sent(d, h)
  BY <1>1 DEF InStep, Transferring, Reading, Refused, Offered
<1>5. /\ h.phase # "idle" => h.req \in Requests /\ h.req.length # 0
      /\ h.phase = "statusOut" =>
           d.hw.rxPacket.kind = "none" /\ d.usbCtrlState # "dataRX"
      /\ d.in.isMultiPart => h.phase = "dataIn" /\ h.req \notin Abandonable
      /\ h.phase = "idle" /\ d.hw.rxPacket.kind = "out" => d.usbCtrlState # "dataRX"
  BY <1>1, <1>3 DEF InStep, Transferring, Listening
<1>6. /\ Sound(e) /\ ~e.hw.txComplete /\ e.hw.rxPacket = d.hw.rxPacket
      /\ e.hw.enabled /\ "ctr" \in e.hw.itrEnable /\ e.hw.rx = d.hw.rx
      /\ e.in = d.in /\ e.packet = d.packet /\ e.usbCtrlState = d.usbCtrlState
      /\ e.hw.addr = d.hw.addr /\ e.usbState = d.usbState
      /\ e.setupCallback = d.setupCallback /\ SameConfig(d, e)
  BY <1>1, FlagTaken DEF SameAddress, SameSender, SameReceiver
<1> HIDE DEF e
<1>7. /\ d.usbState # "addressing" => d.hw.addr = h.addr
      /\ IsSetAddress(h.req) /\ h.phase # "idle" => h.addr = 0
      /\ d.usbState = "addressing" =>
           /\ d.hw.addr = 0 /\ d.setupCallback = "address" /\ d.activeConfig = 0
           /\ h.phase # "idle" => d.packet = h.req
           /\ d.hw.rxPacket.kind = "out" => ~IsSetAddress(d.packet)
           /\ IF IsSetAddress(d.packet)
              THEN /\ h.phase = "idle" /\ d.usbCtrlState # "dataTX"
                   /\ h.addr = d.packet.value /\ h.addr < 128
              ELSE h.addr = 0
  BY <1>1 DEF InStep, Addressing, Completing
<1>8. ASSUME Untouched(e, o), SameConfig(e, o), o.hw.enabled, o.hw.rx = e.hw.rx,
             o.usbCtrlState # "dataRX"
      PROVE  Listening(o, h) /\ Configuring(o, h)
  <2>1. Listening(o, h)
    BY <1>1, <1>6, <1>8 DEF Listening, Untouched
  <2>2. SameConfig(d, o)
    BY <1>6, <1>8 DEF SameConfig
  <2>3. Configuring(o, h)
    BY <1>3, <2>2 DEF InStep, Configuring, Ready, SameConfig, Chosen, Up
  <2> QED BY <2>1, <2>3
<1>9. ASSUME Untouched(e, o), ~o.in.isMultiPart, o.usbCtrlState # "dataRX",
             h.phase # "dataIn"
      PROVE  Transferring(o, h)
  BY <1>3, <1>5, <1>6, <1>9 DEF Transferring, Untouched
\* A packet has been sent: the request goes on.
<1>10. ASSUME Keeps(e, o), o.packet = e.packet, d.usbCtrlState = "dataTX",
              o.setupCallback = e.setupCallback
       PROVE  o.hw.enabled /\ Addressing(o, h)
  <2>1. /\ o.hw.addr = d.hw.addr /\ o.hw.enabled /\ o.usbState = d.usbState
        /\ o.activeConfig = d.activeConfig /\ o.hw.rxPacket = d.hw.rxPacket
        /\ ~o.hw.txComplete /\ o.packet = d.packet
        /\ o.setupCallback = d.setupCallback
    BY <1>6, <1>10 DEF Keeps, Untouched, SameAddress, SameConfig
  <2>2. ~Completing(o)
    BY <2>1 DEF Completing
  <2>3. d.usbState = "addressing" => h.addr = 0
    BY <1>7, <1>10
  <2>4. ~Ready(o, h)
    BY <1>3 DEF Ready
  <2> QED BY <1>7, <2>1, <2>2, <2>3, <2>4 DEF Addressing
<1>11. CASE h.phase = "dataIn"
  <2>1. /\ d.usbCtrlState = "dataTX" /\ Sent(d, h) /\ h.req.dir = "in"
        /\ d.hw.rxPacket.kind = "none"
    BY <1>4, <1>11 DEF Sent
  <2>2. /\ Keeps(e, o) /\ Offered(o, h) /\ o.packet = e.packet
        /\ o.setupCallback = e.setupCallback /\ o.hw.rx = e.hw.rx
        /\ o.in.isMultiPart => e.in.isMultiPart
    <3>1. /\ e.in.transferCount # 0 /\ Remaining(h, e.in.transferCount)
          /\ e.in.memBuffer.obj = Asked(h.req) /\ e.in.memBuffer.off = h.got
          /\ e.in.isMultiPart => e.in.partsData = Asked(h.req)
      BY <1>6, <2>1 DEF Sent
    <3> QED BY <1>6, <2>1, <3>1, NextPacketSent
  <2> HIDE DEF o
  <2>3. o.usbCtrlState # "dataRX" /\ o.hw.tx = "valid"
    BY <2>2 DEF Offered
  <2>4. o.hw.rxPacket = d.hw.rxPacket
    BY <1>6, <2>2 DEF Keeps, Untouched
  <2>5. Transferring(o, h)
    BY <1>5, <1>6, <1>11, <2>1, <2>2, <2>3, <2>4 DEF Transferring, Reading
  <2> QED BY <1>1, <1>8, <1>10, <2>1, <2>2, <2>3, <2>5 DEF InStep, Keeps, o, e
<1>12. CASE h.phase # "dataIn" /\ d.usbCtrlState = "dataTX"
  <2>1. /\ Keeps(e, o) /\ o.packet = e.packet
        /\ o.setupCallback = e.setupCallback /\ o.hw.rx = e.hw.rx
        /\ o.in.isMultiPart => e.in.isMultiPart
        /\ o.usbCtrlState \in {"dataTX", "statusRX"}
    BY <1>6, <1>12, AnyPacketSent
  <2> HIDE DEF o
  <2>2. ~o.in.isMultiPart
    BY <1>5, <1>6, <1>12, <2>1
  <2> QED BY <1>1, <1>8, <1>9, <1>10, <1>12, <2>1, <2>2 DEF InStep, Keeps, o, e
<1>13. CASE h.phase # "dataIn" /\ d.usbCtrlState # "dataTX"
  <2>1. o = RunCallback([e EXCEPT !.usbCtrlState = "idle"])
    BY <1>6, <1>13 DEF HandleControllerInPacket
  <2>2. /\ Untouched(e, o) /\ CalledBack(e, o) /\ SameSender(e, o)
        /\ o.usbCtrlState = "idle" /\ o.hw.rx = e.hw.rx
        /\ o.packet = e.packet
    BY <1>6, <2>1, TransferEnded
  <2> HIDE DEF o
  <2>3. ~o.in.isMultiPart
    BY <1>5, <1>6, <1>13, <2>2 DEF SameSender
  <2>4. ~Ready(o, h)
    BY <1>3 DEF Ready
  <2>5. o.hw.enabled /\ o.usbState # "addressing" /\ o.hw.addr = h.addr
    <3>1. CASE d.usbState = "addressing" /\ IsSetAddress(d.packet)
      <4>1. h.addr \in Nat /\ h.addr < 128 /\ d.packet.value = h.addr
        BY <1>7, <3>1, Words DEF Hosts
      <4>2. d.packet.value % 128 = h.addr /\ d.packet.value < 256
        BY <4>1
      <4> QED BY <1>6, <1>7, <2>2, <3>1, <4>2 DEF CalledBack
    <3>2. CASE d.usbState = "addressing" /\ ~IsSetAddress(d.packet)
      BY <1>6, <1>7, <2>2, <3>2 DEF CalledBack
    <3>3. CASE d.usbState # "addressing"
      BY <1>6, <1>7, <2>2, <3>3 DEF CalledBack, SameAddress
    <3> QED BY <3>1, <3>2, <3>3
  <2>6. Addressing(o, h)
    BY <1>7, <2>4, <2>5 DEF Addressing
  <2>7. SameConfig(e, o)
    BY <2>2 DEF CalledBack
  <2> QED BY <1>1, <1>8, <1>9, <1>13, <2>2, <2>3, <2>5, <2>6, <2>7 DEF InStep, o, e
<1> QED BY <1>11, <1>12, <1>13

\* The packet that waits to be read is overwritten.
LEMMA PacketRewritten ==
  ASSUME NEW d, Sound(d), NEW v
  PROVE  LET o == [d EXCEPT !.hw.rxPacket.data = v]
         IN  /\ o.hw.rxPacket = [d.hw.rxPacket EXCEPT !.data = v]
             /\ SameConfig(d, o) /\ SameAddress(d, o)
             /\ SameReceiver(d, o) /\ SameSender(d, o)
             /\ o.setupCallback = d.setupCallback
             /\ o.hw.txComplete = d.hw.txComplete
             /\ o.hw.itrEnable = d.hw.itrEnable /\ o.hw.status = d.hw.status
             /\ o.hw.forceSuspend = d.hw.forceSuspend
             /\ o.usbSuspended = d.usbSuspended
<1> DEFINE packet == [d.hw.rxPacket EXCEPT !.data = v]
           g == [d.hw EXCEPT !.rxPacket = packet]
           o == [d EXCEPT !.hw = g]
<1>1. o = [d EXCEPT !.hw.rxPacket.data = v]
  OBVIOUS
<1> HIDE DEF packet
<1>2. /\ g.rxPacket = packet /\ g.eps = d.hw.eps /\ g.addr = d.hw.addr
      /\ g.enabled = d.hw.enabled /\ g.rx = d.hw.rx /\ g.tx = d.hw.tx
      /\ g.txData = d.hw.txData /\ g.txComplete = d.hw.txComplete
      /\ g.itrEnable = d.hw.itrEnable /\ g.status = d.hw.status
      /\ g.forceSuspend = d.hw.forceSuspend
  BY Fields DEF Registers
<1> HIDE DEF g
<1>3. /\ o.hw = g /\ o.in = d.in /\ o.out = d.out /\ o.packet = d.packet
      /\ o.usbCtrlState = d.usbCtrlState /\ o.usbState = d.usbState
      /\ o.activeConfig = d.activeConfig /\ o.handlersUp = d.handlersUp
      /\ o.setupCallback = d.setupCallback /\ o.usbSuspended = d.usbSuspended
  BY DEF Sound, Devices
<1> HIDE DEF o
<1>4. /\ o.hw.rxPacket = packet
      /\ SameConfig(d, o) /\ SameAddress(d, o)
      /\ SameReceiver(d, o) /\ SameSender(d, o)
      /\ o.setupCallback = d.setupCallback
      /\ o.hw.txComplete = d.hw.txComplete
      /\ o.hw.itrEnable = d.hw.itrEnable /\ o.hw.status = d.hw.status
      /\ o.hw.forceSuspend = d.hw.forceSuspend
      /\ o.usbSuspended = d.usbSuspended
  BY <1>2, <1>3 DEF SameConfig, SameAddress, SameReceiver, SameSender
<1> QED BY <1>1, <1>4 DEF packet

LEMMA RewrittenInStep ==
  ASSUME NEW d, Sound(d), NEW h, InStep(d, h), NEW v,
         d.hw.rxPacket.kind \in {"none", "out"},
         d.hw.rxPacket.kind = "none" => v = d.hw.rxPacket.data,
         d.hw.rxPacket.kind = "out" => Inert(v)
  PROVE  InStep([d EXCEPT !.hw.rxPacket.data = v], h)
<1> DEFINE o == [d EXCEPT !.hw.rxPacket.data = v]
<1>1. /\ o.hw.rxPacket = [d.hw.rxPacket EXCEPT !.data = v]
      /\ SameConfig(d, o) /\ SameAddress(d, o)
      /\ SameReceiver(d, o) /\ SameSender(d, o)
      /\ o.setupCallback = d.setupCallback
      /\ o.hw.txComplete = d.hw.txComplete /\ o.hw.itrEnable = d.hw.itrEnable
  BY PacketRewritten
<1> HIDE DEF o
<1>2. d.hw.rxPacket \in RxPackets
  BY Fields DEF Registers
<1>3. /\ o.hw.rxPacket.kind = d.hw.rxPacket.kind
      /\ o.hw.rxPacket.count = d.hw.rxPacket.count /\ o.hw.rxPacket.data = v
      /\ d.hw.rxPacket.kind = "none" => o.hw.rxPacket = d.hw.rxPacket
  BY <1>1, <1>2 DEF RxPackets
<1>4. Listening(o, h)
  BY <1>1, <1>3 DEF InStep, Listening, SameReceiver, SameSender, SameAddress
<1>5. Transferring(o, h)
  <2>1. /\ Refused(d) <=> Refused(o)
        /\ Acking(d) <=> Acking(o)
    BY <1>1 DEF Refused, Acking, SameSender, SameReceiver
  <2>2. Armed(d, h) => Armed(o, h)
    BY <1>1, <1>3 DEF Armed, SameSender, SameReceiver
  <2>3. (Offered(d, h) => Offered(o, h)) /\ (Sent(d, h) => Sent(o, h))
    BY <1>1 DEF Offered, Sent, SameSender, SameReceiver
  <2> QED BY <1>1, <1>3, <2>1, <2>2, <2>3
          DEF InStep, Transferring, Reading, Writing, Finishing,
              SameSender, SameReceiver
<1>6. Addressing(o, h)
  BY <1>1, <1>3 DEF InStep, Addressing, Ready, Completing, SameSender,
                    SameReceiver, SameAddress, SameConfig
<1>7. Configuring(o, h)
  BY <1>1, <1>3 DEF InStep, Configuring, Ready, Chosen, Up, SameSender, SameConfig
<1> QED BY <1>4, <1>5, <1>6, <1>7 DEF InStep, o

LEMMA ProcessEP0InStep ==
  ASSUME Conventional, IInv, Conversing, ProcessEP0In
  PROVE  Conversing'
<1> DEFINE e == [dev EXCEPT !.hw.txComplete = FALSE]
           o == HandleControllerInPacket(e)
<1>1. /\ Sound(dev) /\ host \in Hosts /\ Sound(e) /\ Sound(o)
      /\ dev.hw.txComplete /\ host' = host /\ app' = app
  BY FlagTaken, HandleControllerInPacketSound DEF IInv, TypeOK, ProcessEP0In
<1>2. PICK data \in StillReads(o) : dev' = [o EXCEPT !.hw.rxPacket.data = data]
  BY DEF ProcessEP0In
<1>3. /\ e.hw.itrEnable = dev.hw.itrEnable /\ e.hw.status = dev.hw.status
      /\ e.hw.forceSuspend = dev.hw.forceSuspend
      /\ e.usbSuspended = dev.usbSuspended /\ e.hw.rxPacket = dev.hw.rxPacket
  BY <1>1, FlagTaken
<1>4. Untouched(e, o)
  BY <1>1, HandleControllerInPacketKeeps
<1>5. /\ dev'.hw.itrEnable = o.hw.itrEnable /\ dev'.hw.status = o.hw.status
      /\ dev'.hw.forceSuspend = o.hw.forceSuspend
      /\ dev'.usbSuspended = o.usbSuspended
  BY <1>1, <1>2, PacketRewritten
<1>6. Attended' /\ (Live(dev', host') => Live(dev, host))
  <2>1. /\ dev'.hw.itrEnable = dev.hw.itrEnable /\ dev'.hw.status = dev.hw.status
        /\ dev'.hw.forceSuspend = dev.hw.forceSuspend
        /\ dev'.usbSuspended = dev.usbSuspended
    BY <1>3, <1>4, <1>5 DEF Untouched
  <2> QED BY <1>1, <2>1 DEF Conversing, Attended, Live
<1>7. ASSUME Live(dev, host)
      PROVE  InStep(dev', host)
  <2>1. InStep(dev, host) /\ host.phase # "gone"
    BY <1>7 DEF Conversing, Live
  <2>2. InStep(o, host) /\ dev.hw.rxPacket.kind \in {"none", "out"}
    BY <1>1, <2>1, SentInStep
  <2>3. o.hw.rxPacket = dev.hw.rxPacket
    BY <1>3, <1>4 DEF Untouched
  <2> HIDE DEF o, e
  <2>4. CASE dev.hw.rxPacket.kind = "none"
    <3>1. o.hw.rxPacket = NoPacket
      BY <2>2, <2>3, <2>4 DEF InStep, Listening
    <3>2. data = o.hw.rxPacket.data
      BY <3>1 DEF StillReads, NoPacket
    <3>3. o.hw.rxPacket.kind = "none"
      BY <2>3, <2>4
    <3> QED BY <1>1, <1>2, <2>2, <3>2, <3>3, RewrittenInStep
  <2>5. CASE dev.hw.rxPacket.kind = "out"
    <3>1. Inert(o.hw.rxPacket.data)
      BY <2>2, <2>3, <2>5 DEF InStep, Listening
    <3>2. Inert(data)
      BY <3>1 DEF StillReads, Conventional
    <3> QED BY <1>1, <1>2, <2>2, <2>3, <2>5, <3>2, RewrittenInStep
  <2> QED BY <2>2, <2>4, <2>5
<1> QED BY <1>1, <1>6, <1>7 DEF Conversing

-----------------------------------------------------------------------------
(* The host's steps.                                                       *)

\* A host that takes part in a transaction is in step.
LEMMA ReachableInStep ==
  ASSUME Conversing, Reachable
  PROVE  InStep(dev, host) /\ host.phase # "gone" /\ Attended
BY DEF Conversing, Live, Reachable

\* Whether the device is attended is not a matter of EP0.
LEMMA StaysAttended ==
  ASSUME Attended, SameButEP0(dev, dev'), app' = app,
         "reset" \notin dev.hw.status, host'.phase = "gone" => host.phase = "gone",
         host'.phase # "gone" => host.phase # "gone"
  PROVE  Attended'
BY DEF Attended, SameButEP0

LEMMA HostSetupInStep ==
  ASSUME PromptIRQ, Conventional, IInv, Conversing,
         NEW r \in Requests, HostSetup(r)
  PROVE  Conversing'
<1> DEFINE p == [kind |-> "setup", data |-> r, count |-> 8]
           o == dev'
           k == host'
<1>1. /\ Sound(dev) /\ host \in Hosts /\ Reachable /\ InOrder(r) /\ app' = app
      /\ host.phase = "idle" \/ host.req \in Abandonable
      /\ dev.hw.rxPacket = NoPacket /\ ~Raised
      /\ dev' = [dev EXCEPT !.hw.tx = "nack", !.hw.rx = "nack", !.hw.rxPacket = p]
  BY DEF IInv, TypeOK, HostSetup, HostAsks
<1>2. /\ k.phase = FirstPhase(r) /\ k.req = r /\ k.got = 0 /\ k.addr = host.addr
      /\ k.cfg = IF IsSetConfiguration(r) THEN 0 ELSE host.cfg
  BY <1>1 DEF HostSetup, HostAsks, Hosts
<1>7. p.kind = "setup" /\ p.data = r /\ p.count = 8
  OBVIOUS
<1> HIDE DEF p
<1>3. /\ SameButEP0(dev, o) /\ o.hw.rxPacket = p
      /\ o.hw.tx = "nack" /\ o.hw.txComplete = dev.hw.txComplete
  BY <1>1, SetupPut
<1>4. InStep(dev, host) /\ host.phase # "gone" /\ Attended
  BY <1>1, ReachableInStep
<1>5. /\ "ctr" \in dev.hw.itrEnable /\ dev.hw.enabled /\ ~dev.hw.txComplete
  BY <1>1, <1>4 DEF InStep, Listening, Raised, TransferPending
<1>6. ~dev.in.isMultiPart
  BY <1>1, <1>4 DEF InStep, Transferring
<1>8. /\ k.phase \in {"statusIn", "dataIn", "dataOut"}
      /\ k.phase \in {"dataIn", "dataOut"} => r.length # 0
  <2>1. r.dir \in {"in", "out"}
    BY HostAssumption DEF HostAssumption, SetupPackets
  <2> QED BY <1>2, <2>1 DEF FirstPhase
<1> HIDE DEF o, k
<1>9. Listening(o, k)
  BY <1>2, <1>3, <1>5, <1>7 DEF Listening, SameButEP0, SameAddress
<1>10. Transferring(o, k)
  BY <1>2, <1>3, <1>6, <1>7, <1>8 DEF Transferring, SameButEP0
<1>11. ~Completing(dev) /\ ~Completing(o) /\ ~Ready(o, k)
  BY <1>3, <1>5, <1>7 DEF Completing, Ready
<1>12. Addressing(o, k)
  <2>1. IsSetAddress(r) => host.addr = 0
    BY <1>1 DEF InOrder, IsSetAddress, IsSetConfiguration
  <2> QED BY <1>2, <1>3, <1>4, <1>7, <1>11, <2>1
          DEF InStep, Addressing, SameButEP0, SameAddress, SameConfig
<1>13. Configuring(o, k)
  <2>1. IsSetConfiguration(r) => host.addr # 0
    BY <1>1 DEF InOrder, IsSetAddress, IsSetConfiguration
  <2> QED BY <1>2, <1>3, <1>4, <1>11, <2>1
          DEF InStep, Configuring, Chosen, Up, SameButEP0, SameConfig
<1>14. Attended'
  BY <1>1, <1>3, <1>4, <1>8, StaysAttended DEF Reachable, o, k
<1> QED BY <1>9, <1>10, <1>12, <1>13, <1>14 DEF Conversing, InStep, o, k

LEMMA HostInInStep ==
  ASSUME Conventional, IInv, Conversing, HostIn
  PROVE  Conversing'
<1> DEFINE o == dev'
           k == host'
           len == dev.hw.txData.len
<1>1. /\ Sound(dev) /\ host \in Hosts /\ Reachable /\ app' = app
      /\ dev.hw.tx = "valid" /\ HostTakes(len)
      /\ dev' = [dev EXCEPT !.hw.tx = "nack", !.hw.txComplete = TRUE]
  BY DEF IInv, TypeOK, HostIn
<1>2. InStep(dev, host) /\ host.phase # "gone" /\ Attended
  BY <1>1, ReachableInStep
<1>3. /\ SameButEP0(dev, o) /\ o.hw.tx = "nack" /\ o.hw.txComplete
      /\ o.hw.rx = dev.hw.rx /\ o.hw.rxPacket = dev.hw.rxPacket
  BY <1>1, PacketTaken
<1>4. host.phase \in {"dataIn", "statusIn"} /\ host.req \in Requests
  BY <1>1, <1>2 DEF HostTakes, InStep, Transferring
<1>5. dev.hw.rxPacket.kind = "none"
  <2>1. dev.hw.rxPacket \in RxPackets
    BY <1>1, Fields DEF Registers
  <2> QED BY <1>1, <1>2, <1>4, <2>1
          DEF InStep, Listening, Transferring, Finishing, Refused, Armed, RxPackets
<1>6. /\ dev.hw.rxPacket = NoPacket /\ dev.hw.rx = "valid"
      /\ "ctr" \in dev.hw.itrEnable /\ dev.hw.enabled
  BY <1>2, <1>5 DEF InStep, Listening
<1>7. dev.usbState = "addressing" => ~Completing(dev) /\ dev.packet = host.req
  BY <1>2, <1>4, <1>5 DEF InStep, Addressing
<1>8. /\ dev.usbState # "addressing" => dev.hw.addr = host.addr
      /\ IsSetAddress(host.req) => host.addr = 0
      /\ dev.usbState = "addressing" =>
           /\ dev.hw.addr = 0 /\ dev.setupCallback = "address"
           /\ dev.activeConfig = 0 /\ host.addr = 0
  BY <1>2, <1>4, <1>7 DEF InStep, Addressing
<1>9. CASE host.phase = "statusIn"
  <2>1. k = Acknowledged
    BY <1>1, <1>9 DEF HostTakes
  <2>2. /\ k.phase = "idle" /\ k.req = ZeroPacket /\ k.got = 0
        /\ k.addr = IF IsSetAddress(host.req) THEN host.req.value ELSE host.addr
        /\ k.cfg = IF IsSetConfiguration(host.req) THEN host.req.value ELSE host.cfg
    BY <1>1, <2>1 DEF Acknowledged, Hosts
  <2> HIDE DEF o, k
  <2>3. /\ ~IsSetAddress(ZeroPacket) /\ ~IsSetConfiguration(ZeroPacket)
        /\ ~(IsSetAddress(host.req) /\ IsSetConfiguration(host.req))
    BY DEF IsSetAddress, IsSetConfiguration, ZeroPacket
  <2>4. Acking(dev) /\ Ready(dev, host) /\ ~dev.in.isMultiPart
    BY <1>1, <1>2, <1>5, <1>9
       DEF InStep, Transferring, Finishing, Refused, Ready
  <2>5. Listening(o, k) /\ Transferring(o, k)
    BY <1>3, <1>5, <1>6, <2>2, <2>4
       DEF Listening, Transferring, SameButEP0, SameAddress
  <2>6. ~Ready(o, k)
    BY <2>2 DEF Ready
  <2>7. Addressing(o, k)
    <3>1. CASE IsSetAddress(host.req)
      <4>1. dev.usbState = "addressing"
        BY <1>2, <2>4, <3>1 DEF InStep, Addressing
      <4>2. host.req.value < 128
        BY <1>4, <3>1 DEF Conventional, Mannerly, WellFormed
      <4>3. o.usbCtrlState # "dataTX"
        BY <1>3, <2>4 DEF Acking, SameButEP0
      <4>4. /\ o.packet = host.req /\ o.usbState = "addressing"
            /\ o.hw.addr = 0 /\ o.setupCallback = "address"
            /\ o.activeConfig = 0 /\ o.hw.rxPacket.kind = "none"
        BY <1>3, <1>5, <1>7, <1>8, <4>1 DEF SameButEP0, SameAddress, SameConfig
      <4>5. Completing(o)
        BY <1>3, <3>1, <4>4 DEF Completing
      <4> QED BY <2>2, <2>3, <2>6, <3>1, <4>2, <4>3, <4>4, <4>5 DEF Addressing
    <3>2. CASE ~IsSetAddress(host.req)
      <4>1. o.usbState = "addressing" => ~Completing(o)
        BY <1>3, <1>7, <3>2 DEF Completing, SameButEP0, SameAddress
      <4> QED BY <1>3, <1>5, <1>8, <2>2, <2>3, <2>6, <3>2, <4>1
              DEF Addressing, SameButEP0, SameAddress, SameConfig
    <3> QED BY <3>1, <3>2
  <2>8. Configuring(o, k)
    <3>1. k.addr = 0 => o.activeConfig = 0
      BY <1>2, <1>3, <1>8, <2>2 DEF InStep, Configuring, SameButEP0, SameConfig
    <3>2. k.cfg # 0 => Chosen(o) /\ o.activeConfig = k.cfg
      BY <1>2, <1>3, <2>2, <2>4
         DEF InStep, Configuring, SameButEP0, SameConfig, Chosen, Up
    <3> QED BY <2>3, <2>2, <2>6, <3>1, <3>2 DEF Configuring
  <2>9. Attended'
    BY <1>1, <1>2, <1>3, <2>2, StaysAttended DEF Reachable, o, k
  <2> QED BY <2>5, <2>7, <2>8, <2>9 DEF Conversing, InStep, o, k
<1>10. CASE host.phase = "dataIn"
  <2>1. /\ k.got = host.got + len /\ k.req = host.req
        /\ k.addr = host.addr /\ k.cfg = host.cfg
        /\ k.phase = IF len < epBufferSize \/ host.got + len >= host.req.length
                     THEN "statusOut" ELSE "dataIn"
    BY <1>1, <1>10 DEF HostTakes, Hosts
  <2>2. /\ Offered(dev, host) /\ host.req.dir = "in" /\ host.req.length # 0
        /\ dev.in.isMultiPart => host.req \notin Abandonable
    BY <1>1, <1>2, <1>5, <1>10
       DEF InStep, Transferring, Reading, Refused, Sent
  <2>3. IF dev.in.transferCount = 0
        THEN len < epBufferSize \/ host.got + len >= host.req.length
        ELSE /\ ~(len < epBufferSize \/ host.got + len >= host.req.length)
             /\ \E size \in Extent(Asked(host.req)) \cap Nat :
                  host.got + len + dev.in.transferCount
                    = Least(size, host.req.length)
             /\ \/ host.got + len + dev.in.transferCount = host.req.length
                \/ ~WholePackets(dev.in.transferCount)
    BY <1>1, <2>2, OfferedTaken
  <2>4. /\ k.phase = IF dev.in.transferCount = 0 THEN "statusOut" ELSE "dataIn"
        /\ ~IsSetAddress(host.req) /\ ~IsSetConfiguration(host.req)
    BY <1>4, <2>1, <2>2, <2>3, DataStageRequest DEF Conventional
  <2> HIDE DEF o, k
  <2>5. Listening(o, k)
    BY <1>3, <1>5, <1>6 DEF Listening, SameButEP0, SameAddress
  <2>6. Transferring(o, k)
    <3>1. CASE dev.in.transferCount = 0
      <4>1. ~dev.in.isMultiPart /\ dev.usbCtrlState # "dataRX"
        BY <2>2, <3>1 DEF Offered
      <4> QED BY <1>3, <1>4, <1>5, <2>1, <2>2, <2>4, <3>1, <4>1
              DEF Transferring, SameButEP0
    <3>2. CASE dev.in.transferCount # 0
      <4>1. Remaining(k, o.in.transferCount)
        BY <1>3, <2>1, <2>3, <3>2 DEF Remaining, SameButEP0
      <4>2. Sent(o, k)
        BY <1>3, <2>1, <2>2, <3>2, <4>1 DEF Sent, Offered, SameButEP0
      <4> QED BY <1>3, <1>4, <1>5, <2>1, <2>2, <2>4, <3>2, <4>2
              DEF Transferring, Reading, SameButEP0
    <3> QED BY <3>1, <3>2
  <2>7. ~Ready(o, k)
    BY <2>4 DEF Ready
  <2>8. o.usbState = "addressing" => ~Completing(o)
    BY <1>3, <1>7, <2>4 DEF Completing, SameButEP0, SameAddress
  <2>9. Addressing(o, k)
    BY <1>3, <1>5, <1>7, <1>8, <2>1, <2>4, <2>7, <2>8
       DEF Addressing, SameButEP0, SameAddress, SameConfig
  <2>10. Configuring(o, k)
    BY <1>2, <1>3, <2>1, <2>4, <2>7
       DEF InStep, Configuring, SameButEP0, SameConfig, Chosen, Up
  <2>11. Attended'
    BY <1>1, <1>2, <1>3, <2>4, StaysAttended DEF Reachable, o, k
  <2> QED BY <2>5, <2>6, <2>9, <2>10, <2>11 DEF Conversing, InStep, o, k
<1> QED BY <1>4, <1>9, <1>10

LEMMA HostStalledInStep ==
  ASSUME IInv, Conversing, HostStalled
  PROVE  Conversing'
<1> DEFINE k == host'
<1>1. /\ host \in Hosts /\ Reachable /\ dev' = dev /\ app' = app
      /\ dev.hw.tx = "stall" /\ host.phase \in {"dataIn", "statusIn"}
  BY DEF IInv, TypeOK, HostStalled
<1>2. InStep(dev, host) /\ host.phase # "gone" /\ Attended
  BY <1>1, ReachableInStep
<1>3. /\ k.phase = "idle" /\ k.req = ZeroPacket /\ k.got = 0
      /\ k.addr = host.addr /\ k.cfg = host.cfg
  BY <1>1 DEF HostStalled, HostRefused, Hosts
<1> HIDE DEF k
<1>4. ~dev.in.isMultiPart /\ dev.hw.rxPacket.kind # "setup"
  BY <1>1, <1>2 DEF InStep, Listening, Transferring
<1>5. dev.hw.rxPacket.kind = "out" => dev.usbCtrlState # "dataRX"
  BY <1>1, <1>2, <1>4
     DEF InStep, Listening, Transferring, Finishing, Armed, Refused
<1>6. Listening(dev, k)
  BY <1>2, <1>3, <1>4, <1>5 DEF InStep, Listening
<1>7. Transferring(dev, k)
  BY <1>3, <1>4 DEF Transferring
<1>8. /\ ~IsSetAddress(ZeroPacket) /\ ~IsSetConfiguration(ZeroPacket)
      /\ ~Ready(dev, k)
  BY <1>3 DEF IsSetAddress, IsSetConfiguration, ZeroPacket, Ready
<1>9. Addressing(dev, k)
  BY <1>1, <1>2, <1>3, <1>8 DEF InStep, Addressing
<1>10. Configuring(dev, k)
  BY <1>2, <1>3, <1>8 DEF InStep, Configuring
<1>11. Attended'
  BY <1>1, <1>2, <1>3, StaysAttended
     DEF Reachable, SameButEP0, SameConfig, SameAddress, k
<1> QED BY <1>1, <1>6, <1>7, <1>9, <1>10, <1>11 DEF Conversing, InStep, k

LEMMA HostOutDataInStep ==
  ASSUME Conventional, IInv, Conversing, HostOutData
  PROVE  Conversing'
<1> DEFINE count == Least(host.req.length - host.got, epBufferSize)
           k == host'
           o == dev'
<1>1. /\ Sound(dev) /\ host \in Hosts /\ Reachable /\ app' = app
      /\ dev.hw.rxPacket = NoPacket /\ host.phase = "dataOut"
      /\ HostSends(count)
  BY DEF IInv, TypeOK, HostOutData, CanReceive
<1>2. PICK data \in Payloads :
        dev' = [dev EXCEPT !.hw.rx = "nack",
                  !.hw.rxPacket = [kind |-> "out", data |-> data, count |-> count]]
  BY DEF HostOutData
<1> HIDE DEF count
<1> DEFINE p == [kind |-> "out", data |-> data, count |-> count]
<1>3. /\ p.kind = "out" /\ p.data = data /\ p.count = count /\ Inert(data)
      /\ NoPacket.kind = "none" /\ NoPacket.count = 0
  BY DEF Conventional, NoPacket
<1> HIDE DEF p
<1>4. /\ SameButEP0(dev, o) /\ o.hw.rxPacket = p
      /\ o.hw.tx = dev.hw.tx /\ o.hw.txComplete = dev.hw.txComplete
  <2>1. dev' = [dev EXCEPT !.hw.rx = "nack", !.hw.rxPacket = p]
    BY <1>2 DEF p
  <2> QED BY <1>1, <2>1, PacketPut
<1>5. InStep(dev, host) /\ host.phase # "gone" /\ Attended
  BY <1>1, ReachableInStep
<1>6. /\ k.got = host.got + count /\ k.req = host.req
      /\ k.addr = host.addr /\ k.cfg = host.cfg
      /\ k.phase = IF host.got + count = host.req.length
                   THEN "statusIn" ELSE "dataOut"
  BY <1>1 DEF HostSends, Hosts
<1> HIDE DEF k, o
<1>7. /\ Writing(dev, host) /\ host.req \in Requests /\ host.req.length # 0
      /\ ~dev.in.isMultiPart /\ ~dev.hw.txComplete
      /\ "ctr" \in dev.hw.itrEnable /\ dev.hw.enabled
  BY <1>1, <1>3, <1>5
     DEF InStep, Transferring, Listening, Writing, Refused, Armed
<1>8. /\ host.got \in Nat /\ host.req.length \in Nat /\ count \in Nat
      /\ k.got \in Nat /\ host.got + count = k.got
      /\ k.got <= host.req.length
  <2>1. host.got \in Nat /\ host.req.length \in Nat /\ host.got < host.req.length
    BY <1>1, <1>7, Words DEF Hosts, SetupPackets, Writing
  <2>2. count \in Nat /\ count <= host.req.length - host.got
    BY <2>1, PacketSize DEF count, Least
  <2> QED BY <1>6, <2>1, <2>2
<1>9. /\ k.phase = "dataOut" => k.got < k.req.length
      /\ k.phase = "statusIn" => k.got = k.req.length
      /\ k.phase \in {"dataOut", "statusIn"}
  BY <1>6, <1>8
<1>10. Refused(o) \/ Armed(o, k)
  <2>1. CASE Refused(dev)
    BY <1>4, <2>1 DEF Refused, SameButEP0
  <2>2. CASE Armed(dev, host)
    <3>1. dev.out.transferCount = host.req.length - host.got + 0
      BY <1>1, <1>3, <2>2 DEF Armed
    <3>2. dev.out.transferCount = k.req.length - k.got + count
      BY <1>6, <1>8, <3>1
    <3> QED BY <1>3, <1>4, <2>2, <3>2 DEF Armed, SameButEP0
  <2> QED BY <1>7, <2>1, <2>2 DEF Writing
<1>11. Listening(o, k)
  BY <1>3, <1>4, <1>7, <1>9 DEF Listening, SameButEP0, SameAddress
<1>12. Transferring(o, k)
  BY <1>3, <1>4, <1>6, <1>7, <1>9, <1>10
     DEF Transferring, Writing, Finishing, SameButEP0
<1>13. /\ ~IsSetAddress(host.req) /\ ~IsSetConfiguration(host.req)
       /\ ~Ready(o, k) /\ ~Completing(o) /\ ~Completing(dev)
  BY <1>3, <1>4, <1>7, DataStageRequest DEF Conventional, Ready, Completing
<1>14. Addressing(o, k)
  BY <1>1, <1>3, <1>4, <1>5, <1>6, <1>13
     DEF InStep, Addressing, SameButEP0, SameAddress, SameConfig
<1>15. Configuring(o, k)
  BY <1>4, <1>5, <1>6, <1>13
     DEF InStep, Configuring, SameButEP0, SameConfig, Chosen, Up
<1>16. Attended'
  BY <1>1, <1>4, <1>5, <1>9, StaysAttended DEF Reachable, o, k
<1> QED BY <1>11, <1>12, <1>14, <1>15, <1>16 DEF Conversing, InStep, o, k

LEMMA HostOutStatusInStep ==
  ASSUME Conventional, IInv, Conversing, HostOutStatus
  PROVE  Conversing'
<1> DEFINE p == [kind |-> "out", data |-> ZeroPacket, count |-> 0]
           k == host'
           o == dev'
<1>1. /\ Sound(dev) /\ host \in Hosts /\ Reachable /\ app' = app
      /\ dev.hw.rxPacket = NoPacket /\ host' = Acknowledged
      /\ \/ host.phase = "statusOut"
         \/ host.phase = "dataIn" /\ host.req \in Abandonable
      /\ dev' = [dev EXCEPT !.hw.rx = "nack", !.hw.rxPacket = p]
  BY DEF IInv, TypeOK, HostOutStatus, CanReceive
<1>2. /\ p.kind = "out" /\ p.data = ZeroPacket /\ p.count = 0 /\ Inert(ZeroPacket)
      /\ NoPacket.kind = "none"
  BY DEF Inert, ZeroPacket, NoPacket
<1> HIDE DEF p
<1>3. /\ SameButEP0(dev, o) /\ o.hw.rxPacket = p
      /\ o.hw.tx = dev.hw.tx /\ o.hw.txComplete = dev.hw.txComplete
  BY <1>1, PacketPut
<1>4. InStep(dev, host) /\ host.phase # "gone" /\ Attended
  BY <1>1, ReachableInStep
<1>5. host.req \in Requests /\ host.req.length # 0 /\ ~dev.in.isMultiPart
  BY <1>1, <1>4 DEF InStep, Transferring
<1>6. /\ ~IsSetAddress(host.req) /\ ~IsSetConfiguration(host.req)
      /\ ~IsSetAddress(ZeroPacket) /\ ~IsSetConfiguration(ZeroPacket)
  BY <1>5, DataStageRequest
     DEF Conventional, IsSetAddress, IsSetConfiguration, ZeroPacket
<1>7. /\ k.phase = "idle" /\ k.req = ZeroPacket
      /\ k.addr = host.addr /\ k.cfg = host.cfg
  BY <1>1, <1>6 DEF Acknowledged, Hosts
<1> HIDE DEF k, o
<1>8. /\ dev.usbCtrlState # "dataRX"
      /\ "ctr" \in dev.hw.itrEnable /\ dev.hw.enabled
  <2>1. dev.usbCtrlState # "dataRX"
    BY <1>1, <1>2, <1>4
       DEF InStep, Transferring, Reading, Refused, Offered, Sent
  <2> QED BY <1>4, <2>1 DEF InStep, Listening
<1>9. Listening(o, k)
  BY <1>2, <1>3, <1>7, <1>8 DEF Listening, SameButEP0, SameAddress
<1>10. Transferring(o, k)
  BY <1>3, <1>5, <1>7 DEF Transferring, SameButEP0
<1>11. dev.usbState = "addressing" =>
         /\ dev.packet = host.req /\ ~Completing(dev) /\ ~Completing(o)
  BY <1>1, <1>2, <1>3, <1>4, <1>6
     DEF InStep, Addressing, Completing, SameButEP0
<1>12. Addressing(o, k)
  BY <1>2, <1>3, <1>4, <1>6, <1>7, <1>11
     DEF InStep, Addressing, Ready, SameButEP0, SameAddress, SameConfig
<1>13. Configuring(o, k)
  BY <1>3, <1>4, <1>6, <1>7
     DEF InStep, Configuring, Ready, SameButEP0, SameConfig, Chosen, Up
<1>14. Attended'
  BY <1>1, <1>3, <1>4, <1>7, StaysAttended DEF Reachable, o, k
<1> QED BY <1>9, <1>10, <1>12, <1>13, <1>14 DEF Conversing, InStep, o, k

LEMMA HostResetInStep ==
  ASSUME IInv, Conversing, HostReset
  PROVE  Conversing'
<1> DEFINE s == dev.hw.status \cup {"reset"} \cup
                  (IF dev.hw.forceSuspend THEN {"wakeup"} ELSE {})
           g == [dev.hw EXCEPT !.addr = 0, !.enabled = FALSE, !.tx = "disabled",
                               !.rx = "disabled", !.eps = 0, !.status = s]
<1>1. Sound(dev) /\ app = "attached" /\ app' = app /\ HostFound
  BY DEF IInv, HostReset
<1>2. dev' = [dev EXCEPT !.hw = g]
  BY <1>1 DEF HostReset, Sound, Devices, Registers
<1>3. /\ g.status = s /\ g.itrEnable = dev.hw.itrEnable
      /\ g.forceSuspend = dev.hw.forceSuspend
  BY <1>1, Fields DEF Registers
<1> HIDE DEF g
<1>4. dev'.hw = g /\ dev'.usbSuspended = dev.usbSuspended
  BY <1>1, <1>2, RegistersReplaced
<1>5. host'.phase = "idle" /\ host'.addr = 0 /\ host'.cfg = 0
  BY <1>1 DEF HostFound, Lost
<1>6. Attended'
  BY <1>1, <1>3, <1>4, <1>5 DEF Conversing, Attended
<1>7. ~Live(dev', host')
  BY <1>3, <1>4 DEF Live
<1> QED BY <1>6, <1>7 DEF Conversing

\* What the host does without EP0.
LEMMA HostBesideEP0 ==
  ASSUME IInv, HostSuspend \/ HostResume \/ BusWakeup \/ HostUserTraffic
  PROVE  /\ SameTransfer(host, host') /\ app' = app /\ Unmoved(dev, dev')
         /\ "reset" \in dev'.hw.status <=> "reset" \in dev.hw.status
         /\ "wakeup" \in dev.hw.status => "wakeup" \in dev'.hw.status
<1>1. Sound(dev) /\ host \in Hosts /\ app' = app
  BY DEF IInv, TypeOK, HostSuspend, HostResume, BusWakeup, HostUserTraffic
<1>2. SameTransfer(host, host')
  <2>1. ASSUME NEW v
        PROVE  SameTransfer(host, [host EXCEPT !.suspended = v])
    BY <1>1 DEF SameTransfer, Hosts
  <2> QED BY <2>1, SameTransferItself
          DEF HostSuspend, HostResume, BusWakeup, HostUserTraffic
<1>3. CASE HostSuspend \/ BusWakeup
  <2>1. PICK e \in {"suspend", "wakeup"} :
          dev' = [dev EXCEPT !.hw.status = dev.hw.status \cup {e}]
    BY <1>3 DEF HostSuspend, BusWakeup
  <2> DEFINE s == dev.hw.status \cup {e}
  <2> HIDE DEF s
  <2>2. dev' = [dev EXCEPT !.hw.status = s]
    BY <2>1 DEF s
  <2>3. Unmoved(dev, dev') /\ dev'.hw.status = s
    BY <1>1, <2>2, FlagRaised DEF Unmoved
  <2> QED BY <1>1, <1>2, <2>3 DEF s
<1>4. CASE HostResume
  <2>1. dev' = dev
    BY <1>4 DEF HostResume
  <2> QED BY <1>1, <1>2, <2>1 DEF Unmoved, SamePipe, SameConfig
<1>5. CASE HostUserTraffic
  <2> DEFINE g == [dev.hw EXCEPT !.epComplete = TRUE]
  <2>1. dev' = [dev EXCEPT !.hw = g]
    BY <1>5 DEF HostUserTraffic
  <2>2. /\ g.rxPacket = dev.hw.rxPacket /\ g.eps = dev.hw.eps
        /\ g.addr = dev.hw.addr /\ g.enabled = dev.hw.enabled
        /\ g.tx = dev.hw.tx /\ g.rx = dev.hw.rx
        /\ g.txData = dev.hw.txData /\ g.txComplete = dev.hw.txComplete
        /\ g.itrEnable = dev.hw.itrEnable /\ g.status = dev.hw.status
        /\ g.forceSuspend = dev.hw.forceSuspend
    BY <1>1, Fields DEF Registers
  <2> HIDE DEF g
  <2>3. Unmoved(dev, dev') /\ dev'.hw.status = dev.hw.status
    BY <1>1, <2>1, <2>2, RegistersReplaced DEF Unmoved, SamePipe, SameConfig
  <2> QED BY <1>1, <1>2, <2>3
<1> QED BY <1>3, <1>4, <1>5

LEMMA HostOtherInStep ==
  ASSUME IInv, Conversing,
         HostSuspend \/ HostResume \/ BusWakeup \/ HostUserTraffic
  PROVE  Conversing'
<1>1. /\ SameTransfer(host, host') /\ app' = app /\ Unmoved(dev, dev')
      /\ "reset" \in dev'.hw.status <=> "reset" \in dev.hw.status
      /\ "wakeup" \in dev.hw.status => "wakeup" \in dev'.hw.status
  BY HostBesideEP0
<1>2. Attended'
  BY <1>1 DEF Conversing, Attended, SameTransfer, Unmoved
<1>3. Live(dev', host') => Live(dev, host)
  BY <1>1 DEF Live, SameTransfer
<1>4. Live(dev', host') => InStep(dev', host')
  BY <1>1, <1>3, PipeFrame DEF Conversing, Unmoved
<1> QED BY <1>2, <1>4 DEF Conversing

-----------------------------------------------------------------------------
(* The application's steps, and the theorem.                               *)

LEMMA ApplicationInStep ==
  ASSUME IInv, Conversing, Attach \/ DetachBus \/ DetachStack
  PROVE  Conversing'
<1>1. Sound(dev)
  BY DEF IInv
<1>2. CASE Attach
  <2>1. /\ app = "detached" /\ app' = "attached" /\ host' = host
        /\ host.phase = "gone"
    BY <1>2 DEF Attach, Conversing, Attended
  <2> DEFINE d == [dev EXCEPT !.hw.itrEnable = {"reset"}, !.hw.status = {},
                              !.activeConfig = 0]
  <2>2. /\ d.hw.itrEnable = {"reset"} /\ d.hw.status = {} /\ d \in Devices
        /\ d.usbSuspended = dev.usbSuspended
        /\ d.hw.forceSuspend = dev.hw.forceSuspend
    <3> DEFINE t == {"reset"}
               n == {}
               g == [dev.hw EXCEPT !.itrEnable = t, !.status = n]
    <3>1. /\ g.itrEnable = t /\ g.status = n /\ g \in Registers
          /\ g.forceSuspend = dev.hw.forceSuspend
      <4>1. t \in SUBSET Interrupts /\ n \in SUBSET Interrupts
        BY DEF Interrupts
      <4>2. dev.hw \in Registers
        BY <1>1, Fields
      <4> HIDE DEF t, n
      <4>3. /\ g.itrEnable = t /\ g.status = n
            /\ g.forceSuspend = dev.hw.forceSuspend
        BY <4>2 DEF Registers
      <4>4. g \in Registers
        BY <4>1, <4>2 DEF Registers
      <4> QED BY <4>3, <4>4
    <3>2. d = [dev EXCEPT !.hw = g, !.activeConfig = 0]
      BY <1>1 DEF Sound, Devices
    <3>3. 0 \in 0..configsCount
      BY BuildOptions
    <3> HIDE DEF g, d
    <3> QED BY <1>1, <3>1, <3>2, <3>3 DEF Sound, Devices
  <2>3. dev' = Address(d, 0)
    BY <1>2 DEF Attach
  <2> HIDE DEF d
  <2>4. /\ dev'.hw.itrEnable = {"reset"} /\ dev'.hw.status = {}
        /\ dev'.usbSuspended = dev.usbSuspended
        /\ dev'.hw.forceSuspend = dev.hw.forceSuspend
    BY <2>2, <2>3 DEF Address, Devices, Registers
  <2>5. Attended'
    BY <2>1, <2>4 DEF Conversing, Attended
  <2> QED BY <2>1, <2>5 DEF Conversing, Live
<1>3. CASE DetachBus
  <2>1. app' = "detaching" /\ host' = Lost
    BY <1>3 DEF DetachBus
  <2>2. host'.phase = "gone"
    BY <2>1 DEF Lost
  <2>3. /\ dev'.hw.status = dev.hw.status
        /\ dev'.usbSuspended = dev.usbSuspended
        /\ dev'.hw.forceSuspend = dev.hw.forceSuspend
    BY <1>1, <1>3 DEF DetachBus, Sound, Devices, Registers
  <2>4. Attended'
    BY <2>1, <2>2, <2>3 DEF Conversing, Attended
  <2> QED BY <2>2, <2>4 DEF Conversing, Live
<1>4. CASE DetachStack
  <2>1. app = "detaching" /\ app' = "detached" /\ host' = host
    BY <1>4 DEF DetachStack
  <2>2. host'.phase = "gone"
    BY <2>1 DEF Conversing, Attended
  <2>3. /\ dev'.hw.status = dev.hw.status
        /\ dev'.usbSuspended = dev.usbSuspended
        /\ dev'.hw.forceSuspend = dev.hw.forceSuspend
    BY <1>1, <1>4 DEF DetachStack, DeinitHandlers, Sound, Devices, Registers
  <2>4. Attended'
    BY <2>1, <2>2, <2>3 DEF Conversing, Attended
  <2> QED BY <2>2, <2>4 DEF Conversing, Live
<1> QED BY <1>2, <1>3, <1>4

LEMMA NextConversing ==
  ASSUME PromptIRQ, Conventional, IInv, Conversing, [Next]_vars
  PROVE  Conversing'
<1>1. CASE UNCHANGED vars
  BY <1>1 DEF vars, Conversing, Attended
<1>2. CASE Attach \/ DetachBus \/ DetachStack
  BY <1>2, ApplicationInStep
<1>3. CASE Interrupt
  BY <1>3, OtherInterruptStep, ProcessEP0OutStep, ProcessEP0InStep DEF Interrupt
<1>4. CASE Host
  BY <1>4, HostSetupInStep, HostInInStep, HostStalledInStep, HostOutDataInStep,
     HostOutStatusInStep, HostResetInStep, HostOtherInStep DEF Host
<1> QED BY <1>1, <1>2, <1>3, <1>4 DEF Next

\* With an interrupt that keeps up (PromptIRQ), and a host and drivers that
\* keep to the conventions (Conventional): whatever the interleaving of the
\* host, the interrupt and the application, EP0 is where the host takes it to
\* be, from a served bus reset to the next.
THEOREM InStepThroughout ==
  ASSUME PromptIRQ, Conventional
  PROVE  Spec => [](IInv /\ Conversing)
<1>1. Init => Conversing
  <2>1. ASSUME Init
        PROVE  Attended /\ ~Live(dev, host)
    BY <2>1 DEF Init, PowerOn, Lost, Attended, Live
  <2> QED BY <2>1 DEF Conversing
<1>2. IInv /\ Conversing /\ [Next]_vars => Conversing'
  BY NextConversing
<1> QED BY <1>1, <1>2, Invariance, PTL DEF Spec

\* With every event served nothing is under way at EP0.
LEMMA SettledInStep ==
  ASSUME Conversing, Settled, host.phase # "gone"
  PROVE  /\ InStep(dev, host)
         /\ dev.hw.rxPacket = NoPacket /\ dev.hw.rx = "valid" /\ ~dev.hw.txComplete
<1>1. "reset" \notin dev.hw.status
  BY DEF Conversing, Attended, Settled, Raised
<1>2. InStep(dev, host) /\ "ctr" \in dev.hw.itrEnable
  BY <1>1 DEF Conversing, Live, InStep, Listening
<1>3. dev.hw.rxPacket = NoPacket /\ ~dev.hw.txComplete
  BY <1>2 DEF Settled, Raised, TransferPending
<1>4. NoPacket.kind = "none"
  BY DEF NoPacket
<1> QED BY <1>2, <1>3, <1>4 DEF InStep, Listening

\* With an interrupt that keeps up (PromptIRQ), and a host and drivers that
\* keep to the conventions (Conventional): once every event has been served,
\* host and device agree on the address (src/device.cxx:30): no callback is
\* lost, and none that was left behind by another request is run in place of
\* it.
THEOREM AddressesStayAgreed ==
  ASSUME PromptIRQ, Conventional
  PROVE  Spec => []AddressAgreement
<1>1. IInv /\ Conversing => AddressAgreement
  <2> SUFFICES ASSUME IInv, Conversing, Settled, host.phase = "idle"
               PROVE  dev.hw.enabled /\ dev.hw.addr = host.addr
    BY DEF AddressAgreement, AddressesAgree
  <2>1. InStep(dev, host) /\ ~dev.hw.txComplete
    BY SettledInStep
  <2> QED BY <2>1 DEF InStep, Listening, Addressing, Completing
<1> QED BY <1>1, InStepThroughout, PTL

\* With an interrupt that keeps up (PromptIRQ), and a host and drivers that
\* keep to the conventions (Conventional): once every event has been served,
\* the configuration the host has seen acknowledged is active, its endpoints
\* are enabled and its handlers are up (src/stm32f1/device.cxx).
THEOREM ConfigsStayAgreed ==
  ASSUME PromptIRQ, Conventional
  PROVE  Spec => []ConfigAgreement
<1>1. IInv /\ Conversing => ConfigAgreement
  <2> SUFFICES ASSUME IInv, Conversing, Settled, host.phase = "idle", host.cfg # 0
               PROVE  /\ dev.activeConfig = host.cfg /\ dev.hw.eps = host.cfg
                      /\ host.cfg \in dev.handlersUp
    BY DEF ConfigAgreement, ConfigsAgree
  <2>1. InStep(dev, host)
    BY SettledInStep
  <2> QED BY <2>1 DEF InStep, Configuring, Chosen, Up
<1> QED BY <1>1, InStepThroughout, PTL

\* With an interrupt that keeps up (PromptIRQ), and a host and drivers that
\* keep to the conventions (Conventional): once every event has been served,
\* EP0 can take the next packet of whatever transfer the host is engaged in.
THEOREM TransfersStayOpen ==
  ASSUME PromptIRQ, Conventional
  PROVE  Spec => []NoDeadTransfer
<1>1. IInv /\ Conversing => NoDeadTransfer
  <2> SUFFICES ASSUME IInv, Conversing, Settled, Reachable
               PROVE  EP0Open
    BY DEF NoDeadTransfer, EP0Open
  <2>1. host.phase # "gone" /\ host.phase \in Phases
    BY DEF Reachable, IInv, TypeOK, Hosts, Phases
  <2>2. /\ InStep(dev, host)
        /\ dev.hw.rxPacket = NoPacket /\ dev.hw.rx = "valid" /\ ~dev.hw.txComplete
    BY <2>1, SettledInStep
  <2>3. NoPacket.kind = "none"
    BY DEF NoPacket
  <2>4. host.phase = "dataIn" => dev.hw.tx \in {"valid", "stall"}
    BY <2>2, <2>3 DEF InStep, Transferring, Reading, Refused, Offered, Sent
  <2>5. host.phase = "statusIn" => dev.hw.tx \in {"valid", "stall"}
    BY <2>2, <2>3 DEF InStep, Transferring, Finishing, Refused, Acking
  <2> QED BY <2>1, <2>2, <2>4, <2>5 DEF EP0Open, Phases
<1> QED BY <1>1, InStepThroughout, PTL

\* A host engaged in a transfer is in step with the device.
LEMMA EngagedInStep ==
  ASSUME Conversing, host.phase \in {"dataIn", "dataOut"}
  PROVE  InStep(dev, host)
BY DEF Conversing, Attended, Live

\* With an interrupt that keeps up (PromptIRQ), and a host and drivers that
\* keep to the conventions (Conventional): what the device offers in the data
\* stage of a read is the next packet of what the host asked for, wherever the
\* interrupt handler has got to (src/stm32f1/core.cxx:340).
THEOREM AnswersAreTheNextBytes ==
  ASSUME PromptIRQ, Conventional
  PROVE  Spec => []NextBytesAreTheAnswer
<1>1. IInv /\ Conversing => NextBytesAreTheAnswer
  <2> SUFFICES ASSUME Conversing, host.phase = "dataIn", dev.hw.tx = "valid",
                      dev.hw.rxPacket = NoPacket
               PROVE  /\ dev.hw.txData.obj = Asked(host.req)
                      /\ dev.hw.txData.off = host.got
    BY DEF NextBytesAreTheAnswer
  <2>1. InStep(dev, host) /\ NoPacket.kind = "none"
    BY EngagedInStep DEF NoPacket
  <2> QED BY <2>1 DEF InStep, Transferring, Reading, Refused, Offered, Sent
<1> QED BY <1>1, InStepThroughout, PTL

\* With an interrupt that keeps up (PromptIRQ), and a host and drivers that
\* keep to the conventions (Conventional): the device counts the bytes of a
\* write as the host does (src/device.cxx:331).
THEOREM WritesStayCounted ==
  ASSUME PromptIRQ, Conventional
  PROVE  Spec => []ReceivedSoFar
<1>1. IInv /\ Conversing => ReceivedSoFar
  <2> SUFFICES ASSUME IInv, Conversing, host.phase = "dataOut",
                      dev.usbCtrlState = "dataRX", dev.hw.rxPacket = NoPacket
               PROVE  dev.out.transferCount = host.req.length - host.got
    BY DEF ReceivedSoFar
  <2>1. InStep(dev, host) /\ NoPacket.kind = "none" /\ NoPacket.count = 0
    BY EngagedInStep DEF NoPacket
  <2>2. dev.out.transferCount = host.req.length - host.got + 0
    BY <2>1 DEF InStep, Transferring, Writing, Refused, Armed
  <2>3. host.req.length \in Nat /\ host.got \in Nat
    BY Words DEF IInv, TypeOK, Hosts, SetupPackets
  <2> QED BY <2>2, <2>3
<1> QED BY <1>1, InStepThroughout, PTL

\* A step that takes the device from the host's view leaves it no address.
LEMMA LostWithoutAddress ==
  ASSUME IInv, [Next]_vars, host.phase # "gone",
         dev'.hw.addr \notin {0, dev.hw.addr}
  PROVE  host'.phase # "gone"
<1>1. Sound(dev) /\ host' = host => host'.phase # "gone"
  OBVIOUS
<1>2. Sound(dev)
  BY DEF IInv
<1>3. CASE UNCHANGED vars \/ Interrupt \/ Attach \/ DetachStack
  BY <1>3 DEF vars, Interrupt, Attach, DetachStack, InterruptSuspended,
              InterruptReset, InterruptEvents, InterruptSuspend, ProcessEP0Out,
              ProcessEP0In, NothingForEP0, ProcessUserEndpoint
<1>4. CASE DetachBus
  BY <1>2, <1>4 DEF DetachBus, Sound, Devices, Registers
<1>5. CASE \E r \in Requests : HostSetup(r)
  <2>1. PICK r \in Requests : HostSetup(r)
    BY <1>5
  <2> DEFINE p == [kind |-> "setup", data |-> r, count |-> 8]
  <2>2. dev' = [dev EXCEPT !.hw.tx = "nack", !.hw.rx = "nack", !.hw.rxPacket = p]
    BY <2>1 DEF HostSetup
  <2> HIDE DEF p
  <2>3. SameButEP0(dev, dev')
    BY <1>2, <2>2, SetupPut
  <2> QED BY <2>3 DEF SameButEP0, SameAddress
<1>6. CASE HostIn
  <2>1. dev' = [dev EXCEPT !.hw.tx = "nack", !.hw.txComplete = TRUE]
    BY <1>6 DEF HostIn
  <2>2. SameButEP0(dev, dev')
    BY <1>2, <2>1, PacketTaken
  <2> QED BY <2>2 DEF SameButEP0, SameAddress
<1>7. CASE HostOutData \/ HostOutStatus
  <2>1. PICK p : dev' = [dev EXCEPT !.hw.rx = "nack", !.hw.rxPacket = p]
    BY <1>7 DEF HostOutData, HostOutStatus
  <2>2. SameButEP0(dev, dev')
    BY <1>2, <2>1, PacketPut
  <2> QED BY <2>2 DEF SameButEP0, SameAddress
<1>8. CASE HostReset
  <2>1. host'.phase = "idle"
    BY <1>8 DEF HostReset, HostFound, Lost
  <2> QED BY <2>1
<1>9. CASE HostStalled \/ HostSuspend \/ HostResume \/ BusWakeup \/ HostUserTraffic
  <2>1. \/ dev' = dev
        \/ \E s : dev' = [dev EXCEPT !.hw.status = s]
        \/ host' = host
    BY <1>9 DEF HostStalled, HostSuspend, HostResume, BusWakeup, HostUserTraffic
  <2>2. ASSUME NEW s, dev' = [dev EXCEPT !.hw.status = s]
        PROVE  dev'.hw.addr = dev.hw.addr
    BY <1>2, <2>2, FlagRaised DEF SamePipe
  <2> QED BY <2>1, <2>2
<1> QED BY <1>3, <1>4, <1>5, <1>6, <1>7, <1>8, <1>9 DEF Next, Host

\* With an interrupt that keeps up (PromptIRQ), and a host and drivers that
\* keep to the conventions (Conventional): the device takes the address of a
\* SET_ADDRESS only once the host has seen it acknowledged, whatever has become
\* of the callback (src/device.cxx:30).
THEOREM AddressFollowsStatus ==
  ASSUME PromptIRQ, Conventional
  PROVE  Spec => AddressAfterStatus
<1>1. ASSUME IInv, Conversing', [Next]_vars, host.phase # "gone",
             dev'.hw.addr \notin {0, dev.hw.addr}
      PROVE  host'.addr = dev'.hw.addr \/ "reset" \in dev'.hw.status
  <2>1. host'.phase # "gone"
    BY <1>1, LostWithoutAddress
  <2>2. Live(dev', host') => InStep(dev', host')
    BY <1>1 DEF Conversing
  <2> QED BY <1>1, <2>1, <2>2 DEF Live, InStep, Addressing
<1>2. IInv /\ Conversing /\ [Next]_vars /\ (IInv /\ Conversing)' =>
        [host.phase # "gone" /\ dev'.hw.addr \notin {0, dev.hw.addr} =>
           host'.addr = dev'.hw.addr \/ "reset" \in dev'.hw.status]_dev
  BY <1>1
<1> QED BY <1>2, InStepThroughout, PTL DEF Spec, AddressAfterStatus

-----------------------------------------------------------------------------
(* The stack is a control pipe.                                            *)

LEMMA RefinesInit == Init => Contract!Init
BY DEF Init, PowerOn, Lost, ZeroPacket, Offer, Running, Resetting, AddressOf,
       Contract!Init, Contract!Nothing

\* The steps beside EP0 are none of the contract's; a bus reset and a detached
\* bus are its Reset.
LEMMA BesideRefines ==
  ASSUME IInv, Conversing,
         \/ InterruptSuspended \/ InterruptReset  \/ InterruptEvents
         \/ InterruptSuspend   \/ NothingForEP0   \/ ProcessUserEndpoint
         \/ HostSuspend \/ HostResume \/ BusWakeup \/ HostUserTraffic
  PROVE  UNCHANGED Contract!vars
<1>1. Sound(dev) /\ Attended
  BY DEF IInv, Conversing
<1>2. CASE InterruptSuspended \/ InterruptEvents
  <2>1. dev' = Entered /\ "reset" \notin dev.hw.status /\ host' = host
    BY <1>1, <1>2, AsleepWithoutReset DEF InterruptSuspended, InterruptEvents
  <2> QED BY <1>1, <2>1, EnteredFrame, SameTransferItself, ViewKept DEF Resetting
<1>3. CASE InterruptReset
  <2>1. dev' = Reset(Entered) /\ "reset" \in dev.hw.status /\ host' = host
    BY <1>3 DEF InterruptReset
  <2>2. host.phase \in {"idle", "gone"} /\ (host.phase = "gone" \/ host.addr = 0)
    BY <1>1, <2>1 DEF Attended
  <2>3. Resetting(dev, host)
    BY <2>1 DEF Resetting
  <2>4. dev'.activeConfig = 0 /\ dev'.hw.addr = 0
    BY <1>1, <2>1, EnteredSound, ResetDone
  <2>5. /\ Offer(dev', host') = <<"nothing">> /\ Running(dev', host') = 0
        /\ AddressOf(dev', host') = 0
    BY <2>1, <2>2, <2>4 DEF Offer, Running, AddressOf
  <2> QED BY <2>1, <2>2, <2>3, <2>5, Unseen, SameTransferItself, ContractStutters
<1>4. CASE InterruptSuspend
  <2>1. /\ host' = host
        /\ dev' = [Suspend(dev) EXCEPT !.hw.status =
                     @ \cup (IF "reset" \in @ THEN {"wakeup"} ELSE {})]
    BY <1>4 DEF InterruptSuspend
  <2>2. /\ SamePipe(dev, dev')
        /\ "reset" \in dev'.hw.status <=> "reset" \in dev.hw.status
    BY <1>1, <2>1, SuspendFrame
  <2> QED BY <2>1, <2>2, SameTransferItself, ViewKept DEF Resetting
<1>5. CASE NothingForEP0 \/ ProcessUserEndpoint
  <2>1. host' = host
    BY <1>5 DEF NothingForEP0, ProcessUserEndpoint
  <2> QED BY <1>1, <1>5, <2>1, NothingServed, SameTransferItself, ViewKept
          DEF Resetting, Unmoved
<1>6. CASE HostSuspend \/ HostResume \/ BusWakeup \/ HostUserTraffic
  BY <1>6, HostBesideEP0, ViewKept DEF Resetting, Unmoved, SameTransfer
<1> QED BY <1>2, <1>3, <1>4, <1>5, <1>6

LEMMA ApplicationRefines ==
  ASSUME IInv, Conversing, Attach \/ DetachBus \/ DetachStack
  PROVE  [Contract!Next]_(Contract!vars)
<1>1. CASE Attach \/ DetachStack
  <2>1. host.phase = "gone" /\ host' = host
    BY <1>1 DEF Attach, DetachStack, Conversing, Attended
  <2>2. Resetting(dev, host) /\ Resetting(dev', host')
    BY <2>1 DEF Resetting
  <2> QED BY <2>1, <2>2, UnseenShows, SameTransferItself
<1>2. CASE DetachBus
  <2>1. host' = Lost /\ Resetting(dev', host')
    BY <1>2 DEF DetachBus, Lost, Resetting
  <2> QED BY <2>1, ContractResets DEF Contract!Next, Contract!Host
<1> QED BY <1>1, <1>2

LEMMA HostResetRefines ==
  ASSUME IInv, HostReset
  PROVE  Contract!Next
<1>1. "reset" \in dev'.hw.status /\ HostFound
  BY DEF HostReset, IInv, Sound, Devices, Registers
<1>2. Resetting(dev', host')
  BY <1>1 DEF Resetting
<1> QED BY <1>1, <1>2, ContractResets DEF Contract!Next, Contract!Host

-----------------------------------------------------------------------------
(* The host's steps are the contract's.                                    *)

LEMMA HostSetupRefines ==
  ASSUME IInv, NEW r \in Requests, HostSetup(r)
  PROVE  Contract!Next
<1> DEFINE p == [kind |-> "setup", data |-> r, count |-> 8]
<1>1. /\ Sound(dev) /\ host \in Hosts /\ HostAsks(r)
      /\ dev' = [dev EXCEPT !.hw.tx = "nack", !.hw.rx = "nack", !.hw.rxPacket = p]
  BY DEF IInv, TypeOK, HostSetup
<1> HIDE DEF p
<1>2. SameButEP0(dev, dev') /\ dev'.hw.tx = "nack"
  BY <1>1, SetupPut
<1> QED BY <1>1, <1>2, AskShows

LEMMA HostInRefines ==
  ASSUME IInv, Conversing, HostIn
  PROVE  Contract!Next
<1>1. /\ Sound(dev) /\ host \in Hosts /\ Reachable
      /\ dev.hw.tx = "valid" /\ HostTakes(dev.hw.txData.len)
      /\ dev' = [dev EXCEPT !.hw.tx = "nack", !.hw.txComplete = TRUE]
  BY DEF IInv, TypeOK, HostIn
<1>2. InStep(dev, host) /\ host.phase # "gone"
  BY <1>1, ReachableInStep
<1>3. SameButEP0(dev, dev') /\ dev'.hw.tx = "nack"
  BY <1>1, PacketTaken
<1>4. dev.hw.rxPacket.kind \in {"none", "setup", "out"}
  BY <1>1, Fields DEF Registers, RxPackets
<1>5. host.phase = "statusIn" => dev.hw.txData.len = 0
  BY <1>1, <1>2, <1>4
     DEF InStep, Listening, Transferring, Finishing, Refused, Armed, Acking
<1> QED BY <1>1, <1>3, <1>5, TakeShows

LEMMA HostStalledRefines ==
  ASSUME IInv, HostStalled
  PROVE  Contract!Next
<1>1. /\ host \in Hosts /\ dev' = dev /\ dev.hw.tx = "stall" /\ HostRefused
      /\ host.phase \in {"dataIn", "statusIn"}
  BY DEF IInv, TypeOK, HostStalled
<1>2. SameButEP0(dev, dev')
  BY <1>1 DEF SameButEP0, SameConfig, SameAddress
<1> QED BY <1>1, <1>2, RefusalShows

LEMMA HostOutDataRefines ==
  ASSUME IInv, Conversing, HostOutData
  PROVE  Contract!Next
<1> DEFINE count == Least(host.req.length - host.got, epBufferSize)
<1>1. /\ Sound(dev) /\ host \in Hosts /\ Reachable
      /\ dev.hw.rxPacket = NoPacket /\ host.phase = "dataOut"
      /\ HostSends(count)
  BY DEF IInv, TypeOK, HostOutData, CanReceive
<1>2. PICK data \in Payloads :
        dev' = [dev EXCEPT !.hw.rx = "nack",
                  !.hw.rxPacket = [kind |-> "out", data |-> data, count |-> count]]
  BY DEF HostOutData
<1> DEFINE p == [kind |-> "out", data |-> data, count |-> count]
<1>3. dev' = [dev EXCEPT !.hw.rx = "nack", !.hw.rxPacket = p]
  BY <1>2
<1> HIDE DEF p
<1>4. SameButEP0(dev, dev') /\ dev'.hw.tx = dev.hw.tx
  BY <1>1, <1>3, PacketPut
<1>5. dev.hw.tx \in {"stall", "nack"}
  BY <1>1, ReachableInStep DEF InStep, Transferring, Writing, Refused, Armed, NoPacket
<1> QED BY <1>1, <1>4, <1>5, SendShows

LEMMA HostOutStatusRefines ==
  ASSUME Conventional, IInv, Conversing, HostOutStatus
  PROVE  Contract!Next
<1> DEFINE p == [kind |-> "out", data |-> ZeroPacket, count |-> 0]
<1>1. /\ Sound(dev) /\ host \in Hosts /\ Reachable
      /\ dev.hw.rxPacket = NoPacket /\ host' = Acknowledged
      /\ \/ host.phase = "statusOut"
         \/ host.phase = "dataIn" /\ host.req \in Abandonable
      /\ dev' = [dev EXCEPT !.hw.rx = "nack", !.hw.rxPacket = p]
  BY DEF IInv, TypeOK, HostOutStatus, CanReceive
<1> HIDE DEF p
<1>2. SameButEP0(dev, dev')
  BY <1>1, PacketPut
<1>3. InStep(dev, host) /\ host.phase # "gone"
  BY <1>1, ReachableInStep
<1>4. ~IsSetAddress(host.req)
  <2>1. host.req \in Requests /\ host.req.length # 0
    BY <1>1, <1>3 DEF InStep, Transferring
  <2> QED BY <2>1, DataStageRequest DEF Conventional
<1> QED BY <1>1, <1>2, <1>4, StatusShows

-----------------------------------------------------------------------------
(* EP0's steps are the contract's, or show in none of its variables.       *)

\* While the device counts as reset EP0 serves nobody.
LEMMA ServedUnseen ==
  ASSUME Conversing, ~Live(dev, host), host' = host, dev'.hw.status = dev.hw.status
  PROVE  UNCHANGED Contract!vars
<1>1. /\ host.phase \in {"idle", "gone"}
      /\ Resetting(dev, host) /\ Resetting(dev', host')
  BY DEF Conversing, Attended, Live, Resetting
<1> QED BY <1>1, UnseenShows, SameTransferItself

\* A request that has been read is accepted, refused or answered with the first
\* bytes of its object; or its data is awaited.
LEMMA SetupRefines ==
  ASSUME Conventional, IInv, Conversing, Live(dev, host),
         dev.hw.rxPacket.kind = "setup",
         NEW ans \in ClassAnswers[dev.hw.rxPacket.data.dir], host' = host,
         dev' = HandleSetupPacket([dev EXCEPT !.hw.rxPacket = NoPacket],
                                  dev.hw.rxPacket, ans)
  PROVE  [Contract!Next]_(Contract!vars)
<1> DEFINE rx == dev.hw.rxPacket
           e  == [dev EXCEPT !.hw.rxPacket = NoPacket]
           p  == host.req
<1>1. /\ Sound(dev) /\ host \in Hosts /\ InStep(dev, host)
      /\ host.phase # "gone" /\ "reset" \notin dev.hw.status
  BY DEF IInv, TypeOK, Conversing, Live
<1>2. /\ rx.data = p /\ rx.count = 8 /\ p \in Requests /\ host.got = 0
      /\ host.phase = FirstPhase(p) /\ dev.hw.tx = "nack" /\ ~dev.in.isMultiPart
  BY <1>1 DEF InStep, Listening, Transferring
<1>3. /\ Sound(e) /\ rx \in RxPackets /\ ans \in Answers /\ rx.count >= 8
      /\ WellFormed(p)
  BY <1>1, <1>2, PacketFetched, Fetched DEF Conventional, Mannerly
<1>4. /\ e.hw.tx = "nack" /\ ~e.in.isMultiPart /\ e.hw.addr = dev.hw.addr
      /\ e.hw.status = dev.hw.status /\ SameConfig(dev, e)
  BY <1>1, <1>2, PacketFetched DEF SameAddress, SameSender
<1>5. Running(e, host) = Running(dev, host) /\ AddressOf(e, host) = AddressOf(dev, host)
  BY <1>4 DEF Running, AddressOf, Resetting, SameConfig
<1> HIDE DEF e
<1>6. /\ Untouched(e, dev') /\ Outcome(p, "nack", dev')
      /\ Effects(p, e, dev', dev'.hw.tx = "valid")
  BY <1>2, <1>3, <1>4, SetupOutcome DEF e, Conventional
<1>7. /\ AddressOf(dev', host) = AddressOf(dev, host)
      /\ ~IsSetConfiguration(p) => Running(dev', host) = Running(dev, host)
      /\ IsSetConfiguration(p) =>
           IF dev'.hw.tx = "valid" THEN Running(dev', host) = p.value % 256
           ELSE Running(dev', host) \in {Running(dev, host), 0}
  BY <1>1, <1>4, <1>5, <1>6, SetupRuns DEF Untouched
<1> QED BY <1>1, <1>2, <1>3, <1>6, <1>7, RequestShows

\* A packet of a write or of a status stage has been read: the last of a write is
\* acknowledged, and nothing else shows.
LEMMA OutRefines ==
  ASSUME Conventional, IInv, Conversing, Live(dev, host),
         dev.hw.rxPacket.kind = "out", NEW ans, host' = host,
         dev' = HandleControllerOutPacket([dev EXCEPT !.hw.rxPacket = NoPacket],
                                          dev.hw.rxPacket, ans)
  PROVE  [Contract!Next]_(Contract!vars)
<1> DEFINE rx == dev.hw.rxPacket
           e  == [dev EXCEPT !.hw.rxPacket = NoPacket]
<1>1. /\ Sound(dev) /\ host \in Hosts /\ InStep(dev, host)
      /\ host.phase # "gone" /\ "reset" \notin dev.hw.status
  BY DEF IInv, TypeOK, Conversing, Live
<1>2. /\ Inert(rx.data) /\ host.phase \in {"idle", "dataOut", "statusIn"}
      /\ host.phase = "idle" => dev.usbCtrlState # "dataRX"
      /\ ~dev.in.isMultiPart
  BY <1>1 DEF InStep, Listening, Transferring
<1>3. /\ Sound(e) /\ rx \in RxPackets
      /\ dev' = HandleControllerOutPacket(e, rx, ans)
  BY <1>1, PacketFetched, Fetched
<1>4. /\ e.hw.tx = dev.hw.tx /\ e.in = dev.in /\ e.out = dev.out
      /\ e.usbCtrlState = dev.usbCtrlState /\ e.packet = dev.packet
      /\ e.hw.addr = dev.hw.addr /\ e.usbState = dev.usbState
      /\ e.setupCallback = dev.setupCallback /\ e.hw.status = dev.hw.status
      /\ SameConfig(dev, e)
  BY <1>1, PacketFetched DEF SameAddress, SameSender, SameReceiver
<1> HIDE DEF e
<1>5. /\ host.phase # "idle" => host.req \in Requests /\ host.req.length # 0
      /\ host.phase = "dataOut" =>
           host.got < host.req.length /\ (Refused(dev) \/ Armed(dev, host))
      /\ host.phase = "statusIn" =>
           host.got = host.req.length /\ (Refused(dev) \/ Armed(dev, host))
  BY <1>1, <1>2 DEF InStep, Transferring, Finishing, Writing
<1>6. /\ dev.usbState = "addressing" =>
           /\ dev.hw.addr = 0 /\ dev.setupCallback = "address"
           /\ ~IsSetAddress(dev.packet)
  BY <1>1 DEF InStep, Addressing
<1>7. ASSUME CalledBack(e, dev') \/ Keeps(e, dev'), Untouched(e, dev')
      PROVE  /\ AddressOf(dev', host) = AddressOf(dev, host)
             /\ Running(dev', host) = Running(dev, host)
  <2>1. SameConfig(dev, dev') /\ dev'.hw.status = dev.hw.status
    BY <1>4, <1>7 DEF CalledBack, Keeps, SameConfig, Untouched
  <2>2. dev'.hw.addr = dev.hw.addr
    <3>1. CASE dev.usbState = "addressing"
      BY <1>4, <1>6, <1>7, <3>1 DEF CalledBack, Keeps, SameAddress
    <3>2. CASE dev.usbState # "addressing"
      BY <1>4, <1>7, <3>2 DEF CalledBack, Keeps, SameAddress
    <3> QED BY <3>1, <3>2
  <2> QED BY <2>1, <2>2 DEF AddressOf, Running, Resetting, SameConfig
<1>8. CASE dev.usbCtrlState = "dataRX"
  <2>1. host.phase \in {"dataOut", "statusIn"} /\ Armed(dev, host)
    BY <1>2, <1>5, <1>8 DEF Refused
  <2>2. host.req.length \in Nat /\ host.got \in Nat /\ rx.count \in Nat
    BY <1>1, <1>3, Words DEF Hosts, SetupPackets, RxPackets
  <2>3. /\ rx.count <= dev.out.transferCount
        /\ host.phase = "statusIn" <=> dev.out.transferCount = rx.count
    BY <1>5, <2>1, <2>2 DEF Armed
  <2>4. /\ Untouched(e, dev')
        /\ IF dev.out.transferCount = rx.count
           THEN CalledBack(e, dev') /\ dev'.hw.tx = "valid" /\ dev'.hw.txData.len = 0
           ELSE Keeps(e, dev') /\ dev'.hw.tx = e.hw.tx
    BY <1>2, <1>3, <1>4, <1>8, <2>1, <2>3, DataRead DEF Armed
  <2>5. /\ AddressOf(dev', host) = AddressOf(dev, host)
        /\ Running(dev', host) = Running(dev, host)
    BY <1>7, <2>4
  <2>6. Offer(dev, host) = Contract!Nothing
    BY <2>1, NothingOffered DEF Armed
  <2>7. CASE host.phase = "dataOut"
    <3>1. Offer(dev', host) = Contract!Nothing
      BY <1>4, <2>1, <2>3, <2>4, <2>7, NothingOffered DEF Armed
    <3> QED BY <2>5, <2>6, <3>1, AddressShows
  <2>8. CASE host.phase = "statusIn"
    <3>1. Offer(dev', host) = Contract!Ack
      BY <2>3, <2>4, <2>8 DEF Offer, Contract!Ack
    <3>2. ~IsSetConfiguration(host.req)
      BY <1>5, <2>8, DataStageRequest DEF Conventional
    <3> QED BY <2>5, <2>6, <2>8, <3>1, <3>2, WriteShows
  <2> QED BY <2>1, <2>7, <2>8
<1>9. CASE dev.usbCtrlState # "dataRX"
  <2>1. Untouched(e, dev') /\ CalledBack(e, dev') /\ dev'.hw.tx = "stall"
    BY <1>2, <1>3, <1>4, <1>9, StatusRead
  <2>2. host.phase # "idle" => dev.hw.tx = "stall"
    BY <1>2, <1>5, <1>9 DEF Refused, Armed
  <2>3. Offer(dev', host) = Offer(dev, host)
    BY <1>2, <2>1, <2>2, Refusing, NothingOffered
  <2> QED BY <1>7, <2>1, <2>3, AddressShows
<1> QED BY <1>8, <1>9

LEMMA ProcessEP0OutRefines ==
  ASSUME Conventional, IInv, Conversing, ProcessEP0Out
  PROVE  [Contract!Next]_(Contract!vars)
<1> DEFINE e == [dev EXCEPT !.hw.rxPacket = NoPacket]
           rx == dev.hw.rxPacket
<1>1. /\ Sound(dev) /\ Sound(e) /\ rx \in RxPackets
      /\ ClassAnswers[rx.data.dir] \subseteq Answers
      /\ host' = host /\ rx # NoPacket /\ e.hw.status = dev.hw.status
  BY PacketFetched, Fetched DEF IInv, ProcessEP0Out
<1>2. PICK ans \in ClassAnswers[rx.data.dir] :
        dev' = HandleControlPacket(e, rx, ans)
  BY DEF ProcessEP0Out
<1>3. dev' = IF rx.kind = "setup" THEN HandleSetupPacket(e, rx, ans)
             ELSE HandleControllerOutPacket(e, rx, ans)
  BY <1>2 DEF HandleControlPacket
<1>4. CASE ~Live(dev, host)
  <2>1. Untouched(e, dev')
    BY <1>1, <1>3, HandleSetupPacketKeeps, HandleControllerOutPacketKeeps
  <2>2. dev'.hw.status = dev.hw.status
    BY <1>1, <2>1 DEF Untouched
  <2> QED BY <1>1, <1>4, <2>2, ServedUnseen
<1>5. CASE Live(dev, host)
  <2>1. rx.kind \in {"setup", "out"}
    BY <1>1, <1>5 DEF Conversing, InStep, Listening, RxPackets
  <2>2. CASE rx.kind = "setup"
    BY <1>1, <1>3, <1>5, <2>2, SetupRefines
  <2>3. CASE rx.kind = "out"
    BY <1>1, <1>3, <1>5, <2>3, OutRefines
  <2> QED BY <2>1, <2>2, <2>3
<1> QED BY <1>4, <1>5

\* A packet that has been sent is followed by the next one of the answer, or by
\* the address its status stage has promised.
LEMMA SentRefines ==
  ASSUME IInv, Conversing, Live(dev, host), dev.hw.txComplete, host' = host, NEW o,
         o = HandleControllerInPacket([dev EXCEPT !.hw.txComplete = FALSE]),
         SameConfig(o, dev'), SameAddress(o, dev'), SameSender(o, dev'),
         dev'.hw.status = o.hw.status
  PROVE  [Contract!Next]_(Contract!vars)
<1> DEFINE e == [dev EXCEPT !.hw.txComplete = FALSE]
<1>1. /\ Sound(dev) /\ host \in Hosts /\ InStep(dev, host)
      /\ host.phase # "gone" /\ "reset" \notin dev.hw.status
      /\ Sound(e) /\ Sound(o)
  BY FlagTaken, HandleControllerInPacketSound DEF IInv, TypeOK, Conversing, Live
<1>2. /\ ~e.hw.txComplete /\ e.in = dev.in /\ e.packet = dev.packet
      /\ e.hw.addr = dev.hw.addr /\ e.usbState = dev.usbState
      /\ e.usbCtrlState = dev.usbCtrlState /\ e.setupCallback = dev.setupCallback
      /\ e.hw.status = dev.hw.status /\ SameConfig(dev, e)
  BY <1>1, FlagTaken DEF SameAddress, SameSender, SameReceiver
<1>3. /\ SameConfig(o, dev') /\ dev'.hw.addr = o.hw.addr
      /\ dev'.hw.tx = o.hw.tx /\ dev'.hw.txData = o.hw.txData
      /\ dev'.hw.status = dev.hw.status
  <2>1. o.hw.status = dev.hw.status
    BY <1>1, <1>2, HandleControllerInPacketKeeps DEF Untouched
  <2> QED BY <2>1 DEF SameAddress, SameSender
<1>4. o = HandleControllerInPacket(e)
  OBVIOUS
<1> HIDE DEF e
<1>5. dev.hw.rxPacket.kind \in {"none", "setup", "out"}
  BY <1>1, Fields DEF Registers, RxPackets
<1>6. dev.hw.rxPacket.kind # "setup"
  BY <1>1 DEF InStep, Listening
<1>7. host.phase \in {"dataIn", "idle", "statusOut"}
  BY <1>1, <1>5, <1>6
     DEF Hosts, InStep, Transferring, Writing, Finishing, Refused, Armed, Acking
<1>8. CASE host.phase = "dataIn"
  <2>1. Sent(dev, host) /\ host.req \in Requests /\ host.req.length # 0
    BY <1>1, <1>6, <1>8 DEF InStep, Transferring, Reading, Refused, Offered
  <2>2. Offered(o, host) /\ Keeps(e, o)
    BY <1>1, <1>2, <1>4, <2>1, NextPacketSent DEF Sent
  <2>3. Offer(dev, host) = Contract!Nothing
    BY <2>1, NothingOffered DEF Sent
  <2>4. Running(dev', host) = Running(dev, host)
        /\ AddressOf(dev', host) = AddressOf(dev, host)
    BY <1>2, <1>3, <2>2 DEF Keeps, SameConfig, SameAddress, Running, AddressOf, Resetting
  <2> QED BY <1>1, <1>3, <1>8, <2>1, <2>2, <2>3, <2>4, NextDataShows
<1>9. CASE host.phase # "dataIn"
  <2>1. Offer(dev, host) = Contract!Nothing /\ Offer(dev', host) = Contract!Nothing
    BY <1>7, <1>9, NothingOffered
  <2>2. Resetting(dev', host) <=> Resetting(dev, host)
    BY <1>3 DEF Resetting
  <2>3. ASSUME SameConfig(e, o)
        PROVE  Running(dev', host) = Running(dev, host)
    BY <1>2, <1>3, <2>2, <2>3 DEF SameConfig, Running
  <2>4. CASE dev.usbCtrlState = "dataTX"
    <3>1. Keeps(e, o)
      BY <1>1, <1>2, <1>4, <2>4, AnyPacketSent
    <3>2. AddressOf(dev', host) = AddressOf(dev, host)
      BY <1>2, <1>3, <2>2, <3>1 DEF Keeps, SameAddress, AddressOf
    <3> QED BY <2>1, <2>3, <3>1, <3>2, AddressShows DEF Keeps
  <2>5. CASE dev.usbCtrlState # "dataTX"
    <3>1. o = RunCallback([e EXCEPT !.usbCtrlState = "idle"])
      BY <1>2, <1>4, <2>5 DEF HandleControllerInPacket
    <3>2. CalledBack(e, o)
      BY <1>1, <3>1, TransferEnded
    <3>3. Running(dev', host) = Running(dev, host)
      BY <2>3, <3>2 DEF CalledBack
    <3>4. o.hw.addr \in {dev.hw.addr, host.addr}
      <4>1. CASE dev.usbState # "addressing"
        BY <1>2, <3>2, <4>1 DEF CalledBack, SameAddress
      <4>2. CASE dev.usbState = "addressing" /\ IsSetAddress(dev.packet)
        <5>1. /\ host.addr = dev.packet.value /\ host.addr < 128
              /\ dev.setupCallback = "address"
          BY <1>1, <4>2 DEF InStep, Addressing, Completing
        <5>2. host.addr \in Nat
          BY <1>1, Words DEF Hosts
        <5>3. host.addr % 128 = host.addr
          BY <5>1, <5>2
        <5> QED BY <1>2, <3>2, <4>2, <5>1, <5>2, <5>3 DEF CalledBack
      <4>3. CASE dev.usbState = "addressing" /\ ~IsSetAddress(dev.packet)
        <5>1. dev.setupCallback = "address" /\ dev.hw.addr = 0
          BY <1>1, <4>3 DEF InStep, Addressing
        <5> QED BY <1>2, <3>2, <4>3, <5>1 DEF CalledBack
      <4> QED BY <4>1, <4>2, <4>3
    <3>5. AddressOf(dev', host) \in {AddressOf(dev, host), host.addr}
      BY <1>1, <1>3, <3>4 DEF AddressOf, Resetting
    <3> QED BY <2>1, <3>3, <3>5, AddressShows
  <2> QED BY <2>4, <2>5
<1> QED BY <1>7, <1>8, <1>9

LEMMA ProcessEP0InRefines ==
  ASSUME IInv, Conversing, ProcessEP0In
  PROVE  [Contract!Next]_(Contract!vars)
<1> DEFINE e == [dev EXCEPT !.hw.txComplete = FALSE]
           o == HandleControllerInPacket(e)
<1>1. /\ Sound(dev) /\ Sound(e) /\ Sound(o) /\ dev.hw.txComplete /\ host' = host
  BY FlagTaken, HandleControllerInPacketSound DEF IInv, ProcessEP0In
<1>2. PICK data \in StillReads(o) : dev' = [o EXCEPT !.hw.rxPacket.data = data]
  BY DEF ProcessEP0In
<1>3. o.hw.status = dev.hw.status
  BY <1>1, FlagTaken, HandleControllerInPacketKeeps DEF Untouched
<1> HIDE DEF o, e
<1>4. /\ SameConfig(o, dev') /\ SameAddress(o, dev') /\ SameSender(o, dev')
      /\ dev'.hw.status = o.hw.status
  BY <1>1, <1>2, PacketRewritten
<1>5. CASE ~Live(dev, host)
  BY <1>1, <1>3, <1>4, <1>5, ServedUnseen
<1>6. CASE Live(dev, host)
  BY <1>1, <1>4, <1>6, SentRefines DEF o, e
<1> QED BY <1>5, <1>6

LEMMA StepRefines ==
  ASSUME PromptIRQ, Conventional, IInv, Conversing, [Next]_vars
  PROVE  [Contract!Next]_(Contract!vars)
<1>1. CASE Attach \/ DetachBus \/ DetachStack
  BY <1>1, ApplicationRefines
<1>2. CASE \/ InterruptSuspended \/ InterruptReset  \/ InterruptEvents
           \/ InterruptSuspend   \/ NothingForEP0   \/ ProcessUserEndpoint
           \/ HostSuspend \/ HostResume \/ BusWakeup \/ HostUserTraffic
  BY <1>2, BesideRefines
<1>3. CASE ProcessEP0Out
  BY <1>3, ProcessEP0OutRefines
<1>4. CASE ProcessEP0In
  BY <1>4, ProcessEP0InRefines
<1>5. CASE \E r \in Requests : HostSetup(r)
  BY <1>5, HostSetupRefines
<1>6. CASE HostIn \/ HostStalled \/ HostOutData \/ HostOutStatus \/ HostReset
  BY <1>6, HostInRefines, HostStalledRefines, HostOutDataRefines,
     HostOutStatusRefines, HostResetRefines
<1>7. CASE UNCHANGED vars
  BY <1>7, SameTransferItself, ContractStutters DEF vars
<1> QED BY <1>1, <1>2, <1>3, <1>4, <1>5, <1>6, <1>7 DEF Next, Interrupt, Host

\* With an interrupt that keeps up (PromptIRQ), and a host and drivers that
\* keep to the conventions (Conventional): the stack is a control pipe: its
\* transfers are those the comment over completeSetupPacket() documents
\* (src/device.cxx:260), their data the bytes that were asked for, and the
\* address and the configuration change only as the host's requests say.
THEOREM ControlTransferImplemented ==
  ASSUME PromptIRQ, Conventional
  PROVE  Spec => ImplementsControlTransfer
<1>1. IInv /\ Conversing /\ [Next]_vars => [Contract!Next]_(Contract!vars)
  BY StepRefines
<1> QED BY <1>1, RefinesInit, InStepThroughout, PTL
        DEF Spec, ImplementsControlTransfer, Contract!Spec

\* With an interrupt that keeps up (PromptIRQ), and a host and drivers that
\* keep to the conventions (Conventional): a host's buffer is never overrun: no
\* transfer moves more bytes than it was asked for, and each packet continues
\* the last (src/device.cxx:320).
THEOREM HostNeverOverrun ==
  ASSUME PromptIRQ, Conventional
  PROVE  Spec => []Contract!WithinRequest
<1> QED BY ControlTransferImplemented, PipeNeverOverruns, PTL

=============================================================================
