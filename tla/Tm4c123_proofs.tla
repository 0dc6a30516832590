---------------------------- MODULE Tm4c123_proofs ----------------------------
(***************************************************************************)
(* For every build, every set of requests and answers, every interleaving  *)
(* of the bus, the interrupt and the application, and however the device   *)
(* is cut off: the state has its type; and as long as the host configures  *)
(* the device and never unconfigures it, a user endpoint is served only    *)
(* with the handlers of an active configuration.                           *)
(*                                                                         *)
(* For every patient host whose requests, and every set of drivers whose   *)
(* answers, are well-formed (Mannerly, Patient), whatever the data of a    *)
(* write holds and whichever reads the host does not see through, and an   *)
(* interrupt that keeps up with the host: EP0 with the event its one flag  *)
(* stands for is always where the host takes it to be (Conversing); so     *)
(* address, configuration and the bytes of every transfer are what the     *)
(* host takes them to be, only SETUP packets become requests, and the      *)
(* driver is the control pipe of ControlTransfer.                          *)
(***************************************************************************)
EXTENDS Tm4c123, UsbHost_proofs

\* The host configures the device, and neither unconfigures it nor chooses a
\* configuration there is not; no data of a write reads as a request to do so.
Configuring == \A r \in Requests \cup Payloads : ChoosesOne(r)

\* Who may do anything to whom: an application that has detached the device
\* keeps its interrupts off; one that has not listens to bus resets; and from a
\* bus reset until it is served nothing is enabled and nothing received.
Attended ==
  /\ host.phase # "gone" => app = "attached"
  /\ app # "detached" => "reset" \in dev.hw.itrEnable
  /\ app = "detached" => pc = "idle" /\ dev.hw.itrEnable = {} /\ unmasked = {}
  /\ "reset" \in dev.hw.status => dev.hw.eps = 0 /\ dev.hw.rxPacket = NoPacket

\* From the host's traffic to a user endpoint, over the flag it raises and the
\* handler's copy of it, to the endpoint's turn, the configuration it belongs
\* to stays up.
Dispatching ==
  /\ host.phase # "gone" /\ dev.hw.eps # 0 => Chosen(dev)
  /\ app # "detached" /\ "user" \in flags => Up(dev)
  /\ pc # "idle" /\ "user" \in seen => Up(dev)
  /\ ChoosesOne(dev.hw.rxPacket.data)

\* "ctr", the interrupt Sound asks about, is not one of this chip's.
IInv ==
  /\ TypeOK /\ "ctr" \notin dev.hw.itrEnable /\ WithinWrite
  /\ Attended
  /\ Configuring => Dispatching

LEMMA Uncounted ==
  ASSUME NEW d \in Devices, "ctr" \notin d.hw.itrEnable
  PROVE  Sound(d) /\ Quiet(d)
BY DEF Sound, Registry, Quiet

LEMMA NothingReceived == ChoosesOne(NoPacket.data)
BY DEF ChoosesOne, Chooses, NoPacket, ZeroPacket

LEMMA InitInvariant == Init => IInv
<1> SUFFICES ASSUME Init PROVE IInv
  OBVIOUS
<1> DEFINE g1 == [PowerOn.hw EXCEPT !.tx = "nack"]
           g2 == [g1 EXCEPT !.rx = "valid"]
<1>1. NoMore(PowerOn.hw, g2)
  <2>1. NoMore(PowerOn.hw, g1)
    BY PowerOnSound, Fields, NoMoreItself, SetTx
  <2> HIDE DEF g1
  <2> QED BY <2>1, SetRx
<1>2. dev \in Devices
  <2>1. Sound([PowerOn EXCEPT !.hw = g2])
    BY <1>1, PowerOnSound, SetHw
  <2> QED BY <2>1 DEF Init, Sound
<1>3. /\ dev.hw.itrEnable = {} /\ dev.hw.eps = 0 /\ dev.hw.status = {}
      /\ dev.hw.rxPacket = NoPacket
  BY DEF Init, PowerOn
<1>4. Attended /\ Dispatching
  BY <1>3, NothingReceived DEF Init, Lost, Attended, Dispatching
<1> QED BY <1>2, <1>3, <1>4, LostTyped
        DEF Init, IInv, TypeOK, WithinWrite, Lost, AppStates

-----------------------------------------------------------------------------
(* The application.                                                        *)

LEMMA AttachStep ==
  ASSUME IInv, Attach
  PROVE  IInv'
<1> DEFINE g1 == [dev.hw EXCEPT !.itrEnable = {"reset"}]
           g2 == [g1 EXCEPT !.status = {}]
           g3 == [g2 EXCEPT !.addr = 0]
           g4 == [g3 EXCEPT !.enabled = TRUE]
           e1 == [dev EXCEPT !.hw = g4]
           e2 == [e1 EXCEPT !.activeConfig = 0]
<1>1. Sound(dev) /\ dev.hw \in Registers
  BY Uncounted, Fields DEF IInv, TypeOK
<1>2. NoMore(dev.hw, g2)
  <2>1. NoMore(dev.hw, g1)
    BY <1>1, NoMoreItself, SetItrEnable DEF Interrupts
  <2> HIDE DEF g1
  <2> QED BY <2>1, SetStatus
<1>3. NoMore(dev.hw, g4)
  <2> HIDE DEF g2
  <2>1. NoMore(dev.hw, g3)
    <3>1. 0 \in 0..127
      OBVIOUS
    <3> QED BY <1>2, <3>1, SetAddr
  <2> HIDE DEF g3
  <2> QED BY <2>1, SetEnabled
<1>4. /\ g4.itrEnable = {"reset"} /\ g4.status = {} /\ g4.eps = dev.hw.eps
      /\ g4.rxPacket = dev.hw.rxPacket
  BY <1>1 DEF Registers
<1>5. dev' = e2
  BY DEF Attach
<1> HIDE DEF g4
<1>6. Sound(e1) /\ e1.hw = g4
  BY <1>1, <1>3, SetHw DEF Sound, Devices
<1> HIDE DEF e1
<1>7. Sound(dev') /\ dev'.hw = g4
  <2>1. Quiet(e1) /\ 0 \in 0..configsCount
    BY <1>4, <1>6, BuildOptions DEF Quiet, BuildOptions
  <2> QED BY <1>5, <1>6, <2>1, SetActiveConfig
<1>8. host.phase = "gone"
  BY DEF Attach, IInv, Attended
<1>9. Attended' /\ (Configuring => Dispatching')
  BY <1>4, <1>7, <1>8 DEF Attach, IInv, Attended, Dispatching
<1> QED BY <1>4, <1>7, <1>9 DEF Attach, IInv, TypeOK, Sound, WithinWrite, AppStates

LEMMA DetachBusStep ==
  ASSUME IInv, DetachBus
  PROVE  IInv'
<1> DEFINE g == [dev.hw EXCEPT !.enabled = FALSE]
<1>1. Sound(dev) /\ dev.hw \in Registers
  BY Uncounted, Fields DEF IInv, TypeOK
<1>2. Sound([dev EXCEPT !.hw = g])
  BY <1>1, NoMoreItself, SetEnabled, SetHw
<1>3. /\ dev' \in Devices /\ SameConfig(dev, dev')
      /\ dev'.hw.itrEnable = dev.hw.itrEnable /\ dev'.hw.status = dev.hw.status
      /\ dev'.hw.rxPacket = dev.hw.rxPacket
  <2>1. dev' = [dev EXCEPT !.hw = g] /\ g.eps = dev.hw.eps
    BY <1>1 DEF DetachBus, Registers
  <2>2. /\ g.itrEnable = dev.hw.itrEnable /\ g.status = dev.hw.status
        /\ g.rxPacket = dev.hw.rxPacket
    BY <1>1 DEF Registers
  <2> HIDE DEF g
  <2>3. dev' \in Devices /\ SameConfig(dev, dev') /\ dev'.hw = g
    BY <1>1, <1>2, <2>1 DEF Sound, Devices, SameConfig
  <2> QED BY <2>2, <2>3
<1>4. host' \in Hosts /\ WithinWrite' /\ host'.phase = "gone"
  BY FoundTyped DEF DetachBus, Lost
<1>5. Attended' /\ (Configuring => Dispatching')
  BY <1>3, <1>4 DEF DetachBus, IInv, Attended, Dispatching, Up, SameConfig
<1> QED BY <1>3, <1>4, <1>5 DEF DetachBus, IInv, TypeOK, AppStates

LEMMA DetachStackStep ==
  ASSUME IInv, DetachStack
  PROVE  IInv'
<1> DEFINE g  == [dev.hw EXCEPT !.itrEnable = {}]
           e1 == [dev EXCEPT !.hw = g]
           e2 == DeinitHandlers(e1)
           e3 == [e2 EXCEPT !.activeConfig = 0]
<1>1. Sound(dev) /\ dev.hw \in Registers
  BY Uncounted, Fields DEF IInv, TypeOK
<1>2. NoMore(dev.hw, g)
  BY <1>1, NoMoreItself, SetItrEnable
<1>3. /\ g.itrEnable = {} /\ g.status = dev.hw.status /\ g.eps = dev.hw.eps
      /\ g.rxPacket = dev.hw.rxPacket
  BY <1>1 DEF Registers
<1>4. dev' = e3
  BY <1>1 DEF DetachStack, DeinitHandlers, Sound, Devices
<1> HIDE DEF g
<1>5. Sound(e1) /\ e1.hw = g
  BY <1>1, <1>2, SetHw DEF Sound, Devices
<1> HIDE DEF e1
<1>6. Sound(e2) /\ Quiet(e2) /\ e2.hw = g
  <2>1. Quiet(e1)
    BY <1>3, <1>5 DEF Quiet
  <2> QED BY <1>5, <2>1, DeinitHandlersSound
<1> HIDE DEF e2
<1>7. Sound(dev') /\ dev'.hw = g
  <2>1. 0 \in 0..configsCount
    BY BuildOptions DEF BuildOptions
  <2> QED BY <1>4, <1>6, <2>1, SetActiveConfig
<1>8. Attended' /\ (Configuring => Dispatching')
  BY <1>3, <1>7 DEF DetachStack, IInv, Attended, Dispatching
<1> QED BY <1>3, <1>7, <1>8
        DEF DetachStack, IInv, TypeOK, Sound, WithinWrite, AppStates

-----------------------------------------------------------------------------
(* The interrupt.                                                          *)

\* Only the flags and masks of the bus events, and whether the device is
\* powered and suspended, differ.
Masked(d, o) ==
  /\ o \in Devices /\ "ctr" \notin o.hw.itrEnable
  /\ "reset" \in d.hw.itrEnable => "reset" \in o.hw.itrEnable
  /\ SameConfig(d, o) /\ o.hw.rxPacket = d.hw.rxPacket

LEMMA Rewritten ==
  ASSUME NEW d, NEW e \in Devices, SameConfig(d, e), e.hw = d.hw,
         NEW g \in Registers, "ctr" \notin g.itrEnable,
         "reset" \in d.hw.itrEnable => "reset" \in g.itrEnable,
         g.eps = d.hw.eps, g.rxPacket = d.hw.rxPacket
  PROVE  Masked(d, [e EXCEPT !.hw = g]) /\ [e EXCEPT !.hw = g].hw = g
BY DEF Masked, SameConfig, Devices

LEMMA MaskedTogether ==
  ASSUME NEW a, NEW b, NEW c, Masked(a, b), Masked(b, c)
  PROVE  Masked(a, c)
BY DEF Masked, SameConfig

LEMMA SuspensionMasked ==
  ASSUME NEW d \in Devices, "ctr" \notin d.hw.itrEnable
  PROVE  /\ Masked(d, Wakeup(d)) /\ Wakeup(d).hw.status = d.hw.status
         /\ Masked(d, Suspend(d)) /\ Suspend(d).hw.status = d.hw.status
<1>1. ASSUME NEW v \in BOOLEAN, NEW on \in {"suspend", "wakeup"},
             NEW off \in {"suspend", "wakeup"}
      PROVE  LET o == [d EXCEPT !.usbSuspended = v,
                                !.hw.itrEnable = (@ \ {off}) \cup {on}]
             IN  Masked(d, o) /\ o.hw.status = d.hw.status
  <2> DEFINE g == [d.hw EXCEPT !.itrEnable = (@ \ {off}) \cup {on}]
             e == [d EXCEPT !.usbSuspended = v]
             o == [d EXCEPT !.usbSuspended = v,
                            !.hw.itrEnable = (@ \ {off}) \cup {on}]
  <2>1. d.hw \in Registers
    BY DEF Devices
  <2>2. /\ g \in Registers /\ g.itrEnable = (d.hw.itrEnable \ {off}) \cup {on}
        /\ g.status = d.hw.status /\ g.eps = d.hw.eps
        /\ g.rxPacket = d.hw.rxPacket
    BY <2>1 DEF Registers, Interrupts
  <2>3. e \in Devices /\ SameConfig(d, e) /\ e.hw = d.hw
    BY DEF Devices, SameConfig
  <2>4. o = [e EXCEPT !.hw = g]
    BY <2>3
  <2> HIDE DEF e, g
  <2>5. /\ "ctr" \notin g.itrEnable
        /\ "reset" \in d.hw.itrEnable => "reset" \in g.itrEnable
    BY <2>2
  <2>6. Masked(d, [e EXCEPT !.hw = g]) /\ [e EXCEPT !.hw = g].hw = g
    BY <2>2, <2>3, <2>5, Rewritten
  <2> QED BY <2>2, <2>4, <2>6
<1>2. /\ Wakeup(d) = [d EXCEPT !.usbSuspended = FALSE,
                       !.hw.itrEnable = (@ \ {"wakeup"}) \cup {"suspend"}]
      /\ Suspend(d) = [d EXCEPT !.usbSuspended = TRUE,
                        !.hw.itrEnable = (@ \ {"suspend"}) \cup {"wakeup"}]
  BY DEF Wakeup, Suspend
<1> QED BY <1>1, <1>2

LEMMA EnteredMasked ==
  ASSUME IInv
  PROVE  Masked(dev, Entered) /\ Entered.hw.status = {}
         /\ Masked(dev, Read) /\ Read.hw.status = {}
<1> DEFINE g == [dev.hw EXCEPT !.status = {}]
           h == [g EXCEPT !.itrEnable = @ \cup {"suspend"}]
           powered == IF dev.usbState # "attached" THEN Read
                      ELSE [Read EXCEPT !.usbState = "powered",
                                        !.hw.itrEnable = @ \cup {"suspend"}]
<1>1. dev \in Devices /\ dev.hw \in Registers /\ "ctr" \notin dev.hw.itrEnable
      /\ SameConfig(dev, dev)
  BY DEF IInv, TypeOK, Devices, SameConfig
<1>2. /\ g \in Registers /\ g.itrEnable = dev.hw.itrEnable /\ g.status = {}
      /\ g.eps = dev.hw.eps /\ g.rxPacket = dev.hw.rxPacket
  BY <1>1 DEF Registers
<1>3. /\ h \in Registers /\ h.itrEnable = dev.hw.itrEnable \cup {"suspend"}
      /\ h.status = {} /\ h.eps = dev.hw.eps /\ h.rxPacket = dev.hw.rxPacket
  <2> HIDE DEF g
  <2> QED BY <1>2 DEF Registers, Interrupts
<1> DEFINE e == [dev EXCEPT !.usbState = "powered"]
<1>4. Masked(dev, Read) /\ Read.hw = g
  <2>1. Read = [dev EXCEPT !.hw = g]
    BY DEF Read
  <2> HIDE DEF g
  <2> QED BY <1>1, <1>2, <2>1, Rewritten
<1>5. Masked(dev, powered) /\ powered.hw.status = {}
  <2>1. e \in Devices /\ SameConfig(dev, e) /\ e.hw = dev.hw
    BY <1>1 DEF Devices, DeviceStates, SameConfig
  <2>2. [Read EXCEPT !.usbState = "powered", !.hw.itrEnable = @ \cup {"suspend"}]
          = [e EXCEPT !.hw = h]
    BY <1>1, <2>1 DEF Read, Devices
  <2> HIDE DEF e, g, h
  <2>3. "ctr" \notin h.itrEnable
    BY <1>1, <1>3
  <2>4. Masked(dev, [e EXCEPT !.hw = h]) /\ [e EXCEPT !.hw = h].hw = h
    BY <1>3, <2>1, <2>3, Rewritten
  <2> QED BY <1>2, <1>3, <1>4, <2>2, <2>4
<1> HIDE DEF powered
<1>6. Masked(dev, Wakeup(powered)) /\ Wakeup(powered).hw.status = {}
  <2>1. powered \in Devices /\ "ctr" \notin powered.hw.itrEnable
    BY <1>5 DEF Masked
  <2> QED BY <1>5, <2>1, SuspensionMasked, MaskedTogether
<1>7. Entered = IF "wakeup" \in Status THEN Wakeup(powered) ELSE powered
  BY DEF Entered, powered
<1> QED BY <1>2, <1>4, <1>5, <1>6, <1>7

LEMMA InterruptEventsStep ==
  ASSUME IInv, InterruptEvents
  PROVE  IInv'
<1>1. Masked(dev, dev') /\ dev'.hw.status = {}
  <2>1. Entered \in Devices /\ "ctr" \notin Entered.hw.itrEnable
    BY EnteredMasked DEF Masked
  <2>2. Masked(dev, Suspend(Entered)) /\ Suspend(Entered).hw.status = {}
    BY <2>1, EnteredMasked, SuspensionMasked, MaskedTogether
  <2> QED BY <2>2, EnteredMasked DEF InterruptEvents
<1>2. app # "detached"
  BY DEF InterruptEvents, Raised, Status, IInv, Attended
<1>3. /\ seen' \subseteq flags /\ seen' \subseteq Endpoints /\ flags' = {}
      /\ pc' \in {"idle", "ep0"}
      /\ UNCHANGED <<app, host, unmasked>>
  BY DEF InterruptEvents, IInv, TypeOK
<1>4. Attended'
  BY <1>1, <1>2, <1>3 DEF Masked, IInv, Attended
<1>5. Configuring => Dispatching'
  BY <1>1, <1>2, <1>3 DEF Masked, SameConfig, IInv, Dispatching, Chosen, Up
<1> QED BY <1>1, <1>3, <1>4, <1>5 DEF IInv, TypeOK, Masked, WithinWrite

LEMMA InterruptDisconnectStep ==
  ASSUME IInv, InterruptDisconnect
  PROVE  IInv'
<1> DEFINE off == [Read EXCEPT !.usbState = "detached"]
           h1  == [Read.hw EXCEPT !.enabled = TRUE]
           h2  == [h1 EXCEPT !.itrEnable = {"reset"}]
<1>1. Masked(dev, Read) /\ Read.hw.status = {}
  BY EnteredMasked
<1>2. Masked(dev, CycleBus(Read)) /\ CycleBus(Read).hw.status = {}
  <2>1. Read \in Devices /\ Read.hw \in Registers /\ SameConfig(dev, Read)
        /\ Read.hw.rxPacket = dev.hw.rxPacket
    BY <1>1 DEF Masked, Devices
  <2>2. off \in Devices /\ SameConfig(Read, off) /\ off.hw = Read.hw
    BY <2>1 DEF Devices, DeviceStates, SameConfig
  <2>3. /\ h2 \in Registers /\ h2.itrEnable = {"reset"} /\ h2.status = {}
        /\ h2.eps = Read.hw.eps /\ h2.rxPacket = Read.hw.rxPacket
    BY <1>1, <2>1 DEF Registers, Interrupts
  <2>4. CycleBus(Read) = [off EXCEPT !.hw = h2]
    BY <2>2 DEF CycleBus
  <2> HIDE DEF off, h2
  <2>5. "ctr" \notin h2.itrEnable
    BY <2>3
  <2>6. Masked(Read, [off EXCEPT !.hw = h2]) /\ [off EXCEPT !.hw = h2].hw = h2
    BY <2>2, <2>3, <2>5, Rewritten
  <2> QED BY <1>1, <2>3, <2>4, <2>6, MaskedTogether
<1>3. Masked(dev, dev') /\ dev'.hw.status = {}
  BY <1>1, <1>2 DEF InterruptDisconnect
<1>4. app # "detached" /\ pc = "idle"
  BY DEF InterruptDisconnect, Raised, Status, IInv, Attended
<1>5. /\ flags' = {} /\ UNCHANGED <<pc, app, unmasked, seen>>
      /\ host' \in Hosts /\ WithinWrite' /\ host'.phase \in {host.phase, "gone"}
  BY FoundTyped DEF InterruptDisconnect, IInv, TypeOK, WithinWrite, Lost
<1>6. Attended'
  BY <1>3, <1>4, <1>5 DEF Masked, IInv, Attended
<1>7. Configuring => Dispatching'
  BY <1>3, <1>4, <1>5 DEF Masked, SameConfig, IInv, Dispatching, Chosen, Up
<1> QED BY <1>3, <1>5, <1>6, <1>7 DEF IInv, TypeOK, Masked

\* A bus reset forgets the configuration, with the flags of its endpoints.
LEMMA InterruptResetStep ==
  ASSUME IInv, InterruptReset
  PROVE  IInv'
<1> DEFINE r  == ResetEPs(Entered, "all")
           e1 == [r EXCEPT !.usbState = "waiting"]
           g1 == [Entered.hw EXCEPT !.addr = 0]
           g2 == [g1 EXCEPT !.itrEnable = @ \cup {"disconnect", "sof"}]
           e2 == [e1 EXCEPT !.activeConfig = 0]
           e3 == [e2 EXCEPT !.hw = g2]
<1>1. /\ Entered \in Devices /\ "ctr" \notin Entered.hw.itrEnable
      /\ "reset" \in dev.hw.itrEnable => "reset" \in Entered.hw.itrEnable
      /\ Entered.hw.eps = dev.hw.eps /\ Entered.hw.status = {}
      /\ Entered.hw.rxPacket = dev.hw.rxPacket
  BY EnteredMasked DEF Masked, SameConfig
<1>2. Sound(r) /\ r.hw.eps = 0
  BY <1>1, Uncounted, ResetEPsSound
<1> HIDE DEF r
<1>3. Sound(e1) /\ Quiet(e1)
  <2>1. Sound(e1) /\ e1.hw = r.hw
    <3>1. Sound(e1)
      BY <1>2, SetUsbState DEF DeviceStates
    <3> QED BY <1>2, <3>1 DEF Sound, Devices
  <2> QED BY <1>2, <2>1 DEF Quiet
<1> HIDE DEF e1
<1>4. Sound(e2)
  <2>1. 0 \in 0..configsCount
    BY BuildOptions DEF BuildOptions
  <2> QED BY <1>3, <2>1, SetActiveConfig
<1>5. /\ g2 \in Registers /\ g2.itrEnable = Entered.hw.itrEnable \cup {"disconnect", "sof"}
      /\ g2.eps = dev.hw.eps /\ g2.status = {} /\ g2.rxPacket = dev.hw.rxPacket
  <2>1. Entered.hw \in Registers /\ 0 \in 0..127
    BY <1>1 DEF Devices
  <2>2. /\ g1 \in Registers /\ g1.itrEnable = Entered.hw.itrEnable
        /\ g1.eps = dev.hw.eps /\ g1.status = {} /\ g1.rxPacket = dev.hw.rxPacket
    BY <1>1, <2>1 DEF Registers
  <2> HIDE DEF g1
  <2> QED BY <2>2 DEF Registers, Interrupts
<1>6. dev' = e3
  BY DEF InterruptReset, Reset, r, e1
<1> HIDE DEF e2, g2
<1>7. dev' \in Devices /\ dev'.hw = g2
  BY <1>4, <1>5, <1>6 DEF Sound, Devices
<1>8. dev.hw.eps = 0 /\ app # "detached"
  BY DEF InterruptReset, Status, IInv, Attended
<1>9. /\ flags' = {} /\ unmasked' = {"ep0"} /\ pc = "idle"
      /\ UNCHANGED <<pc, app, host, seen>>
  BY DEF InterruptReset
<1>10. Attended'
  BY <1>1, <1>5, <1>7, <1>8, <1>9 DEF IInv, Attended
<1>11. Configuring => Dispatching'
  BY <1>5, <1>7, <1>8, <1>9 DEF IInv, Dispatching
<1> QED BY <1>1, <1>5, <1>7, <1>9, <1>10, <1>11
        DEF IInv, TypeOK, WithinWrite, Endpoints

\* What the code of device.cxx makes of the device.
LEMMA HandledStep ==
  ASSUME IInv, pc = "ep0", NEW d \in Devices, Handled(d),
         d.hw.itrEnable = dev.hw.itrEnable, d.hw.status = dev.hw.status,
         d.hw.rxPacket = NoPacket,
         "reset" \in dev.hw.status => SameConfig(dev, d),
         Configuring => SameConfig(dev, d) \/ Chosen(d),
         pc' = "user", UNCHANGED <<app, host, flags, seen>>
  PROVE  IInv'
<1> DEFINE eps == IF d.hw.eps = 0 THEN dev.hw.eps ELSE d.hw.eps
           g1  == [d.hw EXCEPT !.enabled = dev.hw.enabled]
           g2  == [g1 EXCEPT !.eps = eps]
<1>1. dev \in Devices /\ dev.hw \in Registers /\ d.hw \in Registers
  BY DEF IInv, TypeOK, Devices
<1>2. eps \in 0..configsCount
  BY <1>1 DEF Registers
<1>3. dev' = [d EXCEPT !.hw = g2]
  <2>1. g1.eps = d.hw.eps
    BY <1>1 DEF Registers
  <2> QED BY <2>1 DEF Handled
<1> HIDE DEF eps
<1>4. /\ g2 \in Registers /\ g2.eps = eps /\ g2.itrEnable = dev.hw.itrEnable
      /\ g2.status = dev.hw.status /\ g2.rxPacket = NoPacket
  BY <1>1, <1>2 DEF Registers
<1> HIDE DEF g2
<1>5. /\ dev' \in Devices /\ dev'.hw = g2 /\ dev'.activeConfig = d.activeConfig
      /\ dev'.handlersUp = d.handlersUp
  BY <1>3, <1>4 DEF Devices
<1>6. unmasked' \subseteq Endpoints /\ app # "detached"
  BY DEF Handled, IInv, TypeOK, Attended
<1>7. Attended'
  BY <1>4, <1>5, <1>6 DEF IInv, Attended, SameConfig, eps
<1>8. Configuring => Dispatching'
  <2> SUFFICES ASSUME Configuring PROVE Dispatching'
    OBVIOUS
  <2>1. CASE SameConfig(dev, d)
    <3>1. eps = dev.hw.eps
      BY <2>1 DEF SameConfig, eps
    <3> QED BY <1>4, <1>5, <1>6, <2>1, <3>1, NothingReceived
            DEF IInv, Dispatching, SameConfig, Chosen, Up
  <2>2. CASE Chosen(d)
    <3>1. eps = d.hw.eps
      BY <2>2 DEF Chosen, Up, eps
    <3> QED BY <1>4, <1>5, <1>6, <2>2, <3>1, NothingReceived
            DEF IInv, Dispatching, Chosen, Up
  <2> QED BY <2>1, <2>2
<1> QED BY <1>4, <1>5, <1>6, <1>7, <1>8 DEF IInv, TypeOK, WithinWrite

LEMMA PacketReceivedStep ==
  ASSUME IInv, PacketReceived
  PROVE  IInv'
<1> DEFINE rx == dev.hw.rxPacket
           b  == [dev EXCEPT !.hw.rxPacket = NoPacket]
<1>1. Sound(dev) /\ dev \in Devices /\ dev.hw \in Registers
  BY Uncounted DEF IInv, TypeOK, Devices
<1>2. rx \in RxPackets /\ Sound(b) /\ ClassAnswers[rx.data.dir] \subseteq Answers
  BY <1>1, Fetched
<1>3. /\ SameConfig(dev, b) /\ b.hw.itrEnable = dev.hw.itrEnable
      /\ b.hw.status = dev.hw.status /\ b.hw.rxPacket = NoPacket
  BY <1>1 DEF Devices, Registers, SameConfig
<1>4. "reset" \notin dev.hw.status /\ (Configuring => ChoosesOne(rx.data))
  BY DEF PacketReceived, IInv, Attended, Dispatching
<1>5. PICK ans \in ClassAnswers[rx.data.dir] :
        Handled(HandleControlPacketByState(b, rx, ans))
  BY DEF PacketReceived
<1> DEFINE d == HandleControlPacketByState(b, rx, ans)
<1> HIDE DEF b, rx
<1>6. /\ Sound(d) /\ Untouched(b, d)
      /\ ChoosesOne(rx.data) => SameConfig(b, d) \/ Chosen(d)
  BY <1>2, HandleControlPacketByStateSound, HandleControlPacketByStateKeeps
<1>7. Handled(d)
  BY <1>5
<1>8. pc = "ep0" /\ pc' = "user" /\ UNCHANGED <<app, host, flags, seen>>
  BY DEF PacketReceived
<1> HIDE DEF d
<1>9. /\ d \in Devices /\ d.hw.itrEnable = dev.hw.itrEnable
      /\ d.hw.status = dev.hw.status /\ d.hw.rxPacket = NoPacket
      /\ Configuring => SameConfig(dev, d) \/ Chosen(d)
  BY <1>3, <1>4, <1>6 DEF Sound, Untouched, SameConfig
<1> QED BY <1>4, <1>7, <1>8, <1>9, HandledStep

LEMMA PacketSentStep ==
  ASSUME IInv, PacketSent
  PROVE  IInv'
<1> DEFINE d == HandleControllerInPacket(dev)
<1>1. Sound(d) /\ Untouched(dev, d) /\ SameConfig(dev, d)
  BY Uncounted, HandleControllerInPacketSound, HandleControllerInPacketKeeps
     DEF IInv, TypeOK
<1>2. Handled(d) /\ dev.hw.rxPacket = NoPacket
  BY DEF PacketSent
<1>3. pc = "ep0" /\ pc' = "user" /\ UNCHANGED <<app, host, flags, seen>>
  BY DEF PacketSent
<1> HIDE DEF d
<1>4. /\ d \in Devices /\ d.hw.itrEnable = dev.hw.itrEnable
      /\ d.hw.status = dev.hw.status /\ d.hw.rxPacket = NoPacket
  BY <1>1, <1>2 DEF Sound, Untouched
<1> QED BY <1>1, <1>2, <1>3, <1>4, HandledStep

LEMMA InterruptStep ==
  ASSUME IInv, Interrupt
  PROVE  IInv'
<1>1. CASE NothingForEP0 \/ ProcessUserEndpoint
  BY <1>1 DEF NothingForEP0, ProcessUserEndpoint, IInv, TypeOK, WithinWrite,
     Attended, Dispatching
<1> QED BY <1>1, InterruptDisconnectStep, InterruptResetStep, InterruptEventsStep,
           PacketReceivedStep, PacketSentStep
        DEF Interrupt

-----------------------------------------------------------------------------
(* The host and the bus.                                                   *)

\* Whatever the host does to EP0's registers, it leaves the configuration alone.
LEMMA HostLeaves ==
  ASSUME IInv, dev' \in Devices, SameConfig(dev, dev') \/ dev'.hw.eps = 0,
         dev'.activeConfig = dev.activeConfig, dev'.handlersUp = dev.handlersUp,
         dev'.hw.itrEnable = dev.hw.itrEnable,
         "reset" \in dev'.hw.status
           => dev'.hw.eps = 0 /\ dev'.hw.rxPacket = NoPacket,
         Configuring => ChoosesOne(dev'.hw.rxPacket.data),
         host' \in Hosts, WithinWrite',
         host'.phase = "gone" \/ host.phase # "gone" \/ dev'.hw.eps = 0,
         host'.phase # "gone" => app = "attached",
         flags' \subseteq Endpoints,
         "user" \in flags' => "user" \in flags \/ (host.phase # "gone" /\ dev.hw.eps # 0),
         unmasked' \subseteq Endpoints, unmasked' = unmasked \/ app = "attached",
         UNCHANGED <<pc, app, seen>>
  PROVE  IInv'
<1>1. Attended'
  BY DEF IInv, Attended
<1>2. Configuring => Dispatching'
  BY DEF IInv, Dispatching, SameConfig, Chosen, Up
<1> QED BY <1>1, <1>2 DEF IInv, TypeOK

LEMMA HostStep ==
  ASSUME IInv, Host
  PROVE  IInv'
<1>1. /\ Sound(dev) /\ dev \in Devices /\ dev.hw \in Registers
      /\ host \in Hosts /\ WithinWrite /\ flags \subseteq Endpoints
      /\ unmasked \subseteq Endpoints
  BY Uncounted DEF IInv, TypeOK, Devices
<1>2. host.phase # "gone" => app = "attached"
  BY DEF IInv, Attended
<1>3. "reset" \in dev.hw.status => dev.hw.eps = 0 /\ dev.hw.rxPacket = NoPacket
  BY DEF IInv, Attended
<1>4. Configuring => ChoosesOne(dev.hw.rxPacket.data)
  BY DEF IInv, Dispatching
<1>5. ASSUME NEW r \in Requests, HostSetup(r)
      PROVE  IInv'
  <2> DEFINE packet == [kind |-> "setup", data |-> r, count |-> 8]
  <2>1. host' \in Hosts /\ WithinWrite' /\ packet \in RxPackets
    BY <1>1, <1>5, AsksTyped DEF HostSetup
  <2>2. dev' \in Devices
    BY <1>1, <1>5, <2>1, Delivered DEF HostSetup, Sound
  <2>3. "reset" \notin dev.hw.status /\ host.phase # "gone"
    BY <1>5 DEF HostSetup, HostAsks, Reachable
  <2>4. /\ SameConfig(dev, dev') /\ dev'.hw.itrEnable = dev.hw.itrEnable
        /\ dev'.hw.status = dev.hw.status /\ dev'.hw.rxPacket.data = r
    <3>1. dev' = [dev EXCEPT !.hw.tx = "nack", !.hw.rx = "nack", !.hw.rxPacket = packet]
      BY <1>5 DEF HostSetup
    <3>2. packet.data = r
      OBVIOUS
    <3> HIDE DEF packet
    <3> QED BY <1>1, <3>1, <3>2 DEF Devices, Registers, SameConfig
  <2>5. Configuring => ChoosesOne(r)
    BY DEF Configuring
  <2>6. /\ flags' = flags \cup {"ep0"} /\ UNCHANGED <<pc, app, unmasked, seen>>
    BY <1>5 DEF HostSetup
  <2> QED BY <1>1, <1>2, <2>1, <2>2, <2>3, <2>4, <2>5, <2>6, HostLeaves
          DEF SameConfig, Endpoints
<1>6. CASE HostIn \/ HostStalled
  <2>1. dev' = [dev EXCEPT !.hw.tx = "nack"]
    BY <1>6 DEF HostIn, HostStalled
  <2>2. dev' \in Devices /\ dev.hw.txData.len \in Word
    BY <1>1, <2>1, Taken DEF Sound
  <2>3. host' \in Hosts /\ WithinWrite' /\ host.phase # "gone"
    BY <1>1, <1>6, <2>2, TakesTyped, RefusedTyped
       DEF HostIn, HostStalled, Reachable
  <2>4. /\ SameConfig(dev, dev') /\ dev'.hw.itrEnable = dev.hw.itrEnable
        /\ dev'.hw.status = dev.hw.status
        /\ dev'.hw.rxPacket = dev.hw.rxPacket
    BY <1>1, <2>1 DEF Devices, Registers, SameConfig
  <2>5. /\ flags' = flags \cup {"ep0"} /\ UNCHANGED <<pc, app, unmasked, seen>>
    BY <1>6 DEF HostIn, HostStalled
  <2> QED BY <1>1, <1>2, <1>3, <1>4, <2>2, <2>3, <2>4, <2>5, HostLeaves
          DEF SameConfig, Endpoints
<1>7. CASE HostOutData
  <2> DEFINE count == Least(host.req.length - host.got, epBufferSize)
  <2>1. count \in Word /\ host' \in Hosts /\ WithinWrite'
    BY <1>1, <1>7, SendsTyped DEF HostOutData
  <2>2. PICK data \in Payloads :
          dev' = [dev EXCEPT !.hw.rx = "nack",
            !.hw.rxPacket = [kind |-> "out", data |-> data, count |-> count]]
    BY <1>7 DEF HostOutData
  <2> DEFINE packet == [kind |-> "out", data |-> data, count |-> count]
  <2>3. packet \in RxPackets /\ packet.data = data
    BY <2>1, HostAssumption DEF HostAssumption, RxPackets
  <2> HIDE DEF packet
  <2>4. dev' = [dev EXCEPT !.hw.rx = "nack", !.hw.rxPacket = packet]
    BY <2>2 DEF packet
  <2>5. dev' \in Devices
    BY <1>1, <2>3, <2>4, Delivered DEF Sound
  <2>6. "reset" \notin dev.hw.status /\ host.phase # "gone"
    BY <1>7 DEF HostOutData, CanReceive, Reachable
  <2>7. /\ SameConfig(dev, dev') /\ dev'.hw.itrEnable = dev.hw.itrEnable
        /\ dev'.hw.status = dev.hw.status /\ dev'.hw.rxPacket.data = data
    BY <1>1, <2>3, <2>4 DEF Devices, Registers, SameConfig
  <2>8. Configuring => ChoosesOne(data)
    BY <2>2 DEF Configuring
  <2>9. /\ flags' = flags \cup {"ep0"} /\ UNCHANGED <<pc, app, unmasked, seen>>
    BY <1>7 DEF HostOutData
  <2> QED BY <1>1, <1>2, <2>1, <2>5, <2>6, <2>7, <2>8, <2>9, HostLeaves
          DEF SameConfig, Endpoints
<1>8. CASE HostOutStatus
  <2>1. dev' = [dev EXCEPT !.hw.tx = "nack"] /\ host.phase # "gone"
    BY <1>8 DEF HostOutStatus, CanReceive, Reachable
  <2>2. dev' \in Devices
    BY <1>1, <2>1, Taken DEF Sound
  <2>3. host' \in Hosts /\ WithinWrite'
    BY <1>1, <1>8, AcknowledgedTyped DEF HostOutStatus, WithinWrite
  <2>4. /\ SameConfig(dev, dev') /\ dev'.hw.itrEnable = dev.hw.itrEnable
        /\ dev'.hw.status = dev.hw.status
        /\ dev'.hw.rxPacket = dev.hw.rxPacket
    BY <1>1, <2>1 DEF Devices, Registers, SameConfig
  <2>5. /\ flags' = flags \cup {"ep0"} /\ UNCHANGED <<pc, app, unmasked, seen>>
    BY <1>8 DEF HostOutStatus
  <2> QED BY <1>1, <1>2, <1>3, <1>4, <2>1, <2>2, <2>3, <2>4, <2>5, HostLeaves
          DEF SameConfig, Endpoints
<1>9. CASE HostReset
  <2> DEFINE g1 == [dev.hw EXCEPT !.addr = 0]
             g2 == [g1 EXCEPT !.tx = "nack"]
             g3 == [g2 EXCEPT !.rx = "valid"]
             g4 == [g3 EXCEPT !.rxPacket = NoPacket]
             g5 == [g4 EXCEPT !.eps = 0]
             g6 == [g5 EXCEPT !.status = dev.hw.status \cup {"reset"}]
  <2>1. dev' = [dev EXCEPT !.hw = g6]
    BY <1>9 DEF HostReset
  <2>2. g2 \in Registers /\ g2.itrEnable = dev.hw.itrEnable
    <3>1. 0 \in 0..127
      OBVIOUS
    <3> QED BY <1>1, <3>1 DEF Registers
  <2> HIDE DEF g2
  <2>3. g4 \in Registers /\ g4.itrEnable = dev.hw.itrEnable /\ g4.rxPacket = NoPacket
    BY <2>2, PacketsTyped DEF Registers
  <2> HIDE DEF g4
  <2>4. /\ g6 \in Registers /\ g6.itrEnable = dev.hw.itrEnable
        /\ g6.rxPacket = NoPacket /\ g6.eps = 0
    <3>1. 0 \in 0..configsCount
      BY BuildOptions DEF BuildOptions
    <3> QED BY <1>1, <2>3, <3>1 DEF Registers, Interrupts
  <2> HIDE DEF g6
  <2>5. /\ dev' \in Devices /\ dev'.hw = g6 /\ dev'.activeConfig = dev.activeConfig
        /\ dev'.handlersUp = dev.handlersUp
    BY <1>1, <2>1, <2>4 DEF Devices
  <2>6. host' \in Hosts /\ WithinWrite'
    BY <1>9, FoundTyped DEF HostReset
  <2>7. /\ app = "attached" /\ unmasked' = Endpoints
        /\ UNCHANGED <<pc, app, flags, seen>>
    BY <1>9 DEF HostReset
  <2> QED BY <1>1, <2>4, <2>5, <2>6, <2>7, NothingReceived, HostLeaves
<1>10. CASE HostUnplugged \/ HostSuspend \/ HostResume
  <2>1. PICK e \in {"disconnect", "suspend", "wakeup"} :
          dev' = [dev EXCEPT !.hw.status = @ \cup {e}]
    BY <1>10 DEF HostUnplugged, HostSuspend, HostResume
  <2>2. dev' \in Devices
    BY <1>1, <2>1, Flagged DEF Sound, Interrupts
  <2>3. /\ SameConfig(dev, dev') /\ dev'.hw.itrEnable = dev.hw.itrEnable
        /\ dev'.hw.status = dev.hw.status \cup {e}
        /\ dev'.hw.rxPacket = dev.hw.rxPacket
    BY <1>1, <2>1 DEF Devices, Registers, SameConfig
  <2>4. /\ host' \in Hosts /\ WithinWrite'
        /\ host'.phase = "gone" \/ host'.phase = host.phase
    <3>1. CASE HostUnplugged
      BY <3>1, FoundTyped DEF HostUnplugged, Lost
    <3>2. CASE HostSuspend \/ HostResume
      <4>1. PICK v \in BOOLEAN : host' = [host EXCEPT !.suspended = v]
        BY <3>2 DEF HostSuspend, HostResume
      <4> QED BY <1>1, <4>1, SuspendsTyped DEF Hosts
    <3> QED BY <1>10, <3>1, <3>2
  <2>5. UNCHANGED <<pc, app, flags, unmasked, seen>>
    BY <1>10 DEF HostUnplugged, HostSuspend, HostResume
  <2> QED BY <1>1, <1>2, <1>3, <1>4, <2>1, <2>2, <2>3, <2>4, <2>5, HostLeaves
          DEF SameConfig
<1>11. CASE HostUserTraffic
  <2>1. /\ flags' = flags \cup {"user"} /\ host.phase # "gone" /\ dev.hw.eps # 0
        /\ UNCHANGED <<dev, pc, app, host, unmasked, seen>>
    BY <1>11 DEF HostUserTraffic, Reachable
  <2> QED BY <1>1, <1>2, <1>3, <1>4, <2>1, HostLeaves
          DEF SameConfig, Endpoints, WithinWrite
<1> QED BY <1>5, <1>6, <1>7, <1>8, <1>9, <1>10, <1>11 DEF Host

-----------------------------------------------------------------------------

LEMMA NextInvariant ==
  ASSUME IInv, [Next]_vars
  PROVE  IInv'
<1>1. CASE UNCHANGED vars
  BY <1>1 DEF vars, IInv, TypeOK, WithinWrite, Attended, Dispatching
<1> QED BY <1>1, AttachStep, DetachBusStep, DetachStackStep, InterruptStep, HostStep
        DEF Next

\* The type invariant, and what it needs to be inductive, hold in every
\* reachable state (src/tm4c123gh6pm/core.cxx:445).
THEOREM Invariance == Spec => []IInv
<1>1. Init => IInv
  BY InitInvariant
<1>2. IInv /\ [Next]_vars => IInv'
  BY NextInvariant
<1> QED BY <1>1, <1>2, PTL DEF Spec

\* The stack's globals, EP0's status and the registers keep their types,
\* whatever requests arrive and however they are cut short: no index of
\* src/device.cxx leaves its table, no counter wraps.
THEOREM TypeCorrect == Spec => []TypeOK
<1>1. IInv => TypeOK
  BY DEF IInv
<1> QED BY <1>1, Invariance, PTL

\* "Nothing to do for the unconfigured configuration" (src/core.cxx:56): while
\* the host never unconfigures the device, processEndpoints() takes a handler
\* only from the row of an active configuration whose handlers have been
\* initialised (src/tm4c123gh6pm/core.cxx:436), however late the interrupt and
\* wherever resets, detach() and unplugging cut in.  Without the assumption it is
\* false.
THEOREM DispatchesToHandlers ==
  ASSUME Configuring
  PROVE  Spec => []DispatchedToHandlers
<1>1. IInv => DispatchedToHandlers
  BY DEF IInv, Dispatching, DispatchedToHandlers, Up
<1> QED BY <1>1, Invariance, PTL

-----------------------------------------------------------------------------
(* Host and device in conversation: with an interrupt that keeps up, a     *)
(* mannerly and patient host, and no cut in the data of a write.           *)

\* EP0's flag is still to be read, or has been read and is to be acted on.
Pending == "ep0" \in flags \/ (pc = "ep0" /\ "ep0" \in seen)

\* The device d as the interrupt handler will take it: with no packet received,
\* a flag raised says that one has been sent.
Meant(d, raised) ==
  [d EXCEPT !.hw.txComplete = raised /\ d.hw.rxPacket = NoPacket]

\* Every event of EP0 is flagged; one flag stands for two of them only between
\* transfers.
Noticed ==
  /\ "ep0" \in unmasked
  /\ dev.hw.rxPacket # NoPacket => Pending
  /\ "ep0" \in flags /\ "ep0" \in seen /\ pc = "ep0" => host.phase = "idle"

\* The chip never sleeps: the interrupt that would put it to sleep is enabled
\* only when it wakes up, or is attached.
Awake ==
  /\ ~dev.usbSuspended /\ dev.hw.itrEnable \subseteq {"reset", "disconnect", "sof"}
  /\ dev.usbState \in Served \cup {"detached"} /\ ~dev.hw.txComplete
  /\ dev.usbState = "detached" =>
       "disconnect" \notin dev.hw.itrEnable /\ pc = "idle"
  /\ app = "attached" => dev.hw.enabled
  /\ pc = "idle" => seen = {}

\* A bus reset still to be served has found no write under way.
Restarting ==
  "reset" \in dev.hw.status /\ host.phase # "gone" =>
    /\ host.phase = "idle" /\ host.addr = 0 /\ host.cfg = 0
    /\ dev.usbCtrlState # "dataRX" /\ dev.hw.rx = "valid"

Conversing ==
  /\ Awake /\ Restarting
  /\ Live(dev, host) => Following(Meant(dev, Pending), host) /\ Noticed

LEMMA Alive ==
  ASSUME IInv
  PROVE  /\ Sound(dev) /\ dev \in Devices /\ dev.hw \in Registers /\ host \in Hosts
         /\ Pending \in BOOLEAN
BY Uncounted DEF IInv, TypeOK, Devices, Pending

LEMMA MeantIsDevice ==
  ASSUME NEW d, Sound(d), NEW raised \in BOOLEAN
  PROVE  LET o == Meant(d, raised)
         IN  /\ Sound(o) /\ SameButEP0(d, o) /\ o.hw.tx = d.hw.tx
             /\ o.hw.rx = d.hw.rx /\ o.hw.rxPacket = d.hw.rxPacket
             /\ o.hw.txComplete = (raised /\ d.hw.rxPacket = NoPacket)
             /\ ~d.hw.txComplete => [o EXCEPT !.hw.txComplete = FALSE] = d
             /\ ~d.hw.txComplete /\ ~o.hw.txComplete => o = d
<1> DEFINE v == raised /\ d.hw.rxPacket = NoPacket
           o == [d EXCEPT !.hw.txComplete = v]
<1>1. d.hw.txComplete \in BOOLEAN /\ d.hw \in Registers /\ d \in Devices
  BY Fields DEF Registers, Sound
<1>2. v \in BOOLEAN
  OBVIOUS
<1>3. Meant(d, raised) = o
  BY DEF Meant
<1>4. v <=> (raised /\ d.hw.rxPacket = NoPacket)
  OBVIOUS
<1> HIDE DEF v
<1>5. /\ Sound(o) /\ SameButEP0(d, o) /\ o.hw.txComplete = v
      /\ o.hw.tx = d.hw.tx /\ o.hw.rx = d.hw.rx
      /\ o.hw.rxPacket = d.hw.rxPacket
  BY <1>2, Marked
<1>6. ASSUME NEW u, u = d.hw.txComplete PROVE [d EXCEPT !.hw.txComplete = u] = d
  BY <1>1, <1>6 DEF Devices, Registers
<1>7. ASSUME ~d.hw.txComplete PROVE [o EXCEPT !.hw.txComplete = FALSE] = d
  <2>1. [o EXCEPT !.hw.txComplete = FALSE] = [d EXCEPT !.hw.txComplete = FALSE]
    BY <1>1 DEF Devices, Registers
  <2>2. d.hw.txComplete = FALSE
    BY <1>1, <1>7
  <2> QED BY <1>6, <2>1, <2>2
<1> HIDE DEF o
<1>8. ~d.hw.txComplete /\ ~o.hw.txComplete => o = d
  BY <1>1, <1>2, <1>5, <1>6 DEF o
<1> QED BY <1>2, <1>3, <1>4, <1>5, <1>7, <1>8

\* Steps that touch neither EP0 nor the transfer.
LEMMA MeantFrame ==
  ASSUME NEW d, Sound(d), NEW o, Sound(o), NEW raised \in BOOLEAN, NEW h, NEW k,
         Following(Meant(d, raised), h), SamePipe(d, o), o.usbState = d.usbState,
         SameTransfer(h, k)
  PROVE  Following(Meant(o, raised), k)
<1> DEFINE e == Meant(d, raised)
           f == Meant(o, raised)
<1>1. /\ SameButEP0(d, e) /\ e.hw.tx = d.hw.tx /\ e.hw.rx = d.hw.rx
      /\ e.hw.rxPacket = d.hw.rxPacket
      /\ e.hw.txComplete = (raised /\ d.hw.rxPacket = NoPacket)
  BY MeantIsDevice
<1>2. /\ SameButEP0(o, f) /\ f.hw.tx = o.hw.tx /\ f.hw.rx = o.hw.rx
      /\ f.hw.rxPacket = o.hw.rxPacket
      /\ f.hw.txComplete = (raised /\ o.hw.rxPacket = NoPacket)
  BY MeantIsDevice
<1> HIDE DEF e, f
<1>3. f.hw.txComplete = e.hw.txComplete
  BY <1>1, <1>2 DEF SamePipe
<1>4. SamePipe(e, f) /\ f.usbState = e.usbState
  BY <1>1, <1>2, <1>3 DEF SamePipe, SameButEP0, SameConfig, SameAddress
<1> QED BY <1>4, FollowingFrame DEF e, f

\* Only what goes on beside EP0.
LEMMA BesideConverses ==
  ASSUME IInv, IInv', Conversing, SamePipe(dev, dev'),
         dev'.usbState = dev.usbState, SameTransfer(host, host'),
         Pending' <=> Pending, Awake', Restarting',
         "reset" \in dev'.hw.status <=> "reset" \in dev.hw.status,
         Live(dev, host) => Noticed'
  PROVE  Conversing'
<1>1. Sound(dev) /\ Sound(dev') /\ Pending \in BOOLEAN
  BY Alive, Uncounted DEF IInv, TypeOK
<1>2. Live(dev', host') <=> Live(dev, host)
  BY DEF Live, SameTransfer
<1>3. Pending' = Pending
  BY DEF Pending
<1>4. Live(dev, host) => Following(Meant(dev', Pending'), host')
  BY <1>1, <1>3, MeantFrame DEF Conversing
<1> QED BY <1>2, <1>4 DEF Conversing

-----------------------------------------------------------------------------
(* The steps of the interrupt handler, in conversation.                    *)

LEMMA ResetDone ==
  ASSUME NEW d, Sound(d)
  PROVE  LET o == Reset(d)
         IN  /\ o.usbState = "waiting" /\ o.usbCtrlState = d.usbCtrlState
             /\ o.usbSuspended = d.usbSuspended /\ ~o.in.isMultiPart
             /\ o.packet = d.packet
             /\ o.hw.addr = 0 /\ o.hw.enabled = d.hw.enabled
             /\ o.hw.rx = d.hw.rx /\ o.hw.rxPacket = d.hw.rxPacket
             /\ o.hw.tx = d.hw.tx /\ o.hw.eps = d.hw.eps
             /\ o.hw.txComplete = d.hw.txComplete /\ o.hw.status = d.hw.status
             /\ o.hw.itrEnable = d.hw.itrEnable \cup {"disconnect", "sof"}
<1> DEFINE i == [d.in EXCEPT !.needsArming = FALSE, !.stall = FALSE,
                             !.isMultiPart = FALSE, !.transferCount = 0]
           b == [needsArming |-> FALSE, stall |-> FALSE, transferCount |-> 0]
           h == [d.hw EXCEPT !.eps = 0, !.epComplete = FALSE]
           g == [h EXCEPT !.tx = "disabled", !.txComplete = FALSE,
                          !.rx = "disabled", !.rxPacket = NoPacket]
           t == d.hw.itrEnable \cup {"disconnect", "sof"}
           f == [d.hw EXCEPT !.addr = 0, !.itrEnable = t]
           r == ResetEPs(d, "all")
           o == Reset(d)
<1>1. ~i.isMultiPart
  BY Fields DEF EpIn
<1>2. /\ f.itrEnable = t /\ f.status = d.hw.status /\ f.rxPacket = d.hw.rxPacket
      /\ f.rx = d.hw.rx /\ f.tx = d.hw.tx /\ f.addr = 0 /\ f.eps = d.hw.eps
      /\ f.enabled = d.hw.enabled /\ f.txComplete = d.hw.txComplete
  <2> HIDE DEF t
  <2> QED BY Fields DEF Registers
<1>3. r = [d EXCEPT !.in = i, !.out = b, !.hw = g]
  <2> HIDE DEF i, b
  <2>1. r = [[d EXCEPT !.hw = h] EXCEPT !.in = i, !.out = b, !.hw = g]
    BY DEF ResetEPs, i, b, Sound, Devices
  <2> HIDE DEF h, g
  <2> QED BY <2>1 DEF Sound, Devices
<1>4. o = [r EXCEPT !.usbState = "waiting", !.activeConfig = 0, !.hw = f]
  BY DEF Reset, f, t
<1> HIDE DEF i, b, g, f
<1>5. /\ o.usbState = "waiting" /\ o.in = i /\ o.hw = f
      /\ o.usbCtrlState = d.usbCtrlState /\ o.usbSuspended = d.usbSuspended
      /\ o.packet = d.packet
  <2> HIDE DEF r, o
  <2>1. /\ r.in = i /\ r.usbCtrlState = d.usbCtrlState
        /\ r.usbSuspended = d.usbSuspended
        /\ r.packet = d.packet /\ o.packet = r.packet
        /\ o.usbState = "waiting" /\ o.in = r.in /\ o.hw = f
        /\ o.usbCtrlState = r.usbCtrlState /\ o.usbSuspended = r.usbSuspended
    BY <1>3, <1>4 DEF Sound, Devices
  <2> QED BY <2>1
<1> HIDE DEF o
<1> QED BY <1>1, <1>2, <1>5 DEF o

\* The chip is awake: the handler goes straight to the events.
LEMMA EnteredAwake ==
  ASSUME IInv, Awake
  PROVE  /\ Entered = Read /\ "suspend" \notin Status /\ ~Entered.usbSuspended
         /\ Sound(Read) /\ SamePipe(dev, Read) /\ Read.usbState = dev.usbState
         /\ Read.hw.status = {} /\ Read.hw.itrEnable = dev.hw.itrEnable
         /\ ~Read.usbSuspended
<1>1. /\ "suspend" \notin Status /\ "wakeup" \notin Status
      /\ dev.usbState # "attached" /\ ~dev.usbSuspended
  BY DEF Awake, Status, Served
<1>2. Entered = Read
  BY <1>1 DEF Entered
<1>3. /\ SamePipe(dev, Read) /\ Read.hw.status = {}
      /\ Read.hw.itrEnable = dev.hw.itrEnable /\ ~Read.usbSuspended
  <2>1. /\ SamePipe(dev, Read) /\ Read.hw.status = {}
        /\ Read.hw.itrEnable = dev.hw.itrEnable
        /\ Read.usbSuspended = dev.usbSuspended
    BY Alive, FlagRaised DEF Read
  <2> QED BY <1>1, <2>1
<1>4. Sound(Read) /\ Read.usbState = dev.usbState
  <2>1. Read \in Devices /\ "ctr" \notin Read.hw.itrEnable
    BY EnteredMasked DEF Masked
  <2> QED BY <2>1, Alive, Uncounted DEF Read, Devices
<1> QED BY <1>1, <1>2, <1>3, <1>4

LEMMA InterruptResetConverses ==
  ASSUME IInv, IInv', Conversing, InterruptReset
  PROVE  Conversing'
<1>1. /\ dev' = Reset(Read) /\ pc = "idle" /\ pc' = "idle" /\ seen' = seen
      /\ flags' = {} /\ unmasked' = {"ep0"} /\ app' = app /\ host' = host
      /\ "reset" \in dev.hw.status
  BY EnteredAwake DEF Conversing, InterruptReset, Status
<1>2. /\ Sound(Read) /\ SamePipe(dev, Read) /\ Read.hw.status = {}
      /\ Read.hw.itrEnable = dev.hw.itrEnable /\ ~Read.usbSuspended
  BY EnteredAwake DEF Conversing
<1>3. /\ dev'.usbState = "waiting" /\ dev'.usbCtrlState = dev.usbCtrlState
      /\ ~dev'.usbSuspended /\ ~dev'.in.isMultiPart /\ dev'.hw.addr = 0
      /\ dev'.hw.enabled = dev.hw.enabled /\ dev'.hw.rx = dev.hw.rx
      /\ dev'.hw.rxPacket = dev.hw.rxPacket /\ dev'.hw.status = {}
      /\ dev'.hw.txComplete = dev.hw.txComplete
      /\ dev'.hw.itrEnable = dev.hw.itrEnable \cup {"disconnect", "sof"}
  BY <1>1, <1>2, ResetDone DEF SamePipe
<1>4. dev.hw.rxPacket = NoPacket /\ Awake /\ Restarting /\ Attended
  BY <1>1 DEF IInv, Attended, Conversing
<1>5. Awake'
  BY <1>1, <1>3, <1>4 DEF Awake, Served
<1>6. ~Pending' /\ Restarting'
  BY <1>1, <1>3 DEF Pending, Restarting
<1>7. Meant(dev', Pending') = dev'
  <2>1. Sound(dev') /\ Pending' \in BOOLEAN
    BY Uncounted DEF IInv, TypeOK, Pending
  <2> QED BY <1>3, <1>4, <1>6, <2>1, MeantIsDevice DEF Awake
<1>8. ASSUME host'.phase # "gone" PROVE Following(dev', host') /\ Noticed'
  <2>1. /\ host'.phase = "idle" /\ host'.addr = 0 /\ host'.cfg = 0
        /\ dev'.usbCtrlState # "dataRX" /\ dev'.hw.rx = "valid" /\ dev'.hw.enabled
    BY <1>1, <1>3, <1>4, <1>8 DEF Restarting, Attended, Awake
  <2>2. Following(dev', host')
    BY <1>3, <1>4, <2>1, ResetFollows DEF Awake
  <2> QED BY <1>1, <1>3, <1>4, <2>2 DEF Noticed
<1> QED BY <1>5, <1>6, <1>7, <1>8 DEF Conversing, Live

LEMMA InterruptEventsConverses ==
  ASSUME IInv, IInv', Conversing, InterruptEvents
  PROVE  Conversing'
<1> DEFINE serve == dev.usbState \notin {"detached", "attached", "powered"}
<1>1. /\ dev' = Read /\ pc = "idle" /\ app' = app /\ host' = host /\ flags' = {}
      /\ unmasked' = unmasked /\ seen' = IF serve THEN flags \cap unmasked ELSE {}
      /\ pc' = IF seen' = {} THEN "idle" ELSE "ep0"
      /\ "reset" \notin Status
  <2>1. /\ Entered = Read /\ "suspend" \notin Status /\ ~Entered.usbSuspended
        /\ Read.usbState = dev.usbState
    BY EnteredAwake DEF Conversing
  <2>2. dev' = Read
    BY <2>1 DEF InterruptEvents
  <2> QED BY <2>1, <2>2 DEF InterruptEvents
<1>2. /\ SamePipe(dev, dev') /\ dev'.usbState = dev.usbState
      /\ dev'.hw.status = {} /\ dev'.hw.itrEnable = dev.hw.itrEnable
      /\ ~dev'.usbSuspended
  BY <1>1, EnteredAwake DEF Conversing
<1>3. Awake
  BY DEF Conversing
<1>4. Awake' /\ Restarting'
  BY <1>1, <1>2, <1>3 DEF Awake, Restarting, SamePipe, Served
<1>5. host.phase # "gone" => "reset" \notin dev.hw.status
  BY <1>1 DEF Status, IInv, Attended
<1>6. CASE host.phase = "gone"
  BY <1>1, <1>4, <1>6 DEF Conversing, Live
<1>7. CASE host.phase # "gone"
  <2>1. Noticed /\ Following(Meant(dev, Pending), host) /\ seen = {}
    BY <1>1, <1>5, <1>7 DEF Conversing, Live, Awake
  <2>2. serve
    <3>1. Meant(dev, Pending).usbState = dev.usbState
      BY Alive, MeantIsDevice DEF SameButEP0, SameAddress
    <3> QED BY <2>1, <3>1 DEF Following, Receiving, Served
  <2>3. Pending' <=> Pending
    BY <1>1, <2>1, <2>2 DEF Noticed, Pending
  <2>4. Noticed'
    BY <1>1, <1>2, <2>1, <2>3 DEF Noticed, SamePipe
  <2> QED BY <1>1, <1>2, <1>4, <1>5, <1>7, <2>3, <2>4, BesideConverses, SameTransferItself
<1> QED BY <1>6, <1>7

LEMMA InterruptDisconnectConverses ==
  ASSUME IInv, Conversing, InterruptDisconnect
  PROVE  Conversing'
<1>1. /\ dev' = CycleBus(Read) /\ host' = Lost /\ pc = "idle" /\ pc' = "idle"
      /\ seen' = seen /\ app' = app
  BY DEF Conversing, Awake, InterruptDisconnect, Status
<1> DEFINE g == [Read.hw EXCEPT !.enabled = TRUE, !.itrEnable = {"reset"}]
<1>2. Sound(Read) /\ SamePipe(dev, Read) /\ ~Read.usbSuspended
  BY EnteredAwake DEF Conversing
<1>3. dev' = [Read EXCEPT !.usbState = "detached", !.hw = g]
  BY <1>1, <1>2 DEF CycleBus, Sound, Devices
<1>4. g.enabled /\ g.itrEnable = {"reset"} /\ g.txComplete = dev.hw.txComplete
  BY <1>2, Fields DEF Registers, SamePipe
<1> HIDE DEF g
<1>5. dev'.hw = g /\ dev'.usbState = "detached" /\ ~dev'.usbSuspended
  BY <1>2, <1>3 DEF Sound, Devices
<1> QED BY <1>1, <1>4, <1>5 DEF Conversing, Awake, Restarting, Live, Lost

\* The stack's handlers leave the connection, and endpoints that run.
LEMMA HandledFrame ==
  ASSUME Sound(dev), NEW d, Sound(d), Handled(d)
  PROVE  /\ dev'.usbState = d.usbState /\ dev'.usbCtrlState = d.usbCtrlState
         /\ dev'.usbSuspended = d.usbSuspended
         /\ dev'.hw.itrEnable = d.hw.itrEnable /\ dev'.hw.status = d.hw.status
         /\ dev'.hw.rxPacket = d.hw.rxPacket /\ dev'.hw.rx = d.hw.rx
         /\ dev'.hw.txComplete = d.hw.txComplete
         /\ dev'.hw.enabled = dev.hw.enabled
         /\ unmasked' = unmasked \/ unmasked' = Endpoints
<1> DEFINE g == [d.hw EXCEPT !.enabled = dev.hw.enabled,
                             !.eps = IF @ = 0 THEN dev.hw.eps ELSE @]
<1>1. dev' = [d EXCEPT !.hw = g]
  BY DEF Handled, Sound, Devices
<1>2. /\ g.itrEnable = d.hw.itrEnable /\ g.status = d.hw.status
      /\ g.rxPacket = d.hw.rxPacket /\ g.txComplete = d.hw.txComplete
      /\ g.rx = d.hw.rx /\ g.enabled = dev.hw.enabled
  BY Fields DEF Registers
<1> HIDE DEF g
<1>3. unmasked' = unmasked \/ unmasked' = Endpoints
  BY DEF Handled
<1> QED BY <1>1, <1>2, <1>3, RegistersReplaced

LEMMA HandledNothing ==
  ASSUME Sound(dev), NEW d, Sound(d), Handled(d), d.hw.enabled = dev.hw.enabled
  PROVE  IF d.hw.eps = 0 THEN dev' = [d EXCEPT !.hw.eps = dev.hw.eps] ELSE dev' = d
<1> DEFINE n == IF d.hw.eps = 0 THEN dev.hw.eps ELSE d.hw.eps
           g == [d.hw EXCEPT !.enabled = dev.hw.enabled, !.eps = n]
           e == [d.hw EXCEPT !.eps = n]
<1>1. d.hw \in Registers /\ d \in Devices
  BY Fields DEF Sound
<1>2. dev' = [d EXCEPT !.hw = g]
  BY <1>1 DEF Handled, Devices, Registers
<1>3. g = e
  <2> HIDE DEF n
  <2> QED BY <1>1 DEF Registers
<1>4. dev' = [d EXCEPT !.hw = e]
  BY <1>2, <1>3
<1>5. CASE d.hw.eps = 0
  <2>1. e = [d.hw EXCEPT !.eps = dev.hw.eps]
    BY <1>5
  <2> HIDE DEF e
  <2> QED BY <1>1, <1>4, <1>5, <2>1 DEF Devices
<1>6. CASE d.hw.eps # 0
  <2>1. e = d.hw
    BY <1>1, <1>6 DEF Registers
  <2> HIDE DEF e
  <2>2. [d EXCEPT !.hw = e] = d
    BY <1>1, <2>1 DEF Devices
  <2> QED BY <1>4, <1>6, <2>2
<1> QED BY <1>5, <1>6

LEMMA HandledFollows ==
  ASSUME Sound(dev), NEW d, Sound(d), Handled(d), dev.hw.enabled,
         NEW h, Following(d, h)
  PROVE  Following(dev', h)
<1>1. d.hw.enabled = dev.hw.enabled
  <2>1. d.hw.enabled \in BOOLEAN /\ dev.hw.enabled \in BOOLEAN
    BY Fields DEF Registers
  <2> QED BY <2>1 DEF Following, Receiving
<1>2. CASE d.hw.eps = 0
  <2>1. dev' = [d EXCEPT !.hw.eps = dev.hw.eps]
    BY <1>1, <1>2, HandledNothing
  <2> QED BY <1>2, <2>1, EndpointsFollow
<1>3. CASE d.hw.eps # 0
  BY <1>1, <1>3, HandledNothing
<1> QED BY <1>2, <1>3

\* No transfer is under way, but for a read that the host may have given up.
Over(d) ==
  d.usbState # "addressing" /\ (ReadsThrough => d.usbCtrlState # "dataTX")

\* The handler has acted on EP0's flag; if it is up again, it stands for
\* nothing.
LEMMA ServedConverses ==
  ASSUME IInv, IInv', Conversing, pc = "ep0", "ep0" \in seen,
         NEW d, Sound(d), Handled(d), Untouched([dev EXCEPT !.hw.rxPacket = NoPacket], d),
         d.usbState \in Served,
         "reset" \in dev.hw.status => d.usbCtrlState # "dataRX" /\ d.hw.rx = dev.hw.rx,
         Live(dev, host) => /\ Following(d, host)
                            /\ host.phase = "idle" => Over(d),
         pc' = "user", UNCHANGED <<app, host, flags, seen>>
  PROVE  Conversing'
<1> DEFINE e == [dev EXCEPT !.hw.rxPacket = NoPacket]
<1>1. Sound(dev) /\ Sound(dev') /\ Pending' \in BOOLEAN
  BY Alive, Uncounted DEF IInv, TypeOK, Pending
<1>2. /\ e.hw.itrEnable = dev.hw.itrEnable /\ e.hw.status = dev.hw.status
      /\ e.usbSuspended = dev.usbSuspended /\ e.hw.rxPacket = NoPacket
      /\ e.hw.txComplete = dev.hw.txComplete
  BY <1>1, PacketFetched
<1> HIDE DEF e
<1>3. /\ dev'.usbState = d.usbState /\ dev'.usbCtrlState = d.usbCtrlState
      /\ ~dev'.usbSuspended
      /\ dev'.hw.itrEnable = dev.hw.itrEnable /\ dev'.hw.status = dev.hw.status
      /\ dev'.hw.rxPacket = NoPacket /\ dev'.hw.rx = d.hw.rx
      /\ ~dev'.hw.txComplete /\ dev'.hw.enabled = dev.hw.enabled
      /\ unmasked' = unmasked \/ unmasked' = Endpoints
  BY <1>1, <1>2, HandledFrame DEF Untouched, Conversing, Awake, e
<1>4. Awake'
  BY <1>3 DEF Conversing, Awake, Served
<1>5. Restarting'
  BY <1>3 DEF Conversing, Restarting
<1>6. Live(dev', host') <=> Live(dev, host)
  BY <1>3 DEF Live
<1>7. ASSUME Live(dev, host)
      PROVE  Following(Meant(dev', Pending'), host') /\ Noticed'
  <2>1. Noticed /\ dev.hw.enabled
    <3>1. Noticed /\ Following(Meant(dev, Pending), host)
      BY <1>7 DEF Conversing
    <3> QED BY <3>1, Alive, MeantIsDevice DEF Following, Receiving, SameButEP0, SameAddress
  <2>2. Following(dev', host)
    BY <1>1, <1>7, <2>1, HandledFollows
  <2>3. Noticed'
    BY <1>3, <2>1 DEF Noticed, Endpoints
  <2>4. Pending' <=> "ep0" \in flags
    BY DEF Pending
  <2> DEFINE o == Meant(dev', Pending')
  <2>5. /\ SameButEP0(dev', o) /\ o.hw.tx = dev'.hw.tx /\ o.hw.rx = dev'.hw.rx
        /\ o.hw.rxPacket = dev'.hw.rxPacket
        /\ ~Pending' => o = dev'
    BY <1>1, <1>3, MeantIsDevice
  <2> HIDE DEF o
  <2>6. Following(o, host)
    <3>1. CASE "ep0" \notin flags
      BY <2>2, <2>4, <2>5, <3>1
    <3>2. CASE "ep0" \in flags
      <4>1. host.phase = "idle"
        BY <2>1, <3>2 DEF Noticed
      <4> QED BY <1>3, <1>7, <2>2, <2>5, <4>1, SpuriousFollows DEF Over
    <3> QED BY <3>1, <3>2
  <2> QED BY <2>3, <2>6 DEF o
<1> QED BY <1>4, <1>5, <1>6, <1>7 DEF Conversing

LEMMA PacketSentConverses ==
  ASSUME IInv, IInv', Conversing, PacketSent
  PROVE  Conversing'
<1> DEFINE o == HandleControllerInPacket(dev)
           d == Meant(dev, Pending)
           e == [dev EXCEPT !.hw.rxPacket = NoPacket]
<1>1. /\ pc = "ep0" /\ "ep0" \in seen /\ dev.hw.rxPacket = NoPacket /\ Handled(o)
      /\ pc' = "user" /\ UNCHANGED <<app, host, flags, seen>>
  BY DEF PacketSent
<1>2. /\ Sound(dev) /\ host \in Hosts /\ Pending \in BOOLEAN /\ Pending
  BY <1>1, Alive DEF Pending
<1>3. e = dev
  BY <1>1, <1>2 DEF Sound, Devices, Registers
<1>4. Sound(o) /\ Untouched(dev, o)
  BY <1>2, HandleControllerInPacketSound, HandleControllerInPacketKeeps
<1>5. /\ o.usbCtrlState # "dataRX" /\ o.hw.rx = dev.hw.rx
      /\ dev.usbState \in Served => o.usbState \in Served
  BY <1>2, SentState
<1>6. dev.usbState \in Served /\ ~dev.hw.txComplete
  BY <1>1 DEF Conversing, Awake
<1>7. Sound(d) /\ d.hw.txComplete /\ [d EXCEPT !.hw.txComplete = FALSE] = dev
  BY <1>1, <1>2, <1>6, MeantIsDevice
<1>8. ASSUME Live(dev, host)
      PROVE  /\ Following(o, host)
             /\ host.phase = "idle" => Over(o)
  <2>1. Following(d, host)
    BY <1>8 DEF Conversing
  <2> HIDE DEF d
  <2> QED BY <1>2, <1>7, <1>8, <2>1, SentFollows DEF Live, Over
<1> HIDE DEF o, d, e
<1> QED BY <1>1, <1>3, <1>4, <1>5, <1>6, <1>8, ServedConverses DEF e

LEMMA PacketReceivedConverses ==
  ASSUME Mannerly, IInv, IInv', Conversing, PacketReceived
  PROVE  Conversing'
<1> DEFINE rx == dev.hw.rxPacket
           e  == [dev EXCEPT !.hw.rxPacket = NoPacket]
<1>1. /\ pc = "ep0" /\ "ep0" \in seen /\ rx # NoPacket
      /\ pc' = "user" /\ UNCHANGED <<app, host, flags, seen>>
  BY DEF PacketReceived
<1>2. /\ Sound(dev) /\ host \in Hosts /\ Pending \in BOOLEAN
  BY Alive
<1>3. PICK ans \in ClassAnswers[rx.data.dir] :
        Handled(HandleControlPacketByState(e, rx, ans))
  BY DEF PacketReceived
<1> DEFINE o == HandleControlPacketByState(e, rx, ans)
           d == Meant(dev, Pending)
<1>4. dev.usbState \in Served /\ ~dev.hw.txComplete
  BY <1>1 DEF Conversing, Awake
<1>5. Sound(e) /\ rx \in RxPackets /\ ans \in Answers /\ e.usbState = dev.usbState
  BY <1>2, <1>3, PacketFetched, Fetched DEF SameAddress
<1>6. Sound(o) /\ Untouched(e, o) /\ o.usbState \in Served
  <2> HIDE DEF e
  <2> QED BY <1>4, <1>5, HandleControlPacketByStateSound,
             HandleControlPacketByStateKeeps, ReceivedServed
<1>7. "reset" \notin dev.hw.status
  BY <1>1 DEF IInv, Attended
<1>8. d = dev
  BY <1>1, <1>2, <1>4, MeantIsDevice
<1>9. ASSUME Live(dev, host)
      PROVE  /\ Following(o, host)
             /\ host.phase = "idle" => Over(o)
  <2>1. Following(dev, host)
    BY <1>8, <1>9 DEF Conversing
  <2>2. rx.kind \in {"setup", "out"}
    BY <1>1, <1>5, <2>1 DEF RxPackets, Following, Receiving
  <2>3. CASE rx.kind = "setup"
    <3>1. Following(o, host)
      BY <1>2, <1>4, <1>9, <2>1, <2>3, SetupFollows DEF Live
    <3>2. host.phase # "idle"
      <4>1. host.phase = FirstPhase(host.req) /\ host.req \in Requests
        BY <2>1, <2>3 DEF Following, Receiving
      <4>2. host.req.dir \in {"in", "out"}
        BY <4>1, HostAssumption DEF HostAssumption, SetupPackets
      <4> QED BY <4>1, <4>2 DEF FirstPhase
    <3> QED BY <3>1, <3>2
  <2>4. CASE rx.kind = "out"
    <3>1. dev.usbState # "addressing"
      BY <2>1, <2>4 DEF Following, Addressed
    <3>2. /\ Following(o, host) /\ SameAddress(e, o)
          /\ host.phase = "idle" => o.usbCtrlState = "idle"
      BY <1>2, <2>1, <2>4, OutFollows
    <3> QED BY <1>5, <3>1, <3>2 DEF SameAddress, Over
  <2> QED BY <2>2, <2>3, <2>4
<1> HIDE DEF o, d
<1> QED BY <1>1, <1>3, <1>6, <1>7, <1>9, ServedConverses DEF o

LEMMA PassedConverses ==
  ASSUME IInv, IInv', Conversing, NothingForEP0 \/ ProcessUserEndpoint
  PROVE  Conversing'
<1>1. /\ UNCHANGED <<dev, app, host, flags, unmasked>>
      /\ \/ pc = "ep0" /\ "ep0" \notin seen /\ pc' = "user" /\ seen' = seen
         \/ pc = "user" /\ pc' = "idle" /\ seen' = {}
  BY DEF NothingForEP0, ProcessUserEndpoint
<1>2. SamePipe(dev, dev')
  BY <1>1 DEF SamePipe, SameConfig
<1>3. Pending' <=> Pending
  BY <1>1 DEF Pending
<1>4. Awake' /\ Restarting'
  BY <1>1 DEF Conversing, Awake, Restarting
<1>5. Live(dev, host) => Noticed'
  BY <1>1, <1>3 DEF Conversing, Noticed
<1> QED BY <1>1, <1>2, <1>3, <1>4, <1>5, BesideConverses, SameTransferItself

-----------------------------------------------------------------------------
(* The host's steps, in conversation.                                      *)

LEMMA ReachableConverses ==
  ASSUME IInv, Conversing, Reachable
  PROVE  LET d == Meant(dev, Pending)
         IN  /\ Live(dev, host) /\ Following(d, host) /\ Noticed
             /\ Sound(d) /\ SameButEP0(dev, d) /\ d.hw.addr = host.addr
             /\ d.hw.tx = dev.hw.tx /\ d.hw.rx = dev.hw.rx
             /\ d.hw.rxPacket = dev.hw.rxPacket
             /\ d.hw.txComplete = (Pending /\ dev.hw.rxPacket = NoPacket)
<1> DEFINE d == Meant(dev, Pending)
<1>1. /\ Sound(d) /\ SameButEP0(dev, d)
      /\ d.hw.tx = dev.hw.tx /\ d.hw.rx = dev.hw.rx
      /\ d.hw.rxPacket = dev.hw.rxPacket
      /\ d.hw.txComplete = (Pending /\ dev.hw.rxPacket = NoPacket)
  BY Alive, MeantIsDevice
<1>2. Live(dev, host) /\ Following(d, host) /\ Noticed
  BY DEF Conversing, Live, Reachable
<1> HIDE DEF d
<1>3. d.hw.addr = host.addr
  BY <1>1 DEF Reachable, SameButEP0, SameAddress
<1> QED BY <1>1, <1>2, <1>3 DEF d

\* A transaction at EP0 changes what the handler will find in EP0's registers.
LEMMA MeantPut ==
  ASSUME Sound(dev), Sound(dev'), Pending \in BOOLEAN, Pending' \in BOOLEAN,
         SameButEP0(dev, dev')
  PROVE  LET d == Meant(dev, Pending)
             o == Meant(dev', Pending')
         IN  /\ SameButEP0(d, o) /\ o.hw.tx = dev'.hw.tx
             /\ o.hw.rx = dev'.hw.rx /\ o.hw.rxPacket = dev'.hw.rxPacket
             /\ o.hw.txComplete = (Pending' /\ dev'.hw.rxPacket = NoPacket)
<1> DEFINE d == Meant(dev, Pending)
           o == Meant(dev', Pending')
<1>1. SameButEP0(dev, d)
  BY MeantIsDevice
<1>2. /\ SameButEP0(dev', o) /\ o.hw.tx = dev'.hw.tx
      /\ o.hw.rxPacket = dev'.hw.rxPacket /\ o.hw.rx = dev'.hw.rx
      /\ o.hw.txComplete = (Pending' /\ dev'.hw.rxPacket = NoPacket)
  BY MeantIsDevice
<1> HIDE DEF d, o
<1>3. SameButEP0(d, o)
  BY <1>1, <1>2 DEF SameButEP0, SameConfig, SameAddress
<1> QED BY <1>2, <1>3 DEF d, o

\* A transaction at EP0 that the device follows.
LEMMA TransactionConverses ==
  ASSUME IInv, IInv', Conversing, Reachable, SameButEP0(dev, dev'),
         dev'.hw.txComplete = dev.hw.txComplete,
         UNCHANGED <<pc, app, unmasked, seen>>, host'.phase # "gone",
         Following(Meant(dev', Pending'), host'), Pending',
         "ep0" \in flags' /\ "ep0" \in seen /\ pc = "ep0" =>
           host'.phase = "idle"
  PROVE  Conversing'
<1>1. Awake /\ Noticed /\ "reset" \notin dev.hw.status
  BY ReachableConverses DEF Conversing, Reachable
<1>2. Awake'
  BY <1>1 DEF Awake, SameButEP0, SameAddress
<1>3. Restarting'
  BY <1>1 DEF Restarting, SameButEP0
<1>4. Noticed'
  BY <1>1 DEF Noticed
<1> QED BY <1>2, <1>3, <1>4 DEF Conversing

LEMMA Nacked ==
  ASSUME NEW d, Sound(d)
  PROVE  LET o == [d EXCEPT !.hw.tx = "nack"]
         IN  /\ SameButEP0(d, o) /\ o.hw.tx = "nack"
             /\ o.hw.txComplete = d.hw.txComplete
             /\ o.hw.rx = d.hw.rx /\ o.hw.rxPacket = d.hw.rxPacket
<1> DEFINE g == [d.hw EXCEPT !.tx = "nack"]
           o == [d EXCEPT !.hw = g]
<1>1. /\ g.tx = "nack" /\ g.rx = d.hw.rx /\ g.rxPacket = d.hw.rxPacket
      /\ g.txComplete = d.hw.txComplete /\ g.txData = d.hw.txData
      /\ g.itrEnable = d.hw.itrEnable /\ g.status = d.hw.status
      /\ g.forceSuspend = d.hw.forceSuspend /\ g.addr = d.hw.addr
      /\ g.enabled = d.hw.enabled /\ g.eps = d.hw.eps
  BY Fields DEF Registers
<1>2. [d EXCEPT !.hw.tx = "nack"] = o
  OBVIOUS
<1> HIDE DEF g
<1>3. /\ o.hw = g /\ o.usbCtrlState = d.usbCtrlState
      /\ o.setupCallback = d.setupCallback /\ o.packet = d.packet
      /\ o.in = d.in /\ o.out = d.out /\ o.usbSuspended = d.usbSuspended
      /\ o.usbState = d.usbState /\ o.activeConfig = d.activeConfig
      /\ o.handlersUp = d.handlersUp
  BY DEF Sound, Devices
<1> HIDE DEF o
<1> QED BY <1>1, <1>2, <1>3 DEF SameButEP0, SameConfig, SameAddress

LEMMA HostSetupConverses ==
  ASSUME PromptIRQ, Patient, IInv, IInv', Conversing, NEW r \in Requests, HostSetup(r)
  PROVE  Conversing'
<1> DEFINE p == [kind |-> "setup", data |-> r, count |-> 8]
           d == Meant(dev, Pending)
           o == Meant(dev', Pending')
           k == host'
<1>1. /\ Sound(dev) /\ Sound(dev') /\ host \in Hosts
      /\ Pending \in BOOLEAN /\ Pending' \in BOOLEAN
  BY Alive, Uncounted DEF IInv, TypeOK, Pending
<1>2. /\ HostAsks(r) /\ Reachable
      /\ dev.hw.rxPacket = NoPacket /\ pc # "ep0" /\ "ep0" \in flags'
      /\ dev' = [dev EXCEPT !.hw.tx = "nack", !.hw.rx = "nack", !.hw.rxPacket = p]
      /\ UNCHANGED <<pc, app, unmasked, seen>>
  BY DEF HostSetup, HostAsks
<1>3. k.phase = FirstPhase(r)
  BY <1>1, <1>2 DEF HostAsks, Hosts
<1>4. p.kind = "setup" /\ NoPacket.kind = "none"
  BY DEF NoPacket
<1> HIDE DEF p
<1>5. /\ SameButEP0(dev, dev') /\ dev'.hw.rxPacket = p
      /\ dev'.hw.tx = "nack" /\ dev'.hw.txComplete = dev.hw.txComplete
  BY <1>1, <1>2, SetupPut
<1>6. /\ Following(d, host) /\ d.hw.addr = host.addr
      /\ d.hw.rxPacket = NoPacket
  BY <1>2, ReachableConverses
<1>7. /\ SameButEP0(d, o) /\ o.hw.tx = "nack" /\ o.hw.rxPacket = p
      /\ ~o.hw.txComplete
  BY <1>1, <1>4, <1>5, MeantPut
<1> HIDE DEF d, o
<1>8. Following(o, host')
  BY <1>1, <1>2, <1>6, <1>7, AskFollows DEF p
<1>9. k.phase # "gone"
  <2>1. r.dir \in {"in", "out"}
    BY HostAssumption DEF HostAssumption, SetupPackets
  <2> QED BY <1>3, <2>1 DEF FirstPhase
<1>10. Pending'
  BY <1>2 DEF Pending
<1> QED BY <1>2, <1>5, <1>8, <1>9, <1>10, TransactionConverses DEF o

LEMMA HostInConverses ==
  ASSUME Mannerly, IInv, IInv', Conversing, HostIn
  PROVE  Conversing'
<1> DEFINE d == Meant(dev, Pending)
           e == [d EXCEPT !.hw.tx = "nack", !.hw.txComplete = TRUE]
           o == Meant(dev', Pending')
<1>1. /\ Sound(dev) /\ Sound(dev') /\ host \in Hosts
      /\ Pending \in BOOLEAN /\ Pending' \in BOOLEAN
  BY Alive, Uncounted DEF IInv, TypeOK, Pending
<1>2. /\ Reachable /\ dev.hw.tx = "valid" /\ HostTakes(dev.hw.txData.len)
      /\ dev' = [dev EXCEPT !.hw.tx = "nack"] /\ flags' = flags \cup {"ep0"}
      /\ UNCHANGED <<pc, app, unmasked, seen>>
  BY DEF HostIn
<1>3. /\ SameButEP0(dev, dev') /\ dev'.hw.tx = "nack"
      /\ dev'.hw.txComplete = dev.hw.txComplete
      /\ dev'.hw.rx = dev.hw.rx /\ dev'.hw.rxPacket = dev.hw.rxPacket
  BY <1>1, <1>2, Nacked
<1>4. /\ Following(d, host) /\ Noticed /\ Sound(d) /\ d.hw.tx = "valid"
      /\ d.hw.rx = dev.hw.rx /\ d.hw.rxPacket = dev.hw.rxPacket
      /\ d.hw.txComplete = (Pending /\ dev.hw.rxPacket = NoPacket)
      /\ d.hw.txData = dev.hw.txData
  BY <1>2, ReachableConverses DEF SameButEP0
<1> HIDE DEF d
<1>5. /\ SameButEP0(d, e) /\ e.hw.tx = "nack" /\ e.hw.txComplete
      /\ e.hw.rx = d.hw.rx /\ e.hw.rxPacket = d.hw.rxPacket
  BY <1>4, PacketTaken
<1> HIDE DEF e
<1>6. ~d.hw.txComplete /\ d.hw.rxPacket = NoPacket
  BY <1>1, <1>2, <1>4, <1>5, TakenFollows
<1>7. ~Pending /\ Pending'
  BY <1>2, <1>4, <1>6 DEF Pending
<1>8. /\ SameButEP0(d, o) /\ o.hw.tx = "nack" /\ o.hw.txComplete
      /\ o.hw.rx = d.hw.rx /\ o.hw.rxPacket = d.hw.rxPacket
  BY <1>1, <1>3, <1>4, <1>6, <1>7, MeantPut DEF d
<1> HIDE DEF o
<1>9. Following(o, host')
  BY <1>1, <1>2, <1>4, <1>8, TakenFollows
<1>10. host'.phase # "gone"
  BY <1>1, <1>2 DEF HostTakes, Acknowledged, Hosts
<1>11. ~("ep0" \in seen /\ pc = "ep0")
  BY <1>7 DEF Pending
<1> QED BY <1>2, <1>3, <1>7, <1>9, <1>10, <1>11, TransactionConverses DEF o

LEMMA HostStalledConverses ==
  ASSUME IInv, IInv', Conversing, HostStalled
  PROVE  Conversing'
<1> DEFINE d == Meant(dev, Pending)
           o == Meant(dev', Pending')
<1>1. /\ Sound(dev) /\ Sound(dev') /\ host \in Hosts
      /\ Pending \in BOOLEAN /\ Pending' \in BOOLEAN
  BY Alive, Uncounted DEF IInv, TypeOK, Pending
<1>2. /\ Reachable /\ dev' = [dev EXCEPT !.hw.tx = "nack"]
      /\ dev.hw.tx = "stall" /\ host.phase \in {"dataIn", "dataOut", "statusIn"}
      /\ HostRefused /\ "ep0" \in flags'
      /\ UNCHANGED <<pc, app, unmasked, seen>>
  BY DEF HostStalled
<1>3. /\ SameButEP0(dev, dev') /\ dev'.hw.tx = "nack"
      /\ dev'.hw.txComplete = dev.hw.txComplete
      /\ dev'.hw.rx = dev.hw.rx /\ dev'.hw.rxPacket = dev.hw.rxPacket
  BY <1>1, <1>2, Nacked
<1>4. /\ Following(d, host) /\ Sound(d) /\ d.hw.tx = "stall"
      /\ d.hw.rx = dev.hw.rx /\ d.hw.rxPacket = dev.hw.rxPacket
  BY <1>2, ReachableConverses
<1>5. /\ SameButEP0(d, o) /\ o.hw.tx = "nack"
      /\ o.hw.rx = d.hw.rx /\ o.hw.rxPacket = d.hw.rxPacket
  BY <1>1, <1>3, <1>4, MeantPut
<1> HIDE DEF d, o
<1>6. Following(o, host')
  BY <1>1, <1>2, <1>4, <1>5, RefusedFollows
<1>7. host'.phase = "idle" /\ Pending'
  BY <1>1, <1>2 DEF HostRefused, Hosts, Pending
<1> QED BY <1>2, <1>3, <1>6, <1>7, TransactionConverses DEF o

LEMMA HostOutDataConverses ==
  ASSUME Mannerly, IInv, IInv', Conversing, HostOutData
  PROVE  Conversing'
<1> DEFINE count == Least(host.req.length - host.got, epBufferSize)
           d == Meant(dev, Pending)
           o == Meant(dev', Pending')
<1>1. /\ Sound(dev) /\ Sound(dev') /\ host \in Hosts
      /\ Pending \in BOOLEAN /\ Pending' \in BOOLEAN
  BY Alive, Uncounted DEF IInv, TypeOK, Pending
<1>2. /\ Reachable /\ dev.hw.rxPacket = NoPacket /\ host.phase = "dataOut"
      /\ dev.hw.tx # "stall" /\ HostSends(count) /\ flags' = flags \cup {"ep0"}
      /\ UNCHANGED <<pc, app, unmasked, seen>>
  BY DEF HostOutData, CanReceive
<1>3. PICK data \in Payloads :
        dev' = [dev EXCEPT !.hw.rx = "nack",
                  !.hw.rxPacket = [kind |-> "out", data |-> data, count |-> count]]
  BY DEF HostOutData
<1> DEFINE p == [kind |-> "out", data |-> data, count |-> count]
           e == [d EXCEPT !.hw.rx = "nack", !.hw.rxPacket = p]
<1>4. p.kind = "out" /\ NoPacket.kind = "none"
  BY DEF NoPacket
<1>5. host'.phase \in {"dataOut", "statusIn"}
  BY <1>1, <1>2 DEF HostSends, Hosts
<1> HIDE DEF count
<1>6. /\ SameButEP0(dev, dev') /\ dev'.hw.rxPacket = p
      /\ dev'.hw.tx = dev.hw.tx /\ dev'.hw.txComplete = dev.hw.txComplete
  <2>1. dev' = [dev EXCEPT !.hw.rx = "nack", !.hw.rxPacket = p]
    BY <1>3
  <2> HIDE DEF p
  <2> QED BY <1>1, <2>1, PacketPut
<1>7. /\ Following(d, host) /\ Sound(d) /\ d.hw.rxPacket = NoPacket
      /\ d.hw.tx = dev.hw.tx
      /\ d.hw.txComplete = (Pending /\ dev.hw.rxPacket = NoPacket)
  BY <1>2, ReachableConverses
<1> HIDE DEF d
<1>8. d.usbCtrlState = "dataRX"
  BY <1>2, <1>7 DEF Following, Transferring, Writing, Refused, Armed, NoPacket
<1>9. /\ SameButEP0(d, e) /\ e.hw.tx = d.hw.tx /\ e.hw.rxPacket = p
      /\ e.hw.txComplete = d.hw.txComplete
  <2> HIDE DEF p
  <2> QED BY <1>7, PacketPut
<1> HIDE DEF e
<1>10. ~d.hw.txComplete
  BY <1>1, <1>2, <1>7, <1>8, <1>9, DataSentFollows DEF count
<1>11. ~Pending /\ Pending'
  BY <1>2, <1>7, <1>10 DEF Pending
<1>12. /\ SameButEP0(d, o) /\ o.hw.tx = d.hw.tx /\ o.hw.rxPacket = p
       /\ o.hw.txComplete = d.hw.txComplete
  <2>1. p # NoPacket
    BY <1>4
  <2> HIDE DEF p
  <2> QED BY <1>1, <1>6, <1>7, <1>11, <2>1, MeantPut DEF d
<1> HIDE DEF o
<1>13. Following(o, host')
  BY <1>1, <1>2, <1>7, <1>8, <1>12, DataSentFollows DEF count
<1>14. ~("ep0" \in seen /\ pc = "ep0")
  BY <1>11 DEF Pending
<1> QED BY <1>2, <1>5, <1>6, <1>11, <1>13, <1>14, TransactionConverses DEF o

\* The status packet of a read, which the peripheral takes by itself.
LEMMA HostOutStatusConverses ==
  ASSUME Mannerly, IInv, IInv', Conversing, HostOutStatus
  PROVE  Conversing'
<1> DEFINE d == Meant(dev, Pending)
           o == Meant(dev', Pending')
<1>1. /\ Sound(dev) /\ Sound(dev') /\ host \in Hosts
      /\ Pending \in BOOLEAN /\ Pending' \in BOOLEAN
  BY Alive, Uncounted DEF IInv, TypeOK, Pending
<1>2. /\ Reachable /\ dev.hw.rxPacket = NoPacket /\ dev.hw.rx = "valid"
      /\ host' = Acknowledged
      /\ \/ host.phase = "statusOut"
         \/ host.phase = "dataIn" /\ host.req \in Abandonable
      /\ dev' = [dev EXCEPT !.hw.tx = "nack"] /\ "ep0" \in flags'
      /\ UNCHANGED <<pc, app, unmasked, seen>>
  BY DEF HostOutStatus, CanReceive
<1>3. /\ SameButEP0(dev, dev') /\ dev'.hw.tx = "nack"
      /\ dev'.hw.txComplete = dev.hw.txComplete
      /\ dev'.hw.rx = dev.hw.rx /\ dev'.hw.rxPacket = dev.hw.rxPacket
  BY <1>1, <1>2, Nacked
<1>4. /\ Following(d, host) /\ Sound(d)
      /\ d.hw.rx = dev.hw.rx /\ d.hw.rxPacket = dev.hw.rxPacket
  BY <1>2, ReachableConverses
<1>5. /\ SameButEP0(d, o) /\ o.hw.rx = "valid" /\ o.hw.rxPacket = NoPacket
  BY <1>1, <1>2, <1>3, <1>4, MeantPut
<1> HIDE DEF d, o
<1>6. Following(o, host')
  BY <1>1, <1>2, <1>4, <1>5, StatusSentFollows
<1>7. host'.phase = "idle" /\ Pending'
  BY <1>1, <1>2 DEF Acknowledged, Hosts, Pending
<1> QED BY <1>2, <1>3, <1>6, <1>7, TransactionConverses DEF o

\* What the peripheral itself does at a bus reset.
Restarted(d, s) ==
  [d EXCEPT !.hw.addr = 0, !.hw.tx = "nack", !.hw.rx = "valid",
            !.hw.rxPacket = NoPacket, !.hw.eps = 0, !.hw.status = s]

LEMMA RestartedRegisters ==
  ASSUME NEW d, Sound(d), NEW s
  PROVE  LET o == Restarted(d, s)
         IN  /\ o.usbState = d.usbState /\ o.usbCtrlState = d.usbCtrlState
             /\ o.usbSuspended = d.usbSuspended /\ o.packet = d.packet
             /\ o.hw.addr = 0 /\ o.hw.rxPacket = NoPacket
             /\ o.hw.rx = "valid" /\ o.hw.status = s
             /\ o.hw.txComplete = d.hw.txComplete
             /\ o.hw.itrEnable = d.hw.itrEnable /\ o.hw.enabled = d.hw.enabled
<1> DEFINE g == [d.hw EXCEPT !.addr = 0, !.tx = "nack", !.rx = "valid",
                             !.rxPacket = NoPacket, !.eps = 0, !.status = s]
           o == [d EXCEPT !.hw = g]
<1>1. Restarted(d, s) = o
  BY DEF Restarted, Sound, Devices
<1>2. /\ g.rx = "valid" /\ g.status = s /\ g.txComplete = d.hw.txComplete
      /\ g.itrEnable = d.hw.itrEnable /\ g.enabled = d.hw.enabled /\ g.addr = 0
      /\ g.rxPacket = NoPacket
  BY Fields DEF Registers
<1> HIDE DEF g
<1>3. /\ o.hw = g /\ o.usbState = d.usbState /\ o.usbCtrlState = d.usbCtrlState
      /\ o.usbSuspended = d.usbSuspended /\ o.packet = d.packet
  BY DEF Sound, Devices
<1> HIDE DEF o
<1> QED BY <1>1, <1>2, <1>3

LEMMA HostResetConverses ==
  ASSUME ~RudeCuts, IInv, Conversing, HostReset
  PROVE  Conversing'
<1> DEFINE s == dev.hw.status \cup {"reset"}
<1>1. /\ Sound(dev) /\ app' = app /\ pc' = pc /\ seen' = seen /\ HostFound
      /\ dev.usbCtrlState # "dataRX"
      /\ dev' = Restarted(dev, s)
  BY Alive DEF HostReset, MayCut, Restarted
<1>2. "reset" \in s
  OBVIOUS
<1> HIDE DEF s
<1>3. /\ dev'.usbState = dev.usbState /\ dev'.usbCtrlState = dev.usbCtrlState
      /\ dev'.usbSuspended = dev.usbSuspended
      /\ dev'.hw.rx = "valid" /\ "reset" \in dev'.hw.status
      /\ dev'.hw.txComplete = dev.hw.txComplete
      /\ dev'.hw.itrEnable = dev.hw.itrEnable /\ dev'.hw.enabled = dev.hw.enabled
  BY <1>1, <1>2, RestartedRegisters
<1>4. host'.phase = "idle" /\ host'.addr = 0 /\ host'.cfg = 0
  BY <1>1 DEF HostFound, Lost
<1> QED BY <1>1, <1>3, <1>4 DEF Conversing, Awake, Restarting, Live

LEMMA HostUnpluggedConverses ==
  ASSUME IInv, Conversing, HostUnplugged
  PROVE  Conversing'
<1> DEFINE s == dev.hw.status \cup {"disconnect"}
<1>1. /\ Sound(dev) /\ app' = app /\ pc' = pc /\ seen' = seen
      /\ dev' = [dev EXCEPT !.hw.status = s] /\ host'.phase = "gone"
  BY Alive DEF HostUnplugged, Lost
<1> HIDE DEF s
<1>2. /\ SamePipe(dev, dev') /\ dev'.usbSuspended = dev.usbSuspended
      /\ dev'.hw.itrEnable = dev.hw.itrEnable
  BY <1>1, FlagRaised
<1>3. dev'.usbState = dev.usbState
  BY <1>1 DEF Sound, Devices
<1> QED BY <1>1, <1>2, <1>3 DEF Conversing, Awake, Restarting, Live, SamePipe

\* Suspension and the traffic at the other endpoints pass EP0 by.
LEMMA HostBesideEP0 ==
  ASSUME IInv, HostSuspend \/ HostResume \/ HostUserTraffic
  PROVE  /\ SameTransfer(host, host') /\ SamePipe(dev, dev')
         /\ dev'.usbState = dev.usbState
         /\ dev'.usbSuspended = dev.usbSuspended
         /\ dev'.hw.itrEnable = dev.hw.itrEnable
         /\ "reset" \in dev'.hw.status <=> "reset" \in dev.hw.status
<1>1. Sound(dev) /\ host \in Hosts
  BY Alive
<1>2. SameTransfer(host, host')
  <2>1. ASSUME NEW v
        PROVE  SameTransfer(host, [host EXCEPT !.suspended = v])
    BY <1>1 DEF SameTransfer, Hosts
  <2> QED BY <2>1, SameTransferItself DEF HostSuspend, HostResume, HostUserTraffic
<1>3. /\ SamePipe(dev, dev') /\ dev'.usbState = dev.usbState
      /\ dev'.hw.itrEnable = dev.hw.itrEnable
      /\ dev'.usbSuspended = dev.usbSuspended
      /\ "reset" \in dev'.hw.status <=> "reset" \in dev.hw.status
  <2>1. CASE HostSuspend \/ HostResume
    <3>1. PICK e \in {"suspend", "wakeup"} :
            dev' = [dev EXCEPT !.hw.status = dev.hw.status \cup {e}]
      BY <2>1 DEF HostSuspend, HostResume
    <3> DEFINE s == dev.hw.status \cup {e}
    <3>2. "reset" \in s <=> "reset" \in dev.hw.status
      OBVIOUS
    <3>3. dev' = [dev EXCEPT !.hw.status = s]
      BY <3>1
    <3>4. dev'.usbState = dev.usbState
      BY <1>1, <3>3 DEF Sound, Devices
    <3> HIDE DEF s
    <3> QED BY <1>1, <3>2, <3>3, <3>4, FlagRaised
  <2>2. CASE HostUserTraffic
    BY <2>2 DEF HostUserTraffic, SamePipe, SameConfig
  <2> QED BY <2>1, <2>2
<1> QED BY <1>2, <1>3

LEMMA HostBesideConverses ==
  ASSUME IInv, IInv', Conversing, HostSuspend \/ HostResume \/ HostUserTraffic
  PROVE  Conversing'
<1>1. /\ UNCHANGED <<app, pc, seen, unmasked>>
      /\ flags' = flags \/ flags' = flags \cup {"user"}
  BY DEF HostSuspend, HostResume, HostUserTraffic
<1>2. SameTransfer(host, host')
  BY HostBesideEP0
<1>3. /\ SamePipe(dev, dev') /\ dev'.usbState = dev.usbState
      /\ dev'.hw.itrEnable = dev.hw.itrEnable
      /\ dev'.usbSuspended = dev.usbSuspended
      /\ "reset" \in dev'.hw.status <=> "reset" \in dev.hw.status
  BY HostBesideEP0
<1>4. "ep0" \in flags' <=> "ep0" \in flags
  BY <1>1
<1>5. Pending' <=> Pending
  BY <1>1, <1>4 DEF Pending
<1>6. Awake' /\ Restarting'
  BY <1>1, <1>2, <1>3 DEF Conversing, Awake, Restarting, SamePipe, SameTransfer
<1>7. Live(dev, host) => Noticed'
  BY <1>1, <1>2, <1>3, <1>4, <1>5 DEF Conversing, Noticed, SamePipe, SameTransfer
<1> QED BY <1>2, <1>3, <1>5, <1>6, <1>7, BesideConverses

-----------------------------------------------------------------------------
(* The application's steps, and what follows of the conversation.          *)

LEMMA ApplicationConverses ==
  ASSUME IInv, Conversing, Attach \/ DetachBus \/ DetachStack
  PROVE  Conversing'
<1>1. Sound(dev)
  BY Alive
<1>2. /\ host'.phase = "gone" /\ dev'.usbState = dev.usbState
      /\ dev'.usbSuspended = dev.usbSuspended
      /\ dev'.hw.txComplete = dev.hw.txComplete
      /\ dev'.hw.itrEnable \subseteq dev.hw.itrEnable \cup {"reset"}
      /\ app' = "attached" => dev'.hw.enabled
      /\ pc' = pc /\ seen' = seen
  <2>1. CASE Attach
    <3> DEFINE t == {"reset"}
               u == {}
    <3>1. dev' = [dev EXCEPT !.hw.itrEnable = t, !.hw.status = u, !.hw.addr = 0,
                             !.activeConfig = 0, !.hw.enabled = TRUE]
      BY <2>1 DEF Attach
    <3>2. t \subseteq dev.hw.itrEnable \cup {"reset"}
      OBVIOUS
    <3> HIDE DEF t, u
    <3>3. /\ dev'.usbState = dev.usbState /\ dev'.usbSuspended = dev.usbSuspended
          /\ dev'.hw.txComplete = dev.hw.txComplete
          /\ dev'.hw.itrEnable = t /\ dev'.hw.enabled
      BY <1>1, <3>1 DEF Sound, Devices, Registers
    <3> QED BY <2>1, <3>2, <3>3 DEF Attach, IInv, Attended
  <2>2. CASE DetachBus
    BY <1>1, <2>2 DEF DetachBus, Lost, Sound, Devices, Registers
  <2>3. CASE DetachStack
    BY <1>1, <2>3 DEF DetachStack, DeinitHandlers, Sound, Devices, Registers,
                      IInv, Attended
  <2> QED BY <2>1, <2>2, <2>3
<1>3. Awake'
  BY <1>2 DEF Conversing, Awake, Served
<1> QED BY <1>2, <1>3 DEF Conversing, Restarting, Live

LEMMA NextConversing ==
  ASSUME PromptIRQ, Mannerly, Patient, ~RudeCuts, IInv, IInv', Conversing, [Next]_vars
  PROVE  Conversing'
<1>1. CASE UNCHANGED vars
  BY <1>1 DEF vars, Conversing, Awake, Restarting, Noticed, Live, Pending
<1>2. CASE Attach \/ DetachBus \/ DetachStack
  BY <1>2, ApplicationConverses
<1>3. CASE Interrupt
  BY <1>3, InterruptDisconnectConverses, InterruptResetConverses,
     InterruptEventsConverses, PacketReceivedConverses, PacketSentConverses,
     PassedConverses DEF Interrupt
<1>4. CASE Host
  BY <1>4, HostSetupConverses, HostInConverses, HostStalledConverses,
     HostOutDataConverses, HostOutStatusConverses, HostResetConverses,
     HostUnpluggedConverses, HostBesideConverses DEF Host
<1> QED BY <1>1, <1>2, <1>3, <1>4 DEF Next

LEMMA InitConversing == Init => Conversing
<1> SUFFICES ASSUME Init PROVE Conversing
  OBVIOUS
<1>1. /\ host.phase = "gone" /\ app = "detached" /\ pc = "idle" /\ seen = {}
      /\ dev.usbState = "detached" /\ ~dev.usbSuspended
      /\ ~dev.hw.txComplete /\ dev.hw.itrEnable = {}
  BY DEF Init, Lost, PowerOn
<1> QED BY <1>1 DEF Conversing, Awake, Restarting, Live

LEMMA ConversationHolds ==
  ASSUME PromptIRQ, Mannerly, Patient, ~RudeCuts
  PROVE  Spec => [](IInv /\ Conversing)
<1>1. Init => IInv /\ Conversing
  BY InitInvariant, InitConversing
<1>2. IInv /\ Conversing /\ [Next]_vars => (IInv /\ Conversing)'
  BY NextInvariant, NextConversing
<1> QED BY <1>1, <1>2, PTL DEF Spec

\* With every event served, the pipe is as the host takes it to be.
LEMMA SettledFollows ==
  ASSUME IInv, Conversing, Settled, host.phase # "gone"
  PROVE  /\ Following(dev, host) /\ dev.hw.rxPacket = NoPacket
         /\ ~dev.hw.txComplete /\ "reset" \notin dev.hw.status
<1>1. "reset" \notin dev.hw.status
  BY DEF Settled, Raised, Status, IInv, Attended
<1>2. Following(Meant(dev, Pending), host) /\ Noticed /\ Awake
  BY <1>1 DEF Conversing, Live
<1>3. ~Pending
  BY <1>2 DEF Noticed, Settled, Raised, Pending
<1>4. Meant(dev, Pending) = dev
  BY <1>2, <1>3, Alive, MeantIsDevice DEF Awake
<1> QED BY <1>1, <1>2, <1>3, <1>4 DEF Noticed, Awake

\* With an interrupt that keeps up (PromptIRQ), a host and drivers that keep to
\* the conventions (Mannerly, Patient) and no write cut off (RudeCuts): once
\* every event has been served, host and device agree on the address, although
\* one flag stands for every event of EP0 and is cleared by the reading
\* (src/tm4c123gh6pm/core.cxx:448).
THEOREM AddressesStayAgreed ==
  ASSUME PromptIRQ, Mannerly, Patient, ~RudeCuts
  PROVE  Spec => []AddressAgreement
<1>1. IInv /\ Conversing => AddressAgreement
  <2> SUFFICES ASSUME IInv, Conversing, Settled, host.phase = "idle"
               PROVE  dev.hw.enabled /\ dev.hw.addr = host.addr
    BY DEF AddressAgreement, AddressesAgree
  <2>1. /\ Following(dev, host) /\ dev.hw.rxPacket = NoPacket
        /\ ~dev.hw.txComplete /\ NoPacket.kind = "none"
    BY SettledFollows DEF NoPacket
  <2> QED BY <2>1 DEF Following, Addressed, Receiving, Ready
<1> QED BY <1>1, ConversationHolds, PTL

\* With an interrupt that keeps up (PromptIRQ), a host and drivers that keep to
\* the conventions (Mannerly, Patient) and no write cut off (RudeCuts): a
\* configuration the host has seen acknowledged is active, its endpoints
\* enabled and its handlers initialised.
THEOREM ConfigsStayAgreed ==
  ASSUME PromptIRQ, Mannerly, Patient, ~RudeCuts
  PROVE  Spec => []ConfigAgreement
<1>1. IInv /\ Conversing => ConfigAgreement
  <2> SUFFICES ASSUME IInv, Conversing, Settled, host.phase = "idle", host.cfg # 0
               PROVE  /\ dev.activeConfig = host.cfg /\ dev.hw.eps = host.cfg
                      /\ host.cfg \in dev.handlersUp
    BY DEF ConfigAgreement, ConfigsAgree
  <2>1. Following(dev, host)
    BY SettledFollows
  <2> QED BY <2>1 DEF Following, ConfiguredTo, Chosen, Up
<1> QED BY <1>1, ConversationHolds, PTL

\* With an interrupt that keeps up (PromptIRQ), a host and drivers that keep to
\* the conventions (Mannerly, Patient) and no write cut off (RudeCuts): a
\* transfer is never left with EP0 unable to take its next packet: the handler
\* tells a packet received from one sent by what EP0 holds when it looks, after
\* it has cleared the flag (src/tm4c123gh6pm/core.cxx:448).
THEOREM TransfersStayOpen ==
  ASSUME PromptIRQ, Mannerly, Patient, ~RudeCuts
  PROVE  Spec => []NoDeadTransfer
<1>1. IInv /\ Conversing => NoDeadTransfer
  <2> SUFFICES ASSUME IInv, Conversing, Settled, Reachable PROVE EP0Open
    BY DEF NoDeadTransfer, EP0Open
  <2>1. host.phase # "gone" /\ host \in Hosts
    BY DEF Reachable, IInv, TypeOK
  <2>2. /\ Following(dev, host) /\ dev.hw.rxPacket = NoPacket
        /\ ~dev.hw.txComplete /\ NoPacket.kind = "none"
    BY <2>1, SettledFollows DEF NoPacket
  <2>3. dev.hw.rx = "valid"
    BY <2>2 DEF Following, Receiving
  <2>4. host.phase = "dataIn" => dev.hw.tx \in {"valid", "stall"}
    BY <2>2 DEF Following, Transferring, Reading, Refused, Offered, Sent
  <2>5. host.phase = "statusIn" => dev.hw.tx \in {"valid", "stall"}
    BY <2>2 DEF Following, Transferring, Finishing, Refused, Acking
  <2> QED BY <2>1, <2>3, <2>4, <2>5 DEF EP0Open, Hosts
<1> QED BY <1>1, ConversationHolds, PTL

\* A step that takes the device from the host's view leaves it no new address.
LEMMA LostWithoutAddress ==
  ASSUME IInv, [Next]_vars, host.phase # "gone",
         dev'.hw.addr \notin {0, dev.hw.addr}
  PROVE  host'.phase # "gone"
<1>1. Sound(dev)
  BY Alive
<1>2. CASE UNCHANGED vars \/ Attach \/ DetachStack
  BY <1>2 DEF vars, Attach, DetachStack
<1>3. CASE Interrupt
  <2>1. CASE InterruptDisconnect
    <3>1. Read.hw.addr = dev.hw.addr /\ CycleBus(Read).hw.addr = dev.hw.addr
      BY <1>1 DEF Read, CycleBus, Sound, Devices, Registers
    <3>2. dev'.hw.addr = dev.hw.addr \/ host' = host
      BY <2>1, <3>1 DEF InterruptDisconnect
    <3> QED BY <3>2
  <2> QED BY <1>3, <2>1 DEF Interrupt, InterruptReset, InterruptEvents,
             PacketReceived, PacketSent, NothingForEP0, ProcessUserEndpoint
<1>4. CASE DetachBus
  BY <1>1, <1>4 DEF DetachBus, Sound, Devices, Registers
<1>5. CASE \E r \in Requests : HostSetup(r)
  <2>1. PICK p : dev' = [dev EXCEPT !.hw.tx = "nack", !.hw.rx = "nack",
                                    !.hw.rxPacket = p]
    BY <1>5 DEF HostSetup
  <2>2. SameButEP0(dev, dev')
    BY <1>1, <2>1, SetupPut
  <2> QED BY <2>2 DEF SameButEP0, SameAddress
<1>6. CASE HostIn \/ HostStalled \/ HostOutStatus
  <2>1. SameButEP0(dev, dev')
    BY <1>1, <1>6, Nacked DEF HostIn, HostStalled, HostOutStatus
  <2> QED BY <2>1 DEF SameButEP0, SameAddress
<1>7. CASE HostOutData
  <2>1. PICK p : dev' = [dev EXCEPT !.hw.rx = "nack", !.hw.rxPacket = p]
    BY <1>7 DEF HostOutData
  <2>2. SameButEP0(dev, dev')
    BY <1>1, <2>1, PacketPut
  <2> QED BY <2>2 DEF SameButEP0, SameAddress
<1>8. CASE HostReset
  <2>1. PICK s : dev' = Restarted(dev, s)
    BY <1>8 DEF HostReset, Restarted
  <2> QED BY <1>1, <2>1, RestartedRegisters
<1>9. CASE HostUnplugged \/ HostSuspend \/ HostResume \/ HostUserTraffic
  <2>1. \/ \E s : dev' = [dev EXCEPT !.hw.status = s]
        \/ dev' = dev
    BY <1>9 DEF HostUnplugged, HostSuspend, HostResume, HostUserTraffic
  <2>2. ASSUME NEW s, dev' = [dev EXCEPT !.hw.status = s]
        PROVE  dev'.hw.addr = dev.hw.addr
    BY <1>1, <2>2, FlagRaised DEF SamePipe
  <2> QED BY <2>1, <2>2
<1> QED BY <1>2, <1>3, <1>4, <1>5, <1>6, <1>7, <1>8, <1>9 DEF Next, Host

\* With an interrupt that keeps up (PromptIRQ), a host and drivers that keep to
\* the conventions (Mannerly, Patient) and no write cut off (RudeCuts): the
\* device takes the address of a SET_ADDRESS only once the host has seen it
\* acknowledged: the flag that says so may stand for an older event, but then
\* nothing waits for it (src/device.cxx:30).
THEOREM AddressFollowsStatus ==
  ASSUME PromptIRQ, Mannerly, Patient, ~RudeCuts
  PROVE  Spec => AddressAfterStatus
<1>1. ASSUME IInv, IInv', Conversing', [Next]_vars, host.phase # "gone",
             dev'.hw.addr \notin {0, dev.hw.addr}
      PROVE  host'.addr = dev'.hw.addr \/ "reset" \in dev'.hw.status
  <2> DEFINE o == Meant(dev', Pending')
  <2>1. host'.phase # "gone"
    BY <1>1, LostWithoutAddress
  <2>2. Live(dev', host') => Following(o, host')
    BY <1>1 DEF Conversing
  <2>3. o.hw.addr = dev'.hw.addr
    <3>1. Sound(dev') /\ Pending' \in BOOLEAN
      BY <1>1, Uncounted DEF IInv, TypeOK, Pending
    <3> QED BY <3>1, MeantIsDevice DEF SameButEP0, SameAddress
  <2> HIDE DEF o
  <2> QED BY <1>1, <2>1, <2>2, <2>3 DEF Live, Following, Addressed
<1>2. IInv /\ Conversing /\ [Next]_vars /\ (IInv /\ Conversing)' =>
        [host.phase # "gone" /\ dev'.hw.addr \notin {0, dev.hw.addr} =>
           host'.addr = dev'.hw.addr \/ "reset" \in dev'.hw.status]_dev
  BY <1>1
<1> QED BY <1>2, ConversationHolds, PTL DEF Spec, AddressAfterStatus

-----------------------------------------------------------------------------
(* What becomes the device's request.                                      *)

\* What waits in EP0's buffer and is no SETUP packet will be read as data.
AwaitedAsData ==
  dev.hw.rxPacket # NoPacket /\ dev.hw.rxPacket.kind # "setup" =>
    dev.usbCtrlState = "dataRX"

LEMMA InitAwaits == Init => AwaitedAsData
<1> SUFFICES ASSUME Init PROVE dev.hw.rxPacket = NoPacket
  BY DEF AwaitedAsData
<1> QED BY DEF Init, PowerOn

\* The data of a write, however much comes, is read past the request.
LEMMA DataLeavesRequest ==
  ASSUME NEW d, Sound(d), NEW rx \in RxPackets, NEW ans, d.usbCtrlState = "dataRX"
  PROVE  HandleControlPacketByState(d, rx, ans).packet = d.packet
<1> DEFINE read == ReadEP(d, rx.count)
           i    == [read.in EXCEPT !.needsArming = TRUE]
           ack  == [read EXCEPT !.in = i, !.usbCtrlState = "statusTX"]
           full == WriteEP(ack)
           o    == HandleControlPacketByState(d, rx, ans)
<1>1. rx.count \in Nat
  BY Words DEF RxPackets
<1>2. Sound(read) /\ read.packet = d.packet
  BY <1>1, ReadEPSound, ReadEPReads
<1>3. o = IF read.out.transferCount = 0 THEN RunCallback(full) ELSE read
  <2>1. o = IF read.out.transferCount = 0
            THEN RunCallback(WriteEP([read EXCEPT !.in.needsArming = TRUE,
                                                  !.usbCtrlState = "statusTX"]))
            ELSE read
    BY DEF HandleControlPacketByState, HandleControllerOutPacket
  <2> HIDE DEF read
  <2>2. [read EXCEPT !.in.needsArming = TRUE, !.usbCtrlState = "statusTX"] = ack
    BY <1>2 DEF Sound, Devices
  <2> QED BY <2>1, <2>2
<1> HIDE DEF read, o
<1>4. i \in EpIn
  BY <1>2, Fields DEF EpIn
<1> HIDE DEF i
<1>5. Sound(ack) /\ ack.packet = d.packet
  <2> DEFINE arm == [read EXCEPT !.in = i]
  <2>1. Sound(arm) /\ arm.packet = read.packet
    BY <1>2, <1>4, SetIn DEF Sound, Devices
  <2>2. ack = [arm EXCEPT !.usbCtrlState = "statusTX"]
    BY <1>2 DEF Sound, Devices
  <2> HIDE DEF arm, ack
  <2>3. Sound(ack)
    BY <2>1, <2>2, SetCtrlState DEF CtrlStates
  <2>4. ack.packet = arm.packet
    BY <2>1, <2>2 DEF Sound, Devices
  <2> QED BY <1>2, <2>1, <2>3, <2>4
<1> HIDE DEF ack
<1>6. Sound(full) /\ full.packet = d.packet
  BY <1>5, WriteEPSound, WriteEPWrites DEF SameReceiver
<1> HIDE DEF full
<1>7. RunCallback(full).packet = full.packet
  BY <1>6, CallbackRuns DEF SameReceiver
<1> QED BY <1>2, <1>3, <1>6, <1>7 DEF o

LEMMA HandledLeavesRequest ==
  ASSUME Sound(dev), NEW d, Sound(d), Handled(d)
  PROVE  dev'.packet = d.packet
<1> DEFINE g == [d.hw EXCEPT !.enabled = dev.hw.enabled,
                             !.eps = IF @ = 0 THEN dev.hw.eps ELSE @]
<1>1. dev' = [d EXCEPT !.hw = g]
  BY DEF Handled, Sound, Devices
<1> HIDE DEF g
<1> QED BY <1>1 DEF Sound, Devices

LEMMA ServedAsData ==
  ASSUME IInv, AwaitedAsData, PacketReceived \/ PacketSent
  PROVE  /\ dev'.hw.rxPacket = NoPacket
         /\ dev'.packet # dev.packet => dev.hw.rxPacket.kind = "setup"
<1>1. Sound(dev)
  BY Alive
<1>2. CASE PacketReceived
  <2> DEFINE rx == dev.hw.rxPacket
             e  == [dev EXCEPT !.hw.rxPacket = NoPacket]
  <2>1. PICK ans \in ClassAnswers[rx.data.dir] :
          Handled(HandleControlPacketByState(e, rx, ans))
    BY <1>2 DEF PacketReceived
  <2> DEFINE o == HandleControlPacketByState(e, rx, ans)
  <2>2. /\ Sound(e) /\ rx \in RxPackets /\ ans \in Answers /\ rx # NoPacket
        /\ e.hw.rxPacket = NoPacket /\ e.packet = dev.packet
        /\ e.usbCtrlState = dev.usbCtrlState
    BY <1>1, <1>2, <2>1, PacketFetched, Fetched DEF PacketReceived
  <2> HIDE DEF e
  <2>3. Sound(o) /\ Untouched(e, o)
    BY <2>2, HandleControlPacketByStateSound, HandleControlPacketByStateKeeps
  <2>4. rx.kind # "setup" => o.packet = dev.packet
    BY <2>2, DataLeavesRequest DEF AwaitedAsData
  <2> HIDE DEF o
  <2>5. Handled(o)
    BY <2>1 DEF o, e
  <2> QED BY <1>1, <2>2, <2>3, <2>4, <2>5, HandledFrame, HandledLeavesRequest
          DEF Untouched
<1>3. CASE PacketSent
  <2> DEFINE o == HandleControllerInPacket(dev)
  <2>1. dev.hw.rxPacket = NoPacket /\ Handled(o)
    BY <1>3 DEF PacketSent
  <2>2. Sound(o) /\ Untouched(dev, o)
    BY <1>1, HandleControllerInPacketSound, HandleControllerInPacketKeeps
  <2>3. o.packet = dev.packet
    <3>1. CASE dev.usbCtrlState = "dataTX"
      BY <1>1, <3>1, AnyPacketSent
    <3>2. CASE dev.usbCtrlState # "dataTX"
      BY <1>1, <3>2, TransferEnded DEF HandleControllerInPacket
    <3> QED BY <3>1, <3>2
  <2> HIDE DEF o
  <2> QED BY <1>1, <2>1, <2>2, <2>3, HandledFrame, HandledLeavesRequest DEF Untouched
<1> QED BY <1>2, <1>3

\* The interrupt's other steps, the application's and the bus's leave the request,
\* and what waits in the buffer or nothing.
LEMMA PassedAsData ==
  ASSUME IInv, Conversing,
         \/ Attach \/ DetachBus \/ DetachStack
         \/ InterruptDisconnect \/ InterruptReset \/ InterruptEvents
         \/ NothingForEP0 \/ ProcessUserEndpoint
         \/ HostReset \/ HostUnplugged \/ HostSuspend \/ HostResume \/ HostUserTraffic
  PROVE  /\ dev'.packet = dev.packet /\ dev'.usbCtrlState = dev.usbCtrlState
         /\ dev'.hw.rxPacket \in {dev.hw.rxPacket, NoPacket}
<1>1. Sound(dev)
  BY Alive
<1>2. Sound(Read) /\ SamePipe(dev, Read) /\ Entered = Read /\ "suspend" \notin Status
  BY EnteredAwake DEF Conversing
<1>3. CASE Attach
  <2> DEFINE t == {"reset"}
             u == {}
             g == [dev.hw EXCEPT !.itrEnable = t, !.status = u, !.addr = 0,
                                 !.enabled = TRUE]
  <2>1. dev' = [dev EXCEPT !.hw = g, !.activeConfig = 0]
    BY <1>1, <1>3 DEF Attach, Sound, Devices
  <2> HIDE DEF t, u
  <2>2. g.rxPacket = dev.hw.rxPacket
    BY <1>1, Fields DEF Registers
  <2> HIDE DEF g
  <2> QED BY <1>1, <2>1, <2>2 DEF Sound, Devices
<1>4. CASE DetachBus
  BY <1>1, <1>4 DEF DetachBus, Sound, Devices, Registers
<1>5. CASE DetachStack
  BY <1>1, <1>5 DEF DetachStack, DeinitHandlers, Sound, Devices, Registers
<1>6. CASE InterruptDisconnect
  <2> DEFINE g == [Read.hw EXCEPT !.enabled = TRUE, !.itrEnable = {"reset"}]
  <2>1. dev' = [Read EXCEPT !.usbState = "detached", !.hw = g]
    <3>1. dev' = CycleBus(Read)
      BY <1>6 DEF InterruptDisconnect, Conversing, Awake, Status
    <3> QED BY <1>2, <3>1 DEF CycleBus, Sound, Devices
  <2>2. g.rxPacket = dev.hw.rxPacket
    BY <1>2, Fields DEF Registers, SamePipe
  <2> HIDE DEF g
  <2>3. /\ dev'.hw = g /\ dev'.packet = Read.packet
        /\ dev'.usbCtrlState = Read.usbCtrlState
    BY <1>2, <2>1 DEF Sound, Devices
  <2> QED BY <1>2, <2>2, <2>3 DEF SamePipe
<1>7. CASE InterruptReset
  <2>1. dev' = Reset(Read)
    BY <1>2, <1>7 DEF InterruptReset
  <2> QED BY <1>2, <2>1, ResetDone DEF SamePipe
<1>8. CASE InterruptEvents
  <2>1. dev' = Read
    BY <1>2, <1>8 DEF InterruptEvents
  <2> QED BY <1>2, <2>1 DEF SamePipe
<1>9. CASE NothingForEP0 \/ ProcessUserEndpoint
  BY <1>9 DEF NothingForEP0, ProcessUserEndpoint
<1>10. CASE HostReset
  <2> DEFINE s == dev.hw.status \cup {"reset"}
  <2>1. dev' = Restarted(dev, s)
    BY <1>10 DEF HostReset, Restarted
  <2> HIDE DEF s
  <2> QED BY <1>1, <2>1, RestartedRegisters
<1>11. CASE HostUnplugged
  <2> DEFINE s == dev.hw.status \cup {"disconnect"}
  <2>1. dev' = [dev EXCEPT !.hw.status = s]
    BY <1>11 DEF HostUnplugged
  <2> HIDE DEF s
  <2> QED BY <1>1, <2>1, FlagRaised DEF SamePipe
<1>12. CASE HostSuspend \/ HostResume \/ HostUserTraffic
  BY <1>12, HostBesideEP0 DEF SamePipe
<1> QED BY <1>3, <1>4, <1>5, <1>6, <1>7, <1>8, <1>9, <1>10, <1>11, <1>12

\* A packet of data is only taken while the device counts a write; a stall it has
\* answered with stands in the way of the rest.
LEMMA HostAsData ==
  ASSUME Mannerly, IInv, Conversing, AwaitedAsData,
         \/ \E r \in Requests : HostSetup(r)
         \/ HostIn \/ HostStalled \/ HostOutData \/ HostOutStatus
  PROVE  AwaitedAsData' /\ dev'.packet = dev.packet
<1>1. Sound(dev)
  BY Alive
<1>2. ASSUME NEW r \in Requests, HostSetup(r)
      PROVE  AwaitedAsData' /\ dev'.packet = dev.packet
  <2> DEFINE p == [kind |-> "setup", data |-> r, count |-> 8]
  <2>1. dev' = [dev EXCEPT !.hw.tx = "nack", !.hw.rx = "nack", !.hw.rxPacket = p]
    BY <1>2 DEF HostSetup
  <2>2. p.kind = "setup"
    OBVIOUS
  <2> HIDE DEF p
  <2>3. SameButEP0(dev, dev') /\ dev'.hw.rxPacket = p
    BY <1>1, <2>1, SetupPut
  <2> QED BY <2>2, <2>3 DEF AwaitedAsData, SameButEP0
<1>3. CASE HostIn \/ HostStalled \/ HostOutStatus
  <2>1. dev' = [dev EXCEPT !.hw.tx = "nack"]
    BY <1>3 DEF HostIn, HostStalled, HostOutStatus
  <2> QED BY <1>1, <2>1, Nacked DEF AwaitedAsData, SameButEP0
<1>4. CASE HostOutData
  <2> DEFINE d == Meant(dev, Pending)
  <2>1. /\ Reachable /\ dev.hw.rxPacket = NoPacket /\ dev.hw.tx # "stall"
        /\ host.phase = "dataOut"
    BY <1>4 DEF HostOutData, CanReceive
  <2>2. PICK p : dev' = [dev EXCEPT !.hw.rx = "nack", !.hw.rxPacket = p]
    BY <1>4 DEF HostOutData
  <2>3. SameButEP0(dev, dev')
    BY <1>1, <2>2, PacketPut
  <2>4. /\ Following(d, host) /\ SameButEP0(dev, d) /\ d.hw.tx = dev.hw.tx
        /\ d.hw.rxPacket = NoPacket
    BY <2>1, ReachableConverses
  <2> HIDE DEF d
  <2>5. d.usbCtrlState = "dataRX"
    BY <2>1, <2>4 DEF Following, Transferring, Writing, Refused, Armed, NoPacket
  <2> QED BY <2>3, <2>4, <2>5 DEF AwaitedAsData, SameButEP0
<1> QED BY <1>2, <1>3, <1>4

LEMMA StepAsData ==
  ASSUME Mannerly, IInv, Conversing, AwaitedAsData, [Next]_vars
  PROVE  /\ AwaitedAsData'
         /\ dev'.packet # dev.packet => dev.hw.rxPacket.kind = "setup"
<1>1. CASE \/ Attach \/ DetachBus \/ DetachStack
           \/ InterruptDisconnect \/ InterruptReset \/ InterruptEvents
           \/ NothingForEP0 \/ ProcessUserEndpoint
           \/ HostReset \/ HostUnplugged \/ HostSuspend \/ HostResume
           \/ HostUserTraffic
  <2>1. /\ dev'.packet = dev.packet /\ dev'.usbCtrlState = dev.usbCtrlState
        /\ dev'.hw.rxPacket \in {dev.hw.rxPacket, NoPacket}
    BY <1>1, PassedAsData
  <2> QED BY <2>1 DEF AwaitedAsData
<1>2. CASE PacketReceived \/ PacketSent
  BY <1>2, ServedAsData DEF AwaitedAsData
<1>3. CASE \/ \E r \in Requests : HostSetup(r)
           \/ HostIn \/ HostStalled \/ HostOutData \/ HostOutStatus
  BY <1>3, HostAsData
<1>4. CASE UNCHANGED vars
  BY <1>4 DEF vars, AwaitedAsData
<1> QED BY <1>1, <1>2, <1>3, <1>4 DEF Next, Interrupt, Host

\* With an interrupt that keeps up (PromptIRQ), a host and drivers that keep to
\* the conventions (Mannerly, Patient) and no write cut off (RudeCuts): "Read
\* in the new setup packet" (src/device.cxx:275): whatever the data of a write
\* holds, also of one the device has refused, it never becomes the request,
\* although the handler goes by the state of the last transfer and not by a
\* mark on the packet (src/tm4c123gh6pm/device.cxx:103).
THEOREM RequestsAreSetups ==
  ASSUME PromptIRQ, Mannerly, Patient, ~RudeCuts
  PROVE  Spec => OnlySetupsAreRequests
<1>1. Init => AwaitedAsData
  BY InitAwaits
<1>2. /\ IInv /\ Conversing /\ AwaitedAsData /\ [Next]_vars => AwaitedAsData'
      /\ IInv /\ Conversing /\ AwaitedAsData /\ [Next]_vars =>
           [dev'.packet # dev.packet => dev.hw.rxPacket.kind = "setup"]_dev
  BY StepAsData
<1> QED BY <1>1, <1>2, ConversationHolds, PTL DEF Spec, OnlySetupsAreRequests

-----------------------------------------------------------------------------
(* The driver implements the contract of a control pipe.                   *)

LEMMA RefinesInit == Init => Contract!Init
BY DEF Init, PowerOn, Lost, ZeroPacket, Offer, Running, Resetting, AddressOf,
       Contract!Init, Contract!Nothing

\* What the stack's handlers have done shows as they have done it: endpoints that
\* are left running although no configuration is are not the host's.
LEMMA HandledShows ==
  ASSUME Sound(dev), NEW d, Sound(d), Handled(d), d.hw.enabled = dev.hw.enabled,
         SameConfig(dev, d) \/ Chosen(d) \/ Down(d), NEW h
  PROVE  /\ dev'.hw.tx = d.hw.tx /\ dev'.hw.txData = d.hw.txData
         /\ dev'.hw.addr = d.hw.addr /\ dev'.hw.status = d.hw.status
         /\ AddressOf(dev', h) = AddressOf(d, h) /\ Running(dev', h) = Running(d, h)
<1>1. CASE d.hw.eps # 0
  <2>1. dev' = d
    BY <1>1, HandledNothing
  <2> QED BY <2>1
<1>2. CASE d.hw.eps = 0
  <2> DEFINE g == [d.hw EXCEPT !.eps = dev.hw.eps]
  <2>1. dev' = [d EXCEPT !.hw = g]
    <3>1. dev' = [d EXCEPT !.hw.eps = dev.hw.eps]
      BY <1>2, HandledNothing
    <3> QED BY <3>1 DEF Sound, Devices
  <2>2. /\ g.tx = d.hw.tx /\ g.txData = d.hw.txData /\ g.addr = d.hw.addr
        /\ g.status = d.hw.status /\ g.eps = dev.hw.eps
    BY Fields DEF Registers
  <2> HIDE DEF g
  <2>3. /\ dev'.hw = g /\ dev'.activeConfig = d.activeConfig
        /\ dev'.handlersUp = d.handlersUp
    BY <2>1 DEF Sound, Devices
  <2>4. SameConfig(dev, d) \/ d.activeConfig \notin d.handlersUp
    BY <1>2 DEF Chosen, Up, Down
  <2> QED BY <1>2, <2>2, <2>3, <2>4 DEF AddressOf, Running, Resetting, SameConfig
<1> QED BY <1>1, <1>2

\* The steps beside EP0 are none of the contract's; a bus reset is served when it
\* has long been the contract's Reset, and the device that leaves the bus to come
\* back is lost.
LEMMA BesideRefines ==
  ASSUME IInv, IInv', Conversing,
         \/ InterruptReset \/ InterruptEvents \/ InterruptDisconnect
         \/ NothingForEP0 \/ ProcessUserEndpoint
         \/ HostSuspend \/ HostResume \/ HostUserTraffic
  PROVE  [Contract!Next]_(Contract!vars)
<1>1. /\ Sound(Read) /\ SamePipe(dev, Read) /\ Read.hw.status = {}
      /\ Entered = Read /\ "suspend" \notin Status /\ ~Entered.usbSuspended
  BY EnteredAwake DEF Conversing
<1>2. CASE InterruptReset
  <2>1. dev' = Reset(Read) /\ host' = host /\ "reset" \in dev.hw.status
    BY <1>1, <1>2 DEF InterruptReset, Status
  <2>2. dev'.hw.addr = 0 /\ dev'.hw.eps = 0
    BY <1>1, <2>1, ResetDone DEF IInv, Attended, SamePipe, SameConfig
  <2>3. host.phase \in {"idle", "gone"} /\ Resetting(dev, host)
    BY <2>1 DEF Conversing, Restarting, Resetting
  <2>4. /\ Offer(dev', host) = <<"nothing">> /\ Running(dev', host) = 0
        /\ AddressOf(dev', host) = 0
    <3>1. Running(dev', host) = 0
      BY <2>2 DEF Running
    <3> QED BY <2>2, <2>3, <3>1 DEF Offer, AddressOf
  <2> QED BY <2>1, <2>3, <2>4, Unseen, SameTransferItself, ContractStutters
<1>3. CASE InterruptEvents
  <2>1. dev' = Entered /\ host' = host /\ "reset" \notin Status
    BY <1>1, <1>3 DEF InterruptEvents
  <2>2. Resetting(dev', host') <=> Resetting(dev, host)
    BY <1>1, <2>1 DEF Resetting, Status, IInv, Attended
  <2>3. SamePipe(dev, dev') /\ SameTransfer(host, host')
    BY <1>1, <2>1, SameTransferItself
  <2> QED BY <2>2, <2>3, ViewKept
<1>4. CASE InterruptDisconnect
  <2>1. host' = Lost /\ Resetting(dev', host')
    BY <1>4 DEF InterruptDisconnect, Conversing, Awake, Status, Lost, Resetting
  <2> QED BY <2>1, ContractResets DEF Contract!Next, Contract!Host
<1>5. CASE NothingForEP0 \/ ProcessUserEndpoint
  BY <1>5, SameTransferItself, ContractStutters DEF NothingForEP0, ProcessUserEndpoint
<1>6. CASE HostSuspend \/ HostResume \/ HostUserTraffic
  BY <1>6, HostBesideEP0, ViewKept DEF Resetting, SameTransfer
<1> QED BY <1>2, <1>3, <1>4, <1>5, <1>6

LEMMA ApplicationRefines ==
  ASSUME IInv, Conversing,
         Attach \/ DetachBus \/ DetachStack \/ HostReset \/ HostUnplugged
  PROVE  [Contract!Next]_(Contract!vars)
<1>1. CASE Attach \/ DetachStack
  <2>1. host.phase = "gone" /\ host' = host
    BY <1>1 DEF Attach, DetachStack, IInv, Attended
  <2>2. Resetting(dev, host) /\ Resetting(dev', host')
    BY <2>1 DEF Resetting
  <2> QED BY <2>1, <2>2, UnseenShows, SameTransferItself
<1>2. CASE DetachBus \/ HostUnplugged
  <2>1. host' = Lost /\ Resetting(dev', host')
    BY <1>2 DEF DetachBus, HostUnplugged, Lost, Resetting
  <2> QED BY <2>1, ContractResets DEF Contract!Next, Contract!Host
<1>3. CASE HostReset
  <2> DEFINE s == dev.hw.status \cup {"reset"}
  <2>1. HostFound /\ dev' = Restarted(dev, s)
    BY <1>3 DEF HostReset, Restarted
  <2>2. "reset" \in s
    OBVIOUS
  <2> HIDE DEF s
  <2>3. Resetting(dev', host')
    BY <2>1, <2>2, Alive, RestartedRegisters DEF Resetting
  <2> QED BY <2>1, <2>3, ContractResets DEF Contract!Next, Contract!Host
<1> QED BY <1>1, <1>2, <1>3

LEMMA HostRefines ==
  ASSUME Mannerly, IInv, Conversing,
         \/ \E r \in Requests : HostSetup(r)
         \/ HostIn \/ HostStalled \/ HostOutData \/ HostOutStatus
  PROVE  Contract!Next
<1> DEFINE d == Meant(dev, Pending)
<1>1. Sound(dev) /\ host \in Hosts
  BY Alive
<1>2. ASSUME Reachable
      PROVE  /\ Following(d, host) /\ Sound(d)
             /\ d.hw.tx = dev.hw.tx /\ d.hw.rxPacket = dev.hw.rxPacket
             /\ d.hw.txData = dev.hw.txData
  BY <1>2, ReachableConverses DEF SameButEP0
<1>3. ASSUME NEW r \in Requests, HostSetup(r) PROVE Contract!Next
  <2> DEFINE p == [kind |-> "setup", data |-> r, count |-> 8]
  <2>1. /\ HostAsks(r)
        /\ dev' = [dev EXCEPT !.hw.tx = "nack", !.hw.rx = "nack", !.hw.rxPacket = p]
    BY <1>3 DEF HostSetup
  <2> HIDE DEF p
  <2>2. SameButEP0(dev, dev') /\ dev'.hw.tx = "nack"
    BY <1>1, <2>1, SetupPut
  <2> QED BY <1>1, <2>1, <2>2, AskShows
<1>4. CASE HostIn
  <2> DEFINE e == [d EXCEPT !.hw.tx = "nack", !.hw.txComplete = TRUE]
  <2>1. /\ Reachable /\ dev.hw.tx = "valid" /\ HostTakes(dev.hw.txData.len)
        /\ dev' = [dev EXCEPT !.hw.tx = "nack"]
    BY <1>4 DEF HostIn
  <2>2. SameButEP0(dev, dev') /\ dev'.hw.tx = "nack"
    BY <1>1, <2>1, Nacked
  <2> HIDE DEF d
  <2>3. /\ SameButEP0(d, e) /\ e.hw.tx = "nack" /\ e.hw.txComplete
        /\ e.hw.rx = d.hw.rx /\ e.hw.rxPacket = d.hw.rxPacket
    BY <1>2, <2>1, PacketTaken
  <2> HIDE DEF e
  <2>4. host.phase = "statusIn" => dev.hw.txData.len = 0
    BY <1>1, <1>2, <2>1, <2>3, TakenFollows
  <2> QED BY <1>1, <2>1, <2>2, <2>4, TakeShows
<1>5. CASE HostStalled
  <2>1. SameButEP0(dev, dev')
    BY <1>1, <1>5, Nacked DEF HostStalled
  <2> QED BY <1>1, <1>5, <2>1, RefusalShows DEF HostStalled
<1>6. CASE HostOutData
  <2> DEFINE count == Least(host.req.length - host.got, epBufferSize)
  <2>1. /\ Reachable /\ dev.hw.rxPacket = NoPacket /\ host.phase = "dataOut"
        /\ HostSends(count)
    BY <1>6 DEF HostOutData, CanReceive
  <2>2. PICK p : dev' = [dev EXCEPT !.hw.rx = "nack", !.hw.rxPacket = p]
    BY <1>6 DEF HostOutData
  <2>3. SameButEP0(dev, dev') /\ dev'.hw.tx = dev.hw.tx
    BY <1>1, <2>2, PacketPut
  <2> HIDE DEF d
  <2>4. dev.hw.tx \in {"stall", "nack"}
    BY <1>2, <2>1 DEF Following, Transferring, Writing, Refused, Armed, NoPacket
  <2> QED BY <1>1, <2>1, <2>3, <2>4, SendShows
<1>7. CASE HostOutStatus
  <2>1. /\ Reachable /\ dev.hw.rxPacket = NoPacket /\ host' = Acknowledged
        /\ \/ host.phase = "statusOut"
           \/ host.phase = "dataIn" /\ host.req \in Abandonable
        /\ dev' = [dev EXCEPT !.hw.tx = "nack"]
    BY <1>7 DEF HostOutStatus, CanReceive
  <2>2. SameButEP0(dev, dev')
    BY <1>1, <2>1, Nacked
  <2>3. ~IsSetAddress(host.req)
    <3>1. host.req \in Requests /\ host.req.length # 0
      BY <1>2, <2>1 DEF Following, Transferring
    <3> QED BY <3>1, DataStageRequest
  <2> QED BY <1>1, <2>1, <2>2, <2>3, StatusShows
<1> QED BY <1>3, <1>4, <1>5, <1>6, <1>7

LEMMA PacketReceivedRefines ==
  ASSUME Mannerly, IInv, Conversing, PacketReceived
  PROVE  [Contract!Next]_(Contract!vars)
<1> DEFINE rx == dev.hw.rxPacket
           e  == [dev EXCEPT !.hw.rxPacket = NoPacket]
<1>1. /\ Sound(dev) /\ host \in Hosts /\ host' = host /\ rx # NoPacket
      /\ "reset" \notin dev.hw.status /\ ~dev.hw.txComplete
  <2>1. rx # NoPacket /\ host' = host
    BY DEF PacketReceived
  <2> QED BY <2>1, Alive DEF IInv, Attended, Conversing, Awake
<1>2. CASE ~Live(dev, host)
  <2>1. Resetting(dev, host) /\ Resetting(dev', host') /\ host.phase = "gone"
    BY <1>1, <1>2 DEF Live, Resetting
  <2> QED BY <1>1, <2>1, UnseenShows, SameTransferItself
<1>3. CASE Live(dev, host)
  <2>1. PICK ans \in ClassAnswers[rx.data.dir] :
          Handled(HandleControlPacketByState(e, rx, ans))
    BY DEF PacketReceived
  <2> DEFINE o == HandleControlPacketByState(e, rx, ans)
  <2>2. Following(dev, host)
    BY <1>1, <1>3, Alive, MeantIsDevice DEF Conversing
  <2>3. /\ Sound(e) /\ rx \in RxPackets /\ ans \in Answers
        /\ e.hw.status = dev.hw.status /\ SameConfig(dev, e)
        /\ e.hw.addr = dev.hw.addr
    BY <1>1, <2>1, PacketFetched, Fetched DEF SameAddress
  <2>4. Sound(o)
    <3> HIDE DEF e
    <3> QED BY <2>3, HandleControlPacketByStateSound
  <2>5. rx.kind \in {"setup", "out"}
    BY <1>1, <2>2, <2>3 DEF RxPackets, Following, Receiving
  <2>6. CASE rx.kind = "setup"
    <3>1. /\ Untouched(e, o) /\ Outcome(host.req, "nack", o) /\ Following(o, host)
          /\ o.hw.addr = dev.hw.addr
          /\ ~IsSetConfiguration(host.req) => Running(o, host) = Running(dev, host)
          /\ IsSetConfiguration(host.req) =>
               IF o.hw.tx = "valid" THEN Running(o, host) = host.req.value % 256
               ELSE Running(o, host) \in {Running(dev, host), 0}
          /\ SameConfig(dev, o) \/ Chosen(o) \/ Down(o)
      BY <1>1, <1>3, <2>1, <2>2, <2>6, SetupFollows DEF Live
    <3>2. /\ host.req \in Requests /\ host.phase = FirstPhase(host.req)
          /\ host.got = 0 /\ dev.hw.tx = "nack" /\ WellFormed(host.req)
      BY <2>2, <2>6 DEF Following, Receiving, Mannerly
    <3> HIDE DEF e, o
    <3>3. o.hw.enabled = dev.hw.enabled
      <4>1. o.hw.enabled /\ dev.hw.enabled
        BY <2>2, <3>1 DEF Following, Receiving
      <4>2. o.hw.enabled \in BOOLEAN /\ dev.hw.enabled \in BOOLEAN
        BY <1>1, <2>4, Fields DEF Registers
      <4> QED BY <4>1, <4>2
    <3>4. Handled(o)
      BY <2>1 DEF o, e
    <3>5. /\ dev'.hw.tx = o.hw.tx /\ dev'.hw.txData = o.hw.txData
          /\ AddressOf(dev', host) = AddressOf(o, host)
          /\ Running(dev', host) = Running(o, host)
      BY <1>1, <2>4, <3>1, <3>3, <3>4, HandledShows
    <3>6. AddressOf(o, host) = AddressOf(dev, host)
      BY <2>3, <3>1 DEF AddressOf, Resetting, Untouched
    <3> QED BY <1>1, <3>1, <3>2, <3>5, <3>6, RequestShows
  <2>7. CASE rx.kind = "out"
    <3>1. /\ Untouched(e, o) /\ SameConfig(e, o) /\ SameAddress(e, o)
          /\ \/ Offer(o, host) = Offer(dev, host)
             \/ /\ host.phase = "statusIn" /\ ~IsSetConfiguration(host.req)
                /\ Offer(dev, host) = Contract!Nothing
                /\ Offer(o, host) = Contract!Ack
      BY <1>1, <2>1, <2>2, <2>7, OutFollows
    <3>2. e.hw.enabled = dev.hw.enabled
      BY <1>1, PacketFetched DEF SameAddress
    <3> HIDE DEF e, o
    <3>3. Handled(o) /\ o.hw.enabled = dev.hw.enabled /\ SameConfig(dev, o)
      BY <2>1, <2>3, <3>1, <3>2 DEF o, e, SameConfig, SameAddress
    <3>4. /\ dev'.hw.tx = o.hw.tx /\ dev'.hw.txData = o.hw.txData
          /\ AddressOf(dev', host) = AddressOf(o, host)
          /\ Running(dev', host) = Running(o, host)
      BY <1>1, <2>4, <3>3, HandledShows
    <3>5. /\ AddressOf(o, host) = AddressOf(dev, host)
          /\ Running(o, host) = Running(dev, host)
      BY <2>3, <3>1 DEF AddressOf, Running, Resetting, Untouched, SameConfig, SameAddress
    <3>6. Offer(dev', host) = Offer(o, host)
      BY <3>4 DEF Offer
    <3>7. CASE Offer(o, host) = Offer(dev, host)
      BY <1>1, <3>4, <3>5, <3>6, <3>7, AddressShows
    <3>8. CASE Offer(o, host) # Offer(dev, host)
      BY <1>1, <3>1, <3>4, <3>5, <3>6, <3>8, WriteShows
    <3> QED BY <3>7, <3>8
  <2> QED BY <2>5, <2>6, <2>7
<1> QED BY <1>2, <1>3

LEMMA PacketSentRefines ==
  ASSUME IInv, Conversing, PacketSent
  PROVE  [Contract!Next]_(Contract!vars)
<1> DEFINE d == Meant(dev, Pending)
           o == HandleControllerInPacket(dev)
<1>1. /\ Sound(dev) /\ host \in Hosts /\ host' = host /\ Handled(o)
      /\ dev.hw.rxPacket = NoPacket /\ ~dev.hw.txComplete
      /\ Pending /\ Pending \in BOOLEAN
  BY Alive DEF PacketSent, Pending, Conversing, Awake
<1>2. Sound(o) /\ Untouched(dev, o)
  BY <1>1, HandleControllerInPacketSound, HandleControllerInPacketKeeps
<1>3. CASE ~Live(dev, host)
  <2>1. dev'.hw.status = dev.hw.status
    BY <1>1, <1>2, HandledFrame DEF Untouched
  <2>2. /\ host.phase \in {"idle", "gone"}
        /\ Resetting(dev, host) /\ Resetting(dev', host')
    BY <1>1, <1>3, <2>1 DEF Conversing, Restarting, Live, Resetting
  <2> QED BY <1>1, <2>2, UnseenShows, SameTransferItself
<1>4. CASE Live(dev, host)
  <2>1. /\ Sound(d) /\ d.hw.txComplete /\ [d EXCEPT !.hw.txComplete = FALSE] = dev
        /\ d.hw.tx = dev.hw.tx /\ d.hw.rxPacket = dev.hw.rxPacket
        /\ SameButEP0(dev, d)
    BY <1>1, MeantIsDevice
  <2>2. Following(d, host)
    BY <1>4 DEF Conversing
  <2> HIDE DEF d
  <2>3. /\ SameConfig(dev, o) /\ o.hw.enabled
        /\ o.hw.addr \in {d.hw.addr, host.addr}
        /\ IF host.phase = "dataIn" /\ d.hw.rxPacket.kind # "setup"
           THEN /\ host.req.length # 0 /\ host.req \in Requests /\ Sent(d, host)
                /\ o.hw.addr = d.hw.addr /\ Offered(o, host)
           ELSE Offer(o, host) = Offer(d, host)
    BY <1>1, <1>4, <2>1, <2>2, SentFollows DEF Live
  <2> HIDE DEF o
  <2>4. o.hw.enabled = dev.hw.enabled
    <3>1. dev.hw.enabled
      BY <2>1, <2>2 DEF Following, Receiving, SameButEP0, SameAddress
    <3>2. o.hw.enabled \in BOOLEAN /\ dev.hw.enabled \in BOOLEAN
      BY <1>1, <1>2, Fields DEF Registers
    <3> QED BY <2>3, <3>1, <3>2
  <2>5. /\ dev'.hw.tx = o.hw.tx /\ dev'.hw.txData = o.hw.txData
        /\ AddressOf(dev', host) = AddressOf(o, host)
        /\ Running(dev', host) = Running(o, host)
    BY <1>1, <1>2, <2>3, <2>4, HandledShows
  <2>6. d.hw.addr = dev.hw.addr /\ Offer(d, host) = Offer(dev, host)
    BY <2>1 DEF SameButEP0, SameAddress, Offer
  <2>7. /\ Running(o, host) = Running(dev, host)
        /\ AddressOf(o, host) \in {AddressOf(dev, host), host.addr}
        /\ o.hw.addr = dev.hw.addr => AddressOf(o, host) = AddressOf(dev, host)
    BY <1>2, <1>4, <2>3, <2>6
       DEF Running, AddressOf, Resetting, SameConfig, Live, Untouched
  <2>8. CASE host.phase = "dataIn" /\ d.hw.rxPacket.kind # "setup"
    <3>1. Offer(dev, host) = Contract!Nothing
      BY <2>1, <2>3, <2>8, NothingOffered DEF Sent
    <3> QED BY <1>1, <1>2, <2>3, <2>5, <2>6, <2>7, <2>8, <3>1, NextDataShows
  <2>9. CASE ~(host.phase = "dataIn" /\ d.hw.rxPacket.kind # "setup")
    <3>1. Offer(dev', host) = Offer(dev, host)
      BY <2>3, <2>5, <2>6, <2>9 DEF Offer
    <3> QED BY <1>1, <2>5, <2>7, <3>1, AddressShows
  <2> QED BY <2>8, <2>9
<1> QED BY <1>3, <1>4

LEMMA StepRefines ==
  ASSUME Mannerly, Patient, IInv, IInv', Conversing, [Next]_vars
  PROVE  [Contract!Next]_(Contract!vars)
<1>1. CASE Attach \/ DetachBus \/ DetachStack \/ HostReset \/ HostUnplugged
  BY <1>1, ApplicationRefines
<1>2. CASE \/ InterruptReset \/ InterruptEvents \/ InterruptDisconnect
           \/ NothingForEP0 \/ ProcessUserEndpoint
           \/ HostSuspend \/ HostResume \/ HostUserTraffic
  BY <1>2, BesideRefines
<1>3. CASE PacketReceived \/ PacketSent
  BY <1>3, PacketReceivedRefines, PacketSentRefines
<1>4. CASE \/ \E r \in Requests : HostSetup(r)
           \/ HostIn \/ HostStalled \/ HostOutData \/ HostOutStatus
  BY <1>4, HostRefines
<1>5. CASE UNCHANGED vars
  BY <1>5, SameTransferItself, ContractStutters DEF vars
<1> QED BY <1>1, <1>2, <1>3, <1>4, <1>5 DEF Next, Interrupt, Host

\* With an interrupt that keeps up (PromptIRQ), a host and drivers that keep to
\* the conventions (Mannerly, Patient) and no write cut off (RudeCuts): the
\* stack on this chip is a control pipe as completeSetupPacket() documents it
\* (src/device.cxx:260), although one flag tells of every event of EP0 and the
\* handler may look late (src/tm4c123gh6pm/core.cxx:448): the data of a
\* transfer are the bytes asked for, and the address and the configuration
\* change only as the host's requests say.
THEOREM ControlTransferImplemented ==
  ASSUME PromptIRQ, Mannerly, Patient, ~RudeCuts
  PROVE  Spec => ImplementsControlTransfer
<1>1. IInv /\ IInv' /\ Conversing /\ [Next]_vars => [Contract!Next]_(Contract!vars)
  BY StepRefines
<1> QED BY <1>1, RefinesInit, ConversationHolds, PTL
        DEF Spec, ImplementsControlTransfer, Contract!Spec

\* With an interrupt that keeps up (PromptIRQ), a host and drivers that keep to
\* the conventions (Mannerly, Patient) and no write cut off (RudeCuts): a
\* host's buffer is never overrun on this chip either: no transfer moves more
\* bytes than it was asked for, and each packet continues the last
\* (src/device.cxx:320).
THEOREM HostNeverOverrun ==
  ASSUME PromptIRQ, Mannerly, Patient, ~RudeCuts
  PROVE  Spec => []Contract!WithinRequest
<1> QED BY ControlTransferImplemented, PipeNeverOverruns, PTL

=============================================================================
