------------------------------- MODULE Tm4c123 -------------------------------
(***************************************************************************)
(* The TM4C123GH6PM driver core (src/tm4c123gh6pm/{core,device}.cxx) over  *)
(* UsbDevice, with UsbHost's host and application.                         *)
(*                                                                         *)
(* Every interrupt flag is read once, and cleared by being read, when the  *)
(* handler starts.  EP0 has one flag for both directions: the handler      *)
(* tells a received packet from a transmitted one by looking at RXRDY      *)
(* later.  The peripheral ends reads by itself (DATAEND): their status     *)
(* packet only raises EP0's flag.  Start-of-frame handlers are left out.   *)
(***************************************************************************)
EXTENDS UsbHost

CONSTANT RudeCuts  \* a reset, detach() or unplugging may come in a write's data

ASSUME Tm4cAssumption == RudeCuts \in BOOLEAN

VARIABLES
  flags,     \* rxIntStatus and txIntStatus: EP0's flag and the others'
  unmasked,  \* rxIntEnable and txIntEnable
  seen       \* rxStatus and txStatus, as the running handler has read them

vars == <<dev, pc, app, host, flags, unmasked, seen>>

Endpoints == {"ep0", "user"}

TypeOK ==
  /\ dev \in Devices
  /\ pc \in {"idle", "ep0", "user"}
  /\ app \in AppStates
  /\ host \in Hosts
  /\ flags \subseteq Endpoints /\ unmasked \subseteq Endpoints
  /\ seen \subseteq Endpoints

Init ==
  /\ dev = [PowerOn EXCEPT !.hw.tx = "nack", !.hw.rx = "valid"]
  /\ pc = "idle" /\ app = "detached" /\ host = Lost
  /\ flags = {} /\ unmasked = {} /\ seen = {}

-----------------------------------------------------------------------------
(* attach(), detach(), reset(), cycleBus(), wakeup(), suspend().           *)

Attach ==
  /\ app = "detached" /\ pc = "idle"
  /\ dev' = [dev EXCEPT !.hw.itrEnable = {"reset"}, !.hw.status = {},
                        !.hw.addr = 0, !.activeConfig = 0, !.hw.enabled = TRUE]
  /\ unmasked' = {} /\ flags' = {} /\ app' = "attached"
  /\ UNCHANGED <<pc, host, seen>>

MayCut == RudeCuts \/ dev.usbCtrlState # "dataRX"

DetachBus ==
  /\ app = "attached" /\ pc = "idle" /\ MayCut
  /\ dev' = [dev EXCEPT !.hw.enabled = FALSE]
  /\ app' = "detaching" /\ host' = Lost
  /\ UNCHANGED <<pc, flags, unmasked, seen>>

\* Mutant: the endpoints' interrupts stay enabled.
DetachStack_KeepsEndpoints ==
  /\ app = "detaching" /\ pc = "idle"
  /\ dev' = [DeinitHandlers(dev) EXCEPT !.hw.itrEnable = {},
                                        !.activeConfig = 0]
  /\ app' = "detached"
  /\ UNCHANGED <<pc, host, flags, unmasked, seen>>

DetachStack ==
  /\ app = "detaching" /\ pc = "idle"
  /\ dev' = [DeinitHandlers(dev) EXCEPT !.hw.itrEnable = {},
                                        !.activeConfig = 0]
  /\ unmasked' = {} /\ app' = "detached"
  /\ UNCHANGED <<pc, host, flags, seen>>

\* reset() with the "waiting" that handleIRQ() sets after it: EP0's registers
\* are the peripheral's business.
Reset(d) ==
  [ResetEPs(d, "all") EXCEPT
    !.usbState = "waiting", !.activeConfig = 0,
    !.hw = [d.hw EXCEPT !.addr = 0,
                        !.itrEnable = @ \cup {"disconnect", "sof"}]]

\* Mutant: no interrupt is enabled after the disconnection.
CycleBus_Masked(d) ==
  [d EXCEPT !.usbState = "detached", !.hw.enabled = TRUE, !.hw.itrEnable = {}]

CycleBus(d) ==
  [d EXCEPT !.usbState = "detached", !.hw.enabled = TRUE,
            !.hw.itrEnable = {"reset"}]

Wakeup(d) ==
  [d EXCEPT !.usbSuspended = FALSE,
            !.hw.itrEnable = (@ \ {"wakeup"}) \cup {"suspend"}]

Suspend(d) ==
  [d EXCEPT !.usbSuspended = TRUE,
            !.hw.itrEnable = (@ \ {"suspend"}) \cup {"wakeup"}]

-----------------------------------------------------------------------------
(* handleIRQ() and processEndpoints().                                     *)

Status == dev.hw.status \cap dev.hw.itrEnable

Raised == Status # {} \/ flags \cap unmasked # {}

Read == [dev EXCEPT !.hw.status = {}]

\* handleIRQ() as far as its "usbSuspended" test.
Entered ==
  LET powered == IF dev.usbState # "attached" THEN Read
                 ELSE [Read EXCEPT !.usbState = "powered",
                                   !.hw.itrEnable = @ \cup {"suspend"}]
  IN  IF "wakeup" \in Status THEN Wakeup(powered) ELSE powered

\* The device leaves the bus for a moment, and the host with it.
InterruptDisconnect ==
  /\ pc = "idle" /\ Raised /\ "disconnect" \in Status
  /\ IF dev.usbState = "detached" THEN dev' = Read /\ UNCHANGED host
     ELSE dev' = CycleBus(Read) /\ host' = Lost
  /\ flags' = {}
  /\ UNCHANGED <<pc, app, unmasked, seen>>

InterruptReset ==
  /\ pc = "idle" /\ Raised /\ ~Entered.usbSuspended
  /\ "disconnect" \notin Status /\ "reset" \in Status
  /\ dev' = Reset(Entered)
  /\ flags' = {} /\ unmasked' = {"ep0"}
  /\ UNCHANGED <<pc, app, host, seen>>

\* The endpoints are served from the flags read here.
InterruptEvents ==
  /\ pc = "idle" /\ Raised /\ "disconnect" \notin Status
  /\ "reset" \notin Status \/ Entered.usbSuspended
  /\ dev' = IF "suspend" \in Status /\ ~Entered.usbSuspended
            THEN Suspend(Entered) ELSE Entered
  /\ flags' = {}
  /\ LET serve == /\ ~Entered.usbSuspended
                  /\ dev'.usbState \notin {"detached", "attached", "powered"}
     IN  seen' = IF serve THEN flags \cap unmasked ELSE {}
  /\ pc' = IF seen' = {} THEN "idle" ELSE "ep0"
  /\ UNCHANGED <<app, host, unmasked>>

\* What the handlers of device.cxx leave: address() does not touch the
\* connection, resetEPs() no endpoint; a configuration unmasks its endpoints.
Handled(d) ==
  /\ dev' = [d EXCEPT !.hw.enabled = dev.hw.enabled,
                      !.hw.eps = IF @ = 0 THEN dev.hw.eps ELSE @]
  /\ unmasked' = IF d.hw.eps = 0 THEN unmasked ELSE Endpoints

PacketReceived ==
  /\ pc = "ep0" /\ "ep0" \in seen /\ dev.hw.rxPacket # NoPacket
  /\ \E ans \in ClassAnswers[dev.hw.rxPacket.data.dir] :
       Handled(HandleControlPacketByState(
                 [dev EXCEPT !.hw.rxPacket = NoPacket], dev.hw.rxPacket, ans))
  /\ pc' = "user"
  /\ UNCHANGED <<app, host, flags, seen>>

\* A packet sent, a stall sent, or the end of a read.
PacketSent ==
  /\ pc = "ep0" /\ "ep0" \in seen /\ dev.hw.rxPacket = NoPacket
  /\ Handled(HandleControllerInPacket(dev))
  /\ pc' = "user"
  /\ UNCHANGED <<app, host, flags, seen>>

NothingForEP0 ==
  /\ pc = "ep0" /\ "ep0" \notin seen /\ pc' = "user"
  /\ UNCHANGED <<dev, app, host, flags, unmasked, seen>>

\* The handler is taken from row activeConfig - 1 of the registry.
ProcessUserEndpoint ==
  /\ pc = "user" /\ pc' = "idle" /\ seen' = {}
  /\ UNCHANGED <<dev, app, host, flags, unmasked>>

Interrupt ==
  \/ InterruptDisconnect \/ InterruptReset \/ InterruptEvents
  \/ PacketReceived \/ PacketSent \/ NothingForEP0 \/ ProcessUserEndpoint

-----------------------------------------------------------------------------
(* The host and the bus (external).                                        *)

\* A SETUP packet flushes what EP0 had to send.  PromptIRQ: none arrives between
\* the reading of the flags and that of RXRDY; the interrupt itself may be late.
HostSetup(r) ==
  /\ dev.hw.rxPacket = NoPacket /\ HostAsks(r)
  /\ PromptIRQ => pc # "ep0"
  /\ dev' = [dev EXCEPT !.hw.tx = "nack", !.hw.rx = "nack",
               !.hw.rxPacket = [kind |-> "setup", data |-> r, count |-> 8]]
  /\ flags' = flags \cup {"ep0"}
  /\ UNCHANGED <<pc, app, unmasked, seen>>

HostIn ==
  /\ Reachable /\ dev.hw.tx = "valid" /\ HostTakes(dev.hw.txData.len)
  /\ dev' = [dev EXCEPT !.hw.tx = "nack"]
  /\ flags' = flags \cup {"ep0"}
  /\ UNCHANGED <<pc, app, unmasked, seen>>

\* A stall answers whatever comes next, also the data of a write, once.
HostStalled ==
  /\ Reachable /\ dev.hw.tx = "stall"
  /\ host.phase \in {"dataIn", "dataOut", "statusIn"} /\ HostRefused
  /\ dev' = [dev EXCEPT !.hw.tx = "nack"]
  /\ flags' = flags \cup {"ep0"}
  /\ UNCHANGED <<pc, app, unmasked, seen>>

CanReceive ==
  /\ Reachable /\ dev.hw.rx = "valid" /\ dev.hw.tx # "stall"
  /\ dev.hw.rxPacket = NoPacket

HostOutData ==
  LET count == Least(host.req.length - host.got, epBufferSize)
  IN  /\ CanReceive /\ host.phase = "dataOut" /\ HostSends(count)
      /\ \E data \in Payloads :
           dev' = [dev EXCEPT !.hw.rx = "nack",
             !.hw.rxPacket = [kind |-> "out", data |-> data, count |-> count]]
      /\ flags' = flags \cup {"ep0"}
      /\ UNCHANGED <<pc, app, unmasked, seen>>

HostOutStatus ==
  /\ CanReceive
  /\ \/ host.phase = "statusOut"
     \/ host.phase = "dataIn" /\ host.req \in Abandonable
  /\ dev' = [dev EXCEPT !.hw.tx = "nack"]
  /\ host' = Acknowledged /\ flags' = flags \cup {"ep0"}
  /\ UNCHANGED <<pc, app, unmasked, seen>>

\* A bus reset clears the address and every endpoint, and unmasks them all.
HostReset ==
  /\ app = "attached" /\ MayCut /\ HostFound
  /\ dev' = [dev EXCEPT !.hw.addr = 0, !.hw.tx = "nack", !.hw.rx = "valid",
               !.hw.rxPacket = NoPacket, !.hw.eps = 0,
               !.hw.status = @ \cup {"reset"}]
  /\ unmasked' = Endpoints
  /\ UNCHANGED <<pc, app, flags, seen>>

HostUnplugged ==
  /\ app = "attached" /\ host.phase # "gone" /\ MayCut /\ host' = Lost
  /\ dev' = [dev EXCEPT !.hw.status = @ \cup {"disconnect"}]
  /\ UNCHANGED <<pc, app, flags, unmasked, seen>>

HostSuspend ==
  /\ host.phase = "idle" /\ ~host.suspended
  /\ host' = [host EXCEPT !.suspended = TRUE]
  /\ dev' = [dev EXCEPT !.hw.status = @ \cup {"suspend"}]
  /\ UNCHANGED <<pc, app, flags, unmasked, seen>>

HostResume ==
  /\ host.suspended /\ host' = [host EXCEPT !.suspended = FALSE]
  /\ dev' = [dev EXCEPT !.hw.status = @ \cup {"wakeup"}]
  /\ UNCHANGED <<pc, app, flags, unmasked, seen>>

HostUserTraffic ==
  /\ Reachable /\ dev.hw.eps # 0 /\ flags' = flags \cup {"user"}
  /\ UNCHANGED <<dev, pc, app, host, unmasked, seen>>

Host ==
  \/ \E r \in Requests : HostSetup(r)
  \/ HostIn \/ HostStalled \/ HostOutData \/ HostOutStatus \/ HostUnplugged
  \/ HostReset \/ HostSuspend \/ HostResume \/ HostUserTraffic

-----------------------------------------------------------------------------

Next == Attach \/ DetachBus \/ DetachStack \/ Interrupt \/ Host

Spec == Init /\ [][Next]_vars

\* Nothing is left for the interrupt handler to do.
Settled == pc = "idle" /\ ~Raised

\* The interrupt is served whenever it is raised and the handler returns; the
\* host retries its transactions until they are answered or stalled, and resets
\* the port of a device it has lost.
Fairness ==
  /\ ([]<>Settled) \/ ([]<><<Interrupt>>_vars)
  /\ WF_vars(HostIn) /\ WF_vars(HostStalled)
  /\ WF_vars(HostOutData) /\ WF_vars(HostOutStatus)
  /\ WF_vars(host.phase = "gone" /\ HostReset)

FairSpec == Spec /\ Fairness

-----------------------------------------------------------------------------
(* What the driver promises: UsbHost's properties, and these.              *)

\* Once every event has been served, host and device agree on the address, also
\* when a late interrupt finds one flag for two events.
AddressAgreement == Settled => AddressesAgree

\* Once every event has been served, a configuration the host has seen
\* acknowledged is active, enabled and initialised.
ConfigAgreement == Settled => ConfigsAgree

\* A transfer the host is engaged in is never left with EP0 unable to take its
\* next packet once every event has been served, although a flag is lost with
\* every early return of the handler (src/tm4c123gh6pm/core.cxx:448).
NoDeadTransfer == Settled => EP0Open

\* "Nothing to do for the unconfigured configuration (activeConfig == 0)"
\* (src/core.cxx:56): a user endpoint is served only while a configuration is
\* active whose handlers have been initialised; its row is activeConfig - 1
\* (src/tm4c123gh6pm/core.cxx:436).
DispatchedToHandlers ==
  pc = "user" /\ "user" \in seen =>
    dev.activeConfig # 0 /\ dev.activeConfig \in dev.handlersUp

=============================================================================
