----------------------------- MODULE Atxmega256 -----------------------------
(***************************************************************************)
(* The ATxmega256A3U driver core (src/atxmega256a3u/{core,device}.cxx)     *)
(* over UsbDevice, with UsbHost's host and application.                    *)
(*                                                                         *)
(* Each half of endpoint 0 has its own completion flag beside the          *)
(* peripheral's interrupt flags (INTFLAGSB: "setup" and "io"), the address *)
(* register and the attach bit are apart, a bus reset leaves every         *)
(* register alone, and only EP0 is served.  A transmitted packet is        *)
(* acknowledged after it has been handled, in a step of its own.           *)
(***************************************************************************)
EXTENDS UsbHost

CONSTANTS
  RudeCuts,  \* a reset or detach() may come in the data of a write, or with
             \* a packet of the transfer unread
  LateAck    \* a packet may be taken before the last one is acknowledged

ASSUME AtxmegaAssumption == RudeCuts \in BOOLEAN /\ LateAck \in BOOLEAN

VARIABLE flags  \* INTFLAGSB

vars == <<dev, pc, app, host, flags>>

TypeOK ==
  /\ dev \in Devices
  /\ pc \in {"idle", "in", "ack", "out"}
  /\ app \in AppStates
  /\ host \in Hosts
  /\ flags \subseteq {"setup", "io"}

\* init() sets EP0 up as the control endpoint.
Init ==
  /\ dev = [PowerOn EXCEPT !.hw.tx = "nack", !.hw.rx = "nack"]
  /\ pc = "idle" /\ app = "detached" /\ host = Lost /\ flags = {}

BusEvents == {"reset", "suspend", "wakeup"}

-----------------------------------------------------------------------------
(* attach(), detach(), reset(), wakeup(), suspend().                       *)

Attach ==
  /\ app = "detached" /\ pc = "idle"
  /\ dev' = [dev EXCEPT !.hw.itrEnable = BusEvents, !.hw.addr = 0,
                        !.activeConfig = 0, !.hw.enabled = TRUE]
  /\ app' = "attached"
  /\ UNCHANGED <<pc, host, flags>>

\* The application or the bus may end what the device is doing.
MayCut ==
  \/ RudeCuts
  \/ /\ host.phase # "dataOut" /\ dev.usbCtrlState # "dataRX"
     /\ dev.hw.rxPacket = NoPacket

DetachBus ==
  /\ app = "attached" /\ pc = "idle" /\ MayCut
  /\ dev' = [dev EXCEPT !.hw.enabled = FALSE]
  /\ app' = "detaching" /\ host' = Lost
  /\ UNCHANGED <<pc, flags>>

DetachStack ==
  /\ app = "detaching" /\ pc = "idle"
  /\ dev' = [DeinitHandlers(dev) EXCEPT !.hw.itrEnable = {},
                                        !.activeConfig = 0]
  /\ app' = "detached"
  /\ UNCHANGED <<pc, host, flags>>

\* Mutant: a bus reset attaches the device.
Reset_Attaches(d) ==
  [ResetEPs(d, "all") EXCEPT
    !.usbState = "waiting", !.hw.tx = "nack", !.hw.rx = "valid",
    !.hw.rxPacket = d.hw.rxPacket, !.hw.addr = 0, !.hw.enabled = TRUE,
    !.hw.itrEnable = @ \cup BusEvents \cup {"ctr"}, !.hw.status = @ \ {"reset"}]

\* Mutant: the receive half is left as the peripheral has it.
Reset_NotListening(d) ==
  [ResetEPs(d, "all") EXCEPT
    !.usbState = "waiting", !.hw.tx = "nack", !.hw.rx = d.hw.rx,
    !.hw.rxPacket = d.hw.rxPacket, !.hw.addr = 0,
    !.hw.itrEnable = @ \cup BusEvents \cup {"ctr"}, !.hw.status = @ \ {"reset"}]

\* reset() with the "waiting" that handleIRQ() sets after it.  A received
\* packet is kept, and so is activeConfig.
Reset(d) ==
  [ResetEPs(d, "all") EXCEPT
    !.usbState = "waiting", !.hw.tx = "nack", !.hw.rx = "valid",
    !.hw.rxPacket = d.hw.rxPacket, !.hw.addr = 0,
    !.hw.itrEnable = @ \cup BusEvents \cup {"ctr"}, !.hw.status = @ \ {"reset"}]

Wakeup(d)  == [d EXCEPT !.usbSuspended = FALSE, !.hw.status = @ \ {"wakeup"}]
Suspend(d) == [d EXCEPT !.usbSuspended = TRUE, !.hw.status = @ \ {"suspend"}]

-----------------------------------------------------------------------------
(* handleIRQ() and handlePacket().                                         *)

Raised ==
  \/ dev.hw.status \cap dev.hw.itrEnable # {}
  \/ flags # {} /\ "ctr" \in dev.hw.itrEnable

\* handleIRQ() as far as its test for a reset.
Entered == IF "wakeup" \in dev.hw.status THEN Wakeup(dev) ELSE dev

InterruptReset ==
  /\ pc = "idle" /\ Raised /\ "reset" \in dev.hw.status
  /\ dev' = Reset(Entered)
  /\ UNCHANGED <<pc, app, host, flags>>

InterruptEvents ==
  /\ pc = "idle" /\ Raised /\ "reset" \notin dev.hw.status
  /\ dev' = IF "suspend" \in dev.hw.status THEN Suspend(Entered) ELSE Entered
  /\ IF dev'.usbState \in {"detached", "attached", "powered"}
     THEN flags' = {} /\ pc' = "idle"
     ELSE flags' = flags \ {"io"} /\ pc' = "in"
  /\ UNCHANGED <<app, host>>

\* What the handlers of device.cxx leave: address() does not touch the attach
\* bit, and only a SETUP packet or a reset lifts a stall.
Handled(d) ==
  [d EXCEPT !.hw.enabled = dev.hw.enabled,
            !.hw.tx = IF dev.hw.tx = "stall" THEN "stall" ELSE @]

PacketSent ==
  /\ pc = "in" /\ dev.hw.txComplete /\ pc' = "ack"
  /\ dev' = Handled(HandleControllerInPacket(dev))
  /\ UNCHANGED <<app, host, flags>>

AcknowledgeSent ==
  /\ pc = "ack" /\ pc' = "out"
  /\ dev' = [dev EXCEPT !.hw.txComplete = FALSE]
  /\ UNCHANGED <<app, host, flags>>

PacketReceived ==
  /\ pc = "out" /\ dev.hw.rxPacket # NoPacket /\ pc' = "idle"
  /\ \E ans \in ClassAnswers[dev.hw.rxPacket.data.dir] :
       dev' = Handled(HandleControlPacketByState(
                        [dev EXCEPT !.hw.rxPacket = NoPacket],
                        dev.hw.rxPacket, ans))
  /\ flags' = IF dev.hw.rxPacket.kind = "setup" THEN flags \ {"setup"} ELSE flags
  /\ UNCHANGED <<app, host>>

NothingForEP0 ==
  /\ \/ pc = "in" /\ ~dev.hw.txComplete /\ pc' = "out"
     \/ pc = "out" /\ dev.hw.rxPacket = NoPacket /\ pc' = "idle"
  /\ UNCHANGED <<dev, app, host, flags>>

Interrupt ==
  \/ InterruptReset \/ InterruptEvents \/ PacketSent \/ AcknowledgeSent
  \/ PacketReceived \/ NothingForEP0

-----------------------------------------------------------------------------
(* The host and the bus (external).                                        *)

\* A SETUP packet lifts a stall and takes both halves of EP0 from the host.
\* PromptIRQ: a handler that has looked at the transmit half is done before the
\* next SETUP; the interrupt itself may be as late as it likes.
HostSetup(r) ==
  /\ dev.hw.rxPacket = NoPacket /\ HostAsks(r)
  /\ PromptIRQ => pc \notin {"ack", "out"}
  /\ dev' = [dev EXCEPT !.hw.tx = "nack", !.hw.rx = "nack",
               !.hw.rxPacket = [kind |-> "setup", data |-> r, count |-> 8]]
  /\ flags' = flags \cup {"setup"}
  /\ UNCHANGED <<pc, app>>

HostIn ==
  /\ Reachable /\ dev.hw.tx = "valid" /\ HostTakes(dev.hw.txData.len)
  /\ pc = "ack" => LateAck
  /\ dev' = [dev EXCEPT !.hw.tx = "nack", !.hw.txComplete = TRUE]
  /\ flags' = flags \cup {"io"}
  /\ UNCHANGED <<pc, app>>

HostStalled ==
  /\ Reachable /\ dev.hw.tx = "stall" /\ host.phase \in {"dataIn", "statusIn"}
  /\ HostRefused
  /\ UNCHANGED <<dev, pc, app, flags>>

CanReceive == Reachable /\ dev.hw.rx = "valid" /\ dev.hw.rxPacket = NoPacket

HostOutData ==
  LET count == Least(host.req.length - host.got, epBufferSize)
  IN  /\ CanReceive /\ host.phase = "dataOut" /\ HostSends(count)
      /\ \E data \in Payloads :
           dev' = [dev EXCEPT !.hw.rx = "nack",
             !.hw.rxPacket = [kind |-> "out", data |-> data, count |-> count]]
      /\ flags' = flags \cup {"io"}
      /\ UNCHANGED <<pc, app>>

HostOutStatus ==
  /\ CanReceive
  /\ \/ host.phase = "statusOut"
     \/ host.phase = "dataIn" /\ host.req \in Abandonable
  /\ dev' = [dev EXCEPT !.hw.rx = "nack",
       !.hw.rxPacket = [kind |-> "out", data |-> ZeroPacket, count |-> 0]]
  /\ host' = Acknowledged /\ flags' = flags \cup {"io"}
  /\ UNCHANGED <<pc, app>>

HostReset ==
  /\ app = "attached" /\ MayCut /\ HostFound
  /\ dev' = [dev EXCEPT !.hw.status = @ \cup {"reset"}]
  /\ UNCHANGED <<pc, app, flags>>

HostSuspend ==
  /\ host.phase = "idle" /\ ~host.suspended
  /\ host' = [host EXCEPT !.suspended = TRUE]
  /\ dev' = [dev EXCEPT !.hw.status = @ \cup {"suspend"}]
  /\ UNCHANGED <<pc, app, flags>>

HostResume ==
  /\ host.suspended /\ host' = [host EXCEPT !.suspended = FALSE]
  /\ dev' = [dev EXCEPT !.hw.status = @ \cup {"wakeup"}]
  /\ UNCHANGED <<pc, app, flags>>

\* A packet to or from a user endpoint; nothing ever takes it.
HostUserTraffic ==
  /\ Reachable /\ dev.hw.eps # 0 /\ ~dev.hw.epComplete
  /\ dev' = [dev EXCEPT !.hw.epComplete = TRUE]
  /\ flags' = flags \cup {"io"}
  /\ UNCHANGED <<pc, app, host>>

Host ==
  \/ \E r \in Requests : HostSetup(r)
  \/ HostIn \/ HostStalled \/ HostOutData \/ HostOutStatus
  \/ HostReset \/ HostSuspend \/ HostResume \/ HostUserTraffic

-----------------------------------------------------------------------------

Next == Attach \/ DetachBus \/ DetachStack \/ Interrupt \/ Host

Spec == Init /\ [][Next]_vars

-----------------------------------------------------------------------------
(* What the driver promises: UsbHost's properties, where nothing is left   *)
(* for the interrupt handler to do.                                        *)

Settled == pc = "idle" /\ ~Raised

\* Once every event has been served, host and device agree on the address,
\* also when the next request overtakes the service of the last one: transmit is
\* served before receive (src/atxmega256a3u/core.cxx:377).
AddressAgreement == Settled => AddressesAgree

\* Once every event has been served, a configuration the host has seen
\* acknowledged is active, enabled and initialised.
ConfigAgreement == Settled => ConfigsAgree

\* A transfer the host is engaged in is never left with EP0 unable to take its
\* next packet once every event has been served: the interrupt flags and the
\* endpoint's own are cleared apart, and none may be lost
\* (src/atxmega256a3u/core.cxx:373).
NoDeadTransfer == Settled => EP0Open

=============================================================================
