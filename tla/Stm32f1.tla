------------------------------- MODULE Stm32f1 -------------------------------
(***************************************************************************)
(* The STM32F1 driver core (src/stm32f1/core.cxx) running UsbDevice's      *)
(* control machinery inside its interrupt, the application that attaches   *)
(* and detaches it, and a USB host on the other side of the bus.           *)
(*                                                                         *)
(* handleIRQ() is cut where the peripheral can change under it: reading    *)
(* intStatus is one step, going to sleep is one, each half of EP0 is one,  *)
(* the user endpoints (one stands for all) are the last.  Between two      *)
(* steps, and between interrupts, the bus moves on.                        *)
(***************************************************************************)
EXTENDS UsbHost

vars == <<dev, pc, app, host>>

TypeOK ==
  /\ dev \in Devices
  /\ pc \in {"idle", "suspend", "suspendRx", "ep0rx", "ep0tx", "ep1"}
  /\ app \in AppStates
  /\ host \in Hosts

\* init() leaves EP0 disabled.
Init == dev = PowerOn /\ pc = "idle" /\ app = "detached" /\ host = Lost

-----------------------------------------------------------------------------
(* attach(), detach(), wakeup(), suspend(), reset().                       *)

Attach ==
  /\ app = "detached" /\ pc = "idle"
  /\ dev' = Address([dev EXCEPT !.hw.itrEnable = {"reset"},
                                   !.hw.status = {}, !.activeConfig = 0], 0)
  /\ app' = "attached"
  /\ UNCHANGED <<pc, host>>

\* detach() silences the bus first and the interrupts after it; an interrupt
\* can run in between.
DetachBus ==
  /\ app = "attached" /\ pc = "idle"
  /\ dev' = [dev EXCEPT !.hw.addr = 0, !.hw.enabled = FALSE]
  /\ app' = "detaching" /\ host' = Lost
  /\ UNCHANGED pc

DetachStack ==
  /\ app = "detaching" /\ pc = "idle"
  /\ dev' = [DeinitHandlers(dev) EXCEPT !.hw.itrEnable = {},
                                        !.activeConfig = 0]
  /\ app' = "detached"
  /\ UNCHANGED <<pc, host>>

Wakeup(d) ==
  [d EXCEPT !.usbSuspended = FALSE, !.hw.forceSuspend = FALSE,
            !.hw.itrEnable = (@ \ {"wakeup"}) \cup {"suspend"}]

\* Mutant: the wakeup interrupt is not enabled in place of the suspend one.
Suspend_NoWakeup(d) ==
  [d EXCEPT !.usbSuspended = TRUE, !.hw.forceSuspend = TRUE,
            !.hw.itrEnable = @ \ {"suspend", "wakeup"}]

Suspend(d) ==
  [d EXCEPT !.usbSuspended = TRUE, !.hw.forceSuspend = TRUE,
            !.hw.itrEnable = (@ \ {"suspend"}) \cup {"wakeup"}]

\* Mutant: the address register is cleared without its enable bit.
Reset_Disabled(d) ==
  [ResetEPs(d, "all") EXCEPT
    !.usbState = "waiting", !.activeConfig = 0,
    !.hw.tx = "nack", !.hw.rx = "valid", !.hw.addr = 0, !.hw.enabled = FALSE,
    !.hw.itrEnable = @ \cup {"sof", "ctr", "wakeup"}]

\* reset() with the "waiting" that handleIRQ() sets after it.
Reset(d) ==
  [ResetEPs(d, "all") EXCEPT
    !.usbState = "waiting", !.activeConfig = 0,
    !.hw.tx = "nack", !.hw.rx = "valid", !.hw.addr = 0, !.hw.enabled = TRUE,
    !.hw.itrEnable = @ \cup {"sof", "ctr", "wakeup"}]

-----------------------------------------------------------------------------
(* handleIRQ() and processEndpoints().                                     *)

\* The correct-transfer interrupt is the or of the endpoints' own flags.
TransferPending(d) ==
  d.hw.rxPacket # NoPacket \/ d.hw.txComplete \/ d.hw.epComplete

Raised ==
  \/ dev.hw.status \cap dev.hw.itrEnable # {}
  \/ TransferPending(dev) /\ "ctr" \in dev.hw.itrEnable

\* handleIRQ() as far as its "usbSuspended" test: it acts on every flag it
\* reads, enabled or not.
Entered ==
  LET read    == [dev EXCEPT !.hw.status = {}]
      powered == IF dev.usbState # "attached" THEN read
                 ELSE [read EXCEPT !.usbState = "powered",
                                   !.hw.itrEnable = @ \cup {"suspend"}]
  IN  IF "wakeup" \in dev.hw.status THEN Wakeup(powered) ELSE powered

InterruptSuspended ==
  /\ pc = "idle" /\ Raised /\ Entered.usbSuspended
  /\ dev' = Entered
  /\ UNCHANGED <<pc, app, host>>

InterruptReset ==
  /\ pc = "idle" /\ Raised /\ ~Entered.usbSuspended
  /\ "reset" \in dev.hw.status
  /\ dev' = Reset(Entered)
  /\ UNCHANGED <<pc, app, host>>

\* The endpoints are served if the status that was read says so.
InterruptEvents ==
  /\ pc = "idle" /\ Raised /\ ~Entered.usbSuspended
  /\ "reset" \notin dev.hw.status
  /\ dev' = Entered
  /\ LET serve == /\ dev'.usbState \notin {"detached", "attached", "powered"}
                  /\ TransferPending(dev)
     IN  pc' = CASE "suspend" \in dev.hw.status /\ serve  -> "suspendRx"
                 [] "suspend" \in dev.hw.status /\ ~serve -> "suspend"
                 [] "suspend" \notin dev.hw.status
                      -> IF serve THEN "ep0rx" ELSE "idle"
  /\ UNCHANGED <<app, host>>

\* suspend(), of a bus that may have come to life since.  A bus reset that has
\* begun wakes the peripheral as soon as it sleeps.
InterruptSuspend ==
  /\ pc \in {"suspend", "suspendRx"}
  /\ dev' = [Suspend(dev) EXCEPT !.hw.status =
               @ \cup (IF "reset" \in @ THEN {"wakeup"} ELSE {})]
  /\ pc' = IF pc = "suspendRx" THEN "ep0rx" ELSE "idle"
  /\ UNCHANGED <<app, host>>

EP0Enabled == dev.hw.rx # "disabled" \/ dev.hw.tx # "disabled"

ProcessEP0Out ==
  /\ pc = "ep0rx" /\ EP0Enabled /\ dev.hw.rxPacket # NoPacket
  /\ \E ans \in ClassAnswers[dev.hw.rxPacket.data.dir] :
       dev' = HandleControlPacket([dev EXCEPT !.hw.rxPacket = NoPacket],
                                  dev.hw.rxPacket, ans)
  /\ pc' = "ep0tx"
  /\ UNCHANGED <<app, host>>

\* EP0's two buffers are the same memory: a packet that waits to be read is
\* overwritten by the next one of an answer.
StillReads(sent) ==
  IF /\ dev.usbCtrlState = "dataTX" /\ sent.hw.txData.len # 0
     /\ sent.hw.rxPacket.count # 0
  THEN Payloads ELSE {sent.hw.rxPacket.data}

ProcessEP0In ==
  /\ pc = "ep0tx" /\ dev.hw.txComplete
  /\ LET sent == HandleControllerInPacket([dev EXCEPT !.hw.txComplete = FALSE])
     IN  \E data \in StillReads(sent) :
           dev' = [sent EXCEPT !.hw.rxPacket.data = data]
  /\ pc' = "ep1"
  /\ UNCHANGED <<app, host>>

NothingForEP0 ==
  /\ \/ pc = "ep0rx" /\ ~EP0Enabled /\ pc' = "ep1"
     \/ pc = "ep0rx" /\ EP0Enabled /\ dev.hw.rxPacket = NoPacket
        /\ pc' = "ep0tx"
     \/ pc = "ep0tx" /\ ~dev.hw.txComplete /\ pc' = "ep1"
  /\ UNCHANGED <<dev, app, host>>

\* The handler is taken from row activeConfig - 1 of the registry.
ProcessUserEndpoint ==
  /\ pc = "ep1" /\ pc' = "idle"
  /\ dev' = IF dev.hw.eps = 0 THEN dev ELSE [dev EXCEPT !.hw.epComplete = FALSE]
  /\ UNCHANGED <<app, host>>

Interrupt ==
  \/ InterruptSuspended \/ InterruptReset \/ InterruptEvents
  \/ InterruptSuspend   \/ ProcessEP0Out  \/ ProcessEP0In
  \/ NothingForEP0      \/ ProcessUserEndpoint

-----------------------------------------------------------------------------
(* The host and the bus (external).                                        *)

\* PromptIRQ: the last event has been served.
HostSetup(r) ==
  /\ dev.hw.rxPacket = NoPacket /\ HostAsks(r)
  /\ PromptIRQ => pc = "idle" /\ ~Raised
  /\ dev' = [dev EXCEPT !.hw.tx = "nack", !.hw.rx = "nack",
               !.hw.rxPacket = [kind |-> "setup", data |-> r, count |-> 8]]
  /\ UNCHANGED <<pc, app>>

HostIn ==
  /\ Reachable /\ dev.hw.tx = "valid" /\ HostTakes(dev.hw.txData.len)
  /\ dev' = [dev EXCEPT !.hw.tx = "nack", !.hw.txComplete = TRUE]
  /\ UNCHANGED <<pc, app>>

\* The host's IN is stalled.
HostStalled ==
  /\ Reachable /\ dev.hw.tx = "stall" /\ host.phase \in {"dataIn", "statusIn"}
  /\ HostRefused
  /\ UNCHANGED <<dev, pc, app>>

CanReceive == Reachable /\ dev.hw.rx = "valid" /\ dev.hw.rxPacket = NoPacket

HostOutData ==
  LET count == Least(host.req.length - host.got, epBufferSize)
  IN  /\ CanReceive /\ host.phase = "dataOut" /\ HostSends(count)
      /\ \E data \in Payloads :
           dev' = [dev EXCEPT !.hw.rx = "nack",
             !.hw.rxPacket = [kind |-> "out", data |-> data, count |-> count]]
      /\ UNCHANGED <<pc, app>>

\* The status stage of a read, early when the host has seen enough.
HostOutStatus ==
  /\ CanReceive
  /\ \/ host.phase = "statusOut"
     \/ host.phase = "dataIn" /\ host.req \in Abandonable
  /\ dev' = [dev EXCEPT !.hw.rx = "nack",
       !.hw.rxPacket = [kind |-> "out", data |-> ZeroPacket, count |-> 0]]
  /\ host' = Acknowledged
  /\ UNCHANGED <<pc, app>>

\* A bus reset clears the peripheral's address and endpoints by itself.
HostReset ==
  /\ app = "attached" /\ HostFound
  /\ dev' = [dev EXCEPT
       !.hw.addr = 0, !.hw.enabled = FALSE, !.hw.tx = "disabled",
       !.hw.rx = "disabled", !.hw.eps = 0,
       !.hw.status = @ \cup {"reset"} \cup
                     (IF dev.hw.forceSuspend THEN {"wakeup"} ELSE {})]
  /\ UNCHANGED <<pc, app>>

HostSuspend ==
  /\ host.phase = "idle" /\ ~host.suspended
  /\ host' = [host EXCEPT !.suspended = TRUE]
  /\ dev' = [dev EXCEPT !.hw.status = @ \cup {"suspend"}]
  /\ UNCHANGED <<pc, app>>

HostResume ==
  /\ host.suspended /\ host' = [host EXCEPT !.suspended = FALSE]
  /\ UNCHANGED <<dev, pc, app>>

\* The peripheral, in low power, notices that the bus is alive.
BusWakeup ==
  /\ dev.hw.forceSuspend /\ ~host.suspended /\ host.phase # "gone"
  /\ "wakeup" \notin dev.hw.status
  /\ dev' = [dev EXCEPT !.hw.status = @ \cup {"wakeup"}]
  /\ UNCHANGED <<pc, app, host>>

\* A packet to or from a user endpoint.
HostUserTraffic ==
  /\ Reachable /\ dev.hw.eps # 0 /\ ~dev.hw.epComplete
  /\ dev' = [dev EXCEPT !.hw.epComplete = TRUE]
  /\ UNCHANGED <<pc, app, host>>

Host ==
  \/ \E r \in Requests : HostSetup(r)
  \/ HostIn \/ HostStalled \/ HostOutData \/ HostOutStatus
  \/ HostReset \/ HostSuspend \/ HostResume \/ BusWakeup \/ HostUserTraffic

-----------------------------------------------------------------------------

Next == Attach \/ DetachBus \/ DetachStack \/ Interrupt \/ Host

Spec == Init /\ [][Next]_vars

-----------------------------------------------------------------------------
(* What the driver promises: UsbHost's properties, where nothing is left   *)
(* for the interrupt handler to do.                                        *)

Settled == pc = "idle" /\ ~Raised

\* Once every event has been served, host and device agree on the address:
\* neither lost callbacks nor stale ones leave the device deaf.
AddressAgreement == Settled => AddressesAgree

\* Once every event has been served, a host that has seen its
\* SET_CONFIGURATION acknowledged has that configuration active, with its
\* endpoints enabled and its handlers initialised.
ConfigAgreement == Settled => ConfigsAgree

\* A transfer the host is engaged in is never left with EP0 unable to take its
\* next packet once every event has been served.
NoDeadTransfer == Settled => EP0Open

-----------------------------------------------------------------------------
(* Progress.                                                               *)

\* ENABLED <<Interrupt>>_vars, from the guards (TLC takes minutes to work it out
\* from the actions): a suspended device that reads no flag changes nothing.
CanServe ==
  pc # "idle" \/ (Raised /\ (dev.hw.status # {} \/ ~dev.usbSuspended))

\* The interrupt is served whenever it is raised and the handler returns (weak
\* fairness of Interrupt); the host retries its transactions until they are
\* answered or stalled; the peripheral reports a live bus; a host that finds
\* no device resets the port.
Fairness ==
  /\ ([]<>~CanServe) \/ ([]<><<Interrupt>>_vars)
  /\ WF_vars(HostIn) /\ WF_vars(HostStalled)
  /\ WF_vars(HostOutData) /\ WF_vars(HostOutStatus)
  /\ WF_vars(BusWakeup)
  /\ WF_vars(host.phase = "gone" /\ HostReset)

FairSpec == Spec /\ Fairness

\* A suspended device does not sleep through a bus that is alive
\* (src/stm32f1/core.cxx:181).
WakeupServed ==
  dev.usbSuspended /\ ~host.suspended ~>
    ~dev.usbSuspended \/ host.suspended \/ app # "attached"

=============================================================================
