--------------------------------- MODULE Dfu ---------------------------------
(***************************************************************************)
(* The DFU driver (src/drivers/dfu.cxx): its request handler, called for   *)
(* the SETUP packets of class requests, the setup callback the control     *)
(* machinery runs for it (src/device.cxx:328-378), and tick(), called on   *)
(* every start of frame, which erases and writes Flash behind the host's   *)
(* back.  The Flash itself, and a host loading an image, are external.     *)
(*                                                                         *)
(* A control transfer is cut at its SETUP, its data packets and the end of *)
(* its status stage; ticks fall between any two.  Memory is counted in     *)
(* units of the image: a unit is as many bytes as one wants.               *)
(***************************************************************************)
EXTENDS Integers

CONSTANTS
  Zones,            \* registerHandlers()' flashZones: [start, end] records
  flashPageSize,    \* USB_DFU_FLASH_PAGE_SIZE, the size of "buffer"
  flashBufferSize,  \* USB_DFU_FLASH_BUFFER_SIZE
  flashEraseSize,   \* USB_DFU_FLASH_ERASE_SIZE
  epBufferSize,     \* USB_BUFFER_SIZE
  MaxLength,        \* the longest block or read the host asks for
  FlashSize,        \* the addresses modelled
  Manners           \* the ways of the hosts there are: polite, abandons, zones,
                    \* image (below)

Addresses == 0..FlashSize - 1
ZoneNumbers == DOMAIN Zones

\* Zones are whole erase sectors and do not overlap, as erase() needs; no sum
\* of addresses wraps around.
ASSUME FlashLayout ==
  /\ flashPageSize \in Nat \ {0} /\ flashBufferSize \in Nat \ {0}
  /\ flashEraseSize \in Nat \ {0} /\ epBufferSize \in Nat \ {0}
  /\ MaxLength \in Nat /\ FlashSize \in Nat
  /\ ZoneNumbers \subseteq Nat
  /\ \A z \in ZoneNumbers :
       /\ Zones[z] \in [start : Nat, end : Nat]
       /\ Zones[z].start <= Zones[z].end /\ Zones[z].end <= FlashSize
       /\ \E n \in 0..FlashSize :
            Zones[z].end - Zones[z].start = n * flashEraseSize
  /\ Manners \subseteq [polite : BOOLEAN, abandons : BOOLEAN,
                        zones : SUBSET ZoneNumbers, image : Nat]

Least(a, b) == IF a < b THEN a ELSE b

\* A unit of Flash or of the buffer: its place in the host's image, or one of:
Erased == -1
Other  == -2   \* what it held before
Cells  == {Erased, Other} \cup Nat

VARIABLES
  config,         \* config.state; config.status is never anything but ok
  flashState,     \* what tick() is to do, and where it is
  buffer,         \* the one buffer blocks are received, written and read in
  sofHandler,     \* tick() is registered
  setupCallback,  \* device.cxx's: "none", "stepDone" or "detach"
  pipe,           \* EP0 as the driver and the host see it
  memory,         \* the Flash
  busy,           \* flashBusy()
  host            \* the host's download

vars == <<config, flashState, buffer, sofHandler, setupCallback, pipe, memory,
          busy, host>>

States == {"applicationIdle", "applicationDetach", "dfuIdle", "downloadSync",
           "downloadBusy", "downloadIdle", "manifestSync", "manifest"}

FlashStates ==
  [readAddr : Nat, eraseAddr : Nat, writeAddr : Nat, endAddr : Nat,
   byteCount : Nat, offset : Nat, op : {"none", "erase", "write"}]

\* done, left: units of the data stage received and to come.
Pipes == [phase : {"idle", "data", "status"}, done : Nat, left : Nat]

\* zone: the one the host has chosen, -1 for none; sent: units of the image in
\* blocks whose data has arrived; acked: those the device has declared done;
\* ready: the host has been told so.  Its manners are its own for good.
Hosts ==
  [manners : Manners, zone : ZoneNumbers \cup {-1}, sent : Nat, acked : Nat,
   ready : BOOLEAN]

Polite   == host.manners.polite    \* it sends a block only when told it may
Abandons == host.manners.abandons  \* it may give up a transfer, or reset the bus
Aims     == host.manners.zones     \* the zones it loads
MaxImage == host.manners.image     \* bound: units of the image it gets to send

TypeOK ==
  /\ config \in States
  /\ flashState \in FlashStates
  /\ buffer \in [0..flashPageSize - 1 -> Cells]
  /\ sofHandler \in BOOLEAN
  /\ setupCallback \in {"none", "stepDone", "detach"}
  /\ pipe \in Pipes
  /\ memory \in [Addresses -> Cells]
  /\ busy \in BOOLEAN
  /\ host \in Hosts

NoZone == [readAddr |-> 0, eraseAddr |-> 0, writeAddr |-> 0, endAddr |-> 0,
           byteCount |-> 0, offset |-> 0, op |-> "none"]
IdlePipe == [phase |-> "idle", done |-> 0, left |-> 0]
NewHost(m) == [manners |-> m, zone |-> -1, sent |-> 0, acked |-> 0, ready |-> FALSE]

Init ==
  /\ config = "applicationIdle" /\ flashState = NoZone
  /\ buffer = [i \in 0..flashPageSize - 1 |-> Other]
  /\ sofHandler = FALSE /\ setupCallback = "none" /\ pipe = IdlePipe
  /\ memory = [a \in Addresses |-> Other] /\ busy = FALSE
  /\ \E m \in Manners : host = NewHost(m)

-----------------------------------------------------------------------------
(* SETUP packets: handleSetInterface() and handleDFURequest().             *)

\* A new SETUP packet reaches the driver; device.cxx leaves setupCallback.
Setup == pipe.phase = "idle" \/ Abandons

Stall == pipe' = IdlePipe
Answer == pipe' = [IdlePipe EXCEPT !.phase = "status"]

SelectZone(z) ==
  [readAddr |-> Zones[z].start, eraseAddr |-> Zones[z].start,
   writeAddr |-> Zones[z].start, endAddr |-> Zones[z].end,
   byteCount |-> flashState.byteCount, offset |-> flashState.offset,
   op |-> "none"]

\* The handler's verdict comes after tick() has been unregistered.
SetInterface(z) ==
  /\ Setup /\ z \in Aims \cup {-1} /\ (Polite => z \in ZoneNumbers)
  /\ IF z \notin ZoneNumbers
     THEN /\ Stall /\ sofHandler' = FALSE
          /\ UNCHANGED <<config, flashState, host>>
     ELSE /\ Answer /\ sofHandler' = TRUE
          /\ config' = "dfuIdle" /\ flashState' = SelectZone(z)
          /\ host' = [NewHost(host.manners) EXCEPT !.zone = z, !.ready = TRUE]
  /\ UNCHANGED <<buffer, setupCallback, memory, busy>>

\* Mutant: only the buffer's size is checked.
DownloadRefused_NoEnd(length) == length > flashPageSize

DownloadRefused(length) ==
  \/ length > flashPageSize
  \/ flashState.eraseAddr + length > flashState.endAddr

\* handleDownload(): the block's data is still to come.
Download(length) ==
  /\ Setup /\ length # 0 /\ (Polite => host.ready)
  /\ host.sent + length <= MaxImage
  /\ IF DownloadRefused(length)
     THEN Stall /\ UNCHANGED <<config, flashState, setupCallback, host>>
     ELSE /\ flashState' = [flashState EXCEPT !.op = "erase", !.offset = 0,
                                              !.byteCount = length]
          /\ pipe' = [phase |-> "data", done |-> 0, left |-> length]
          /\ config' = "downloadIdle" /\ setupCallback' = "stepDone"
          /\ host' = [host EXCEPT !.ready = FALSE]
  /\ UNCHANGED <<buffer, sofHandler, memory, busy>>

DownloadEnd ==
  /\ Setup /\ Answer /\ (Polite => host.ready)
  /\ config' = "manifestSync" /\ host' = [host EXCEPT !.ready = FALSE]
  /\ UNCHANGED <<flashState, buffer, sofHandler, setupCallback, memory, busy>>

Upload(length) ==
  /\ Setup /\ (Polite => host.ready)
  /\ LET from == flashState.readAddr
     IN  IF length > flashPageSize \/ from + length > flashState.endAddr
         THEN Stall /\ UNCHANGED <<flashState, buffer>>
         ELSE /\ Answer
              /\ buffer' = [i \in DOMAIN buffer |->
                   IF i < length THEN memory[from + i] ELSE buffer[i]]
              /\ flashState' = [flashState EXCEPT !.readAddr = @ + length]
  /\ UNCHANGED <<config, sofHandler, setupCallback, memory, busy, host>>

\* Mutant: the image is manifested by waiting for a reset.
StatusStep_WaitReset ==
  IF config = "manifestSync" THEN "manifestWaitReset" ELSE config

\* The state GET_STATUS leaves behind and reports.
StatusStep ==
  CASE config = "downloadSync" -> "downloadIdle"
    [] config = "manifestSync" -> "manifest"
    [] config = "manifest"     -> "dfuIdle"
    [] OTHER -> config

\* A host that reads dfuIDLE or dfuDNLOAD-IDLE takes its block for done.
GetStatus ==
  /\ Setup /\ Answer
  /\ config' = StatusStep
  /\ host' = IF StatusStep \in {"dfuIdle", "downloadIdle"}
             THEN [host EXCEPT !.ready = TRUE, !.acked = host.sent] ELSE host
  /\ UNCHANGED <<flashState, buffer, sofHandler, setupCallback, memory, busy>>

\* CLRSTATUS (config.state is never "error"), GETSTATE: no change of state.
OtherRequest ==
  /\ Setup /\ Answer
  /\ UNCHANGED <<config, flashState, buffer, sofHandler, setupCallback, memory,
                 busy, host>>

\* ABORT resets neither flashState nor the host's place in the zone.
AbortDownload ==
  /\ Setup /\ Answer /\ ~Polite
  /\ config' = "dfuIdle"
  /\ UNCHANGED <<flashState, buffer, sofHandler, setupCallback, memory, busy,
                 host>>

DetachRequest ==
  /\ Setup /\ Answer
  /\ setupCallback' = "detach"
  /\ UNCHANGED <<config, flashState, buffer, sofHandler, memory, busy, host>>

\* A request in the wrong direction, or one the driver does not know.
RefusedRequest ==
  /\ Setup /\ Stall
  /\ UNCHANGED <<config, flashState, buffer, sofHandler, setupCallback, memory,
                 busy, host>>

-----------------------------------------------------------------------------
(* The rest of the transfer: EP0's data and status stages.                 *)

\* detach() does not return: reboot() starts the firmware anew, over the same
\* Flash.
Reboot ==
  /\ config' = "applicationIdle" /\ flashState' = NoZone
  /\ buffer' = [i \in 0..flashPageSize - 1 |-> Other]
  /\ sofHandler' = FALSE /\ pipe' = IdlePipe /\ host' = NewHost(host.manners)
  /\ UNCHANGED <<memory, busy>>

\* The application says which of its two lives it has started.
Detached(state) ==
  /\ ~sofHandler /\ pipe = IdlePipe /\ flashState = NoZone
  /\ config' = IF state THEN "dfuIdle" ELSE "applicationIdle"
  /\ UNCHANGED <<flashState, buffer, sofHandler, setupCallback, pipe, memory,
                 busy, host>>

\* "if (setupCallback)", for the callbacks that return.
RunCallback ==
  /\ setupCallback # "detach" /\ setupCallback' = "none"
  /\ config' = IF setupCallback = "stepDone" THEN "downloadBusy" ELSE config

\* Mutant: every packet goes to the start of the buffer.
Received_AtStart(count) ==
  [i \in DOMAIN buffer |-> IF i < count THEN host.sent + i ELSE buffer[i]]

Received(count) ==
  [i \in DOMAIN buffer |->
     IF i \in pipe.done..pipe.done + count - 1 THEN host.sent + i ELSE buffer[i]]

\* readEP(0) of a data packet; with the last one the callback is run.
DataPacket ==
  LET count == Least(pipe.left, epBufferSize)
  IN  /\ pipe.phase = "data"
      /\ buffer' = Received(count)
      /\ IF count < pipe.left
         THEN /\ pipe' = [pipe EXCEPT !.done = @ + count, !.left = @ - count]
              /\ UNCHANGED <<config, setupCallback, host>>
         ELSE /\ Answer /\ RunCallback
              /\ host' = [host EXCEPT !.sent = @ + pipe.done + count]
      /\ UNCHANGED <<flashState, sofHandler, memory, busy>>

StatusDone ==
  /\ pipe.phase = "status" /\ pipe' = IdlePipe /\ RunCallback
  /\ UNCHANGED <<flashState, buffer, sofHandler, memory, busy, host>>

DetachDone ==
  /\ pipe.phase = "status" /\ setupCallback = "detach"
  /\ setupCallback' = "none" /\ Reboot

\* A bus reset ends the transfer without the driver hearing of it.
BusReset ==
  /\ Abandons /\ pipe' = IdlePipe /\ host' = [host EXCEPT !.ready = FALSE]
  /\ UNCHANGED <<config, flashState, buffer, sofHandler, setupCallback, memory,
                 busy>>

-----------------------------------------------------------------------------
(* tick(), and the Flash it drives.                                        *)

Pending == flashState.writeAddr + flashState.byteCount

TickErase ==
  /\ sofHandler /\ ~busy /\ flashState.op = "erase"
  /\ flashState.eraseAddr < Pending
  /\ LET from == flashState.eraseAddr
     IN  memory' = [a \in Addresses |->
           IF a \in from..from + flashEraseSize - 1 THEN Erased ELSE memory[a]]
  /\ flashState' = [flashState EXCEPT !.eraseAddr = @ + flashEraseSize]
  /\ busy' = TRUE
  /\ UNCHANGED <<config, buffer, sofHandler, setupCallback, pipe, host>>

\* Mutant: it writes without waiting for the erase.
WritingNow_NotErased ==
  sofHandler /\ ~busy /\ flashState.op \in {"erase", "write"}

\* Mutant: a block that ends at the zone's end is not let through.
WritingNow_OffByOne ==
  /\ sofHandler /\ ~busy
  /\ \/ flashState.op = "write"
     \/ /\ flashState.op = "erase" /\ flashState.eraseAddr >= Pending
        /\ flashState.endAddr > Pending

\* The operation tick() goes on with once nothing is left to erase.
WritingNow ==
  /\ sofHandler /\ ~busy
  /\ \/ flashState.op = "write"
     \/ /\ flashState.op = "erase" /\ flashState.eraseAddr >= Pending
        /\ flashState.endAddr >= Pending

TickWait ==
  /\ WritingNow /\ config # "downloadBusy"
  /\ flashState' = [flashState EXCEPT !.op = "write"]
  /\ UNCHANGED <<config, buffer, sofHandler, setupCallback, pipe, memory, busy,
                 host>>

TickWrite ==
  LET amount == Least(flashState.byteCount - flashState.offset, flashBufferSize)
      to     == flashState.writeAddr
  IN  /\ WritingNow /\ config = "downloadBusy"
      /\ flashState.offset # flashState.byteCount
      /\ memory' = [a \in Addresses |->
           IF a \in to..to + amount - 1
           THEN buffer[flashState.offset + (a - to)] ELSE memory[a]]
      /\ flashState' = [flashState EXCEPT !.op = "write", !.offset = @ + amount,
                                          !.writeAddr = @ + amount]
      /\ busy' = TRUE
      /\ UNCHANGED <<config, buffer, sofHandler, setupCallback, pipe, host>>

TickDone ==
  /\ WritingNow /\ config = "downloadBusy"
  /\ flashState.offset = flashState.byteCount
  /\ flashState' = [flashState EXCEPT !.op = "none", !.offset = 0,
                                      !.byteCount = 0]
  /\ config' = "downloadSync"
  /\ UNCHANGED <<buffer, sofHandler, setupCallback, pipe, memory, busy, host>>

FlashDone ==
  /\ busy /\ busy' = FALSE
  /\ UNCHANGED <<config, flashState, buffer, sofHandler, setupCallback, pipe,
                 memory, host>>

-----------------------------------------------------------------------------

Request ==
  \/ \E z \in ZoneNumbers \cup {-1} : SetInterface(z)
  \/ \E length \in 1..MaxLength : Download(length) \/ Upload(length)
  \/ DownloadEnd \/ GetStatus \/ OtherRequest \/ AbortDownload
  \/ DetachRequest \/ RefusedRequest

Tick == TickErase \/ TickWait \/ TickWrite \/ TickDone

Next ==
  \/ Request \/ DataPacket \/ StatusDone \/ DetachDone \/ BusReset
  \/ Tick \/ FlashDone \/ \E state \in BOOLEAN : Detached(state)

Spec == Init /\ [][Next]_vars

-----------------------------------------------------------------------------
(* What the driver promises.                                               *)

\* Whatever the host sends and whenever it gives up, a unit of Flash is only
\* written when it is erased and not written since (src/drivers/dfu.cxx:159).
ErasedBeforeWritten ==
  [][\A a \in Addresses :
       memory'[a] # memory[a] /\ memory'[a] # Erased => memory[a] = Erased]_vars

\* Whatever the host sends, the driver erases and writes inside the zone it
\* was last pointed at and nowhere else (src/drivers/dfu.cxx:73).
OnlyChosenZone ==
  [][\A a \in Addresses :
       memory'[a] # memory[a] =>
         /\ host.zone # -1
         /\ Zones[host.zone].start <= a /\ a < Zones[host.zone].end]_vars

\* A host that sends a block only when told it may and gives none up.
Cooperative == Polite /\ ~Abandons

\* With a cooperative host: the part of its image it has been told is done is in
\* the Flash, complete and in order (src/drivers/dfu.cxx:123).
ImageIntact ==
  Cooperative /\ host.zone # -1 =>
    \A i \in 0..host.acked - 1 : memory[Zones[host.zone].start + i] = i

-----------------------------------------------------------------------------
(* Progress.                                                               *)

\* Frames go on, so tick() is called again and again; Flash operations end.
FairSpec == Spec /\ WF_vars(Tick) /\ WF_vars(FlashDone)

\* With a cooperative host: a received block is written and declared so, and its
\* polling for dfuDNLOAD-IDLE comes to an end (src/drivers/dfu.cxx:167).
BlockCompletes == Cooperative /\ config = "downloadBusy" ~> config # "downloadBusy"

=============================================================================
