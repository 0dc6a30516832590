--------------------------- MODULE ControlTransfer ---------------------------
(***************************************************************************)
(* What a control pipe promises its host, without saying how: the          *)
(* transfers of the comment over completeSetupPacket() (src/device.cxx),   *)
(*                                                                         *)
(*   <SETUP> <IN> ... <IN> <OUT>      read: data, then the host's status   *)
(*   <SETUP> <OUT> ... <OUT> <IN>     write: data, then the device's       *)
(*   <SETUP> <IN>                     no data                              *)
(*                                                                         *)
(* each of which may instead be refused with a stall, or be given up by    *)
(* the host; and the two things a request changes for good, the device's   *)
(* address and its configuration.                                          *)
(***************************************************************************)
EXTENDS Integers

CONSTANTS
  Requests,     \* what the host may ask, as setup packets
  NoRequest,
  Abandonable,  \* requests the host may give up
  Size,         \* bytes in a packet
  Source,       \* the object a read is answered from
  Extents       \* the lengths that object may have

VARIABLES
  phase,     \* where the transfer is
  request,   \* what was asked
  moved,     \* how many bytes of data have moved
  offer,     \* what the device has ready for the host
  promised,  \* the address the host has been told is taken
  address,   \* the address the device answers to
  running    \* the configuration that runs, 0 for none

vars == <<phase, request, moved, offer, promised, address, running>>

Nothing == <<"nothing">>
Refusal == <<"refusal">>
Ack     == <<"acknowledgement", 0>>
Data(object, offset, length) == <<"data", object, offset, length>>

Lesser(a, b) == IF a < b THEN a ELSE b

Active == phase \notin {"gone", "idle"}

SetsAddress(r) == r.type = "standard" /\ r.request = "setAddress"
Configures(r)  == r.type = "standard" /\ r.request = "setConfiguration"

Init ==
  /\ phase = "gone" /\ request = NoRequest /\ moved = 0 /\ offer = Nothing
  /\ promised = 0 /\ address = 0 /\ running = 0

-----------------------------------------------------------------------------
(* The host.                                                               *)

\* A SETUP packet always gets through to a device at its address.
Ask(r) ==
  /\ phase = "idle" \/ (Active /\ request \in Abandonable)
  /\ address = promised
  /\ phase' = CASE r.length = 0 -> "statusIn"
                [] r.length # 0 /\ r.dir = "in"  -> "dataIn"
                [] r.length # 0 /\ r.dir = "out" -> "dataOut"
  /\ request' = r /\ moved' = 0 /\ offer' = Nothing
  /\ UNCHANGED <<promised, address, running>>

Finish ==
  /\ phase' = "idle" /\ request' = NoRequest /\ moved' = 0 /\ offer' = Nothing
  /\ UNCHANGED <<address, running>>

\* The next bytes of a read; a short packet, or the last byte asked for, ends it.
Take ==
  /\ phase = "dataIn" /\ offer \notin {Nothing, Refusal}
  /\ LET length == offer[4]
     IN  /\ moved' = moved + length
         /\ phase' = IF length < Size \/ moved' >= request.length
                     THEN "statusOut" ELSE phase
  /\ offer' = Nothing
  /\ UNCHANGED <<request, promised, address, running>>

Send ==
  /\ phase = "dataOut"
  /\ moved' = moved + Lesser(Size, request.length - moved)
  /\ phase' = IF moved' = request.length THEN "statusIn" ELSE phase
  /\ UNCHANGED <<request, offer, promised, address, running>>

\* The device's acknowledgement.
TakeStatus ==
  /\ phase = "statusIn" /\ offer = Ack
  /\ promised' = IF SetsAddress(request) THEN request.value ELSE promised
  /\ Finish

\* The host's acknowledgement of a read, early when it has seen enough.
SendStatus ==
  /\ phase = "statusOut" \/ (phase = "dataIn" /\ request \in Abandonable)
  /\ Finish /\ UNCHANGED promised

TakeRefusal == offer = Refusal /\ Finish /\ UNCHANGED promised

\* A bus reset, or the device's removal from the bus.
Reset ==
  /\ phase' \in {"idle", "gone"} /\ request' = NoRequest /\ moved' = 0
  /\ offer' = Nothing /\ promised' = 0 /\ address' = 0 /\ running' = 0

-----------------------------------------------------------------------------
(* The device.                                                             *)

\* The bytes that come next, as many as are left and a packet holds.
OfferData ==
  /\ phase = "dataIn" /\ offer = Nothing
  /\ \E extent \in Extents[request] :
       LET left == Lesser(request.length, extent) - moved
       IN  left >= 0 /\ offer' = Data(Source[request], moved, Lesser(Size, left))
  /\ UNCHANGED <<phase, request, moved, promised, address, running>>

\* A request is carried out when it is acknowledged, not before.
Accept ==
  /\ phase = "statusIn" /\ offer = Nothing /\ offer' = Ack
  /\ running' = IF Configures(request) THEN request.value % 256 ELSE running
  /\ UNCHANGED <<phase, request, moved, promised, address>>

\* A read is refused before its first byte or not at all; a refused
\* configuration may stop the one that runs.
Refuse ==
  /\ phase \in {"dataIn", "dataOut", "statusIn"} /\ offer = Nothing
  /\ phase = "dataIn" => moved = 0
  /\ offer' = Refusal
  /\ running' \in (IF Configures(request) THEN {running, 0} ELSE {running})
  /\ UNCHANGED <<phase, request, moved, promised, address>>

\* The address is taken after the status stage that promised it.
TakeAddress ==
  /\ address # promised /\ address' = promised
  /\ UNCHANGED <<phase, request, moved, offer, promised, running>>

-----------------------------------------------------------------------------

Host   == (\E r \in Requests : Ask(r)) \/ Take \/ Send \/ TakeStatus
            \/ SendStatus \/ TakeRefusal \/ Reset
Device == OfferData \/ Accept \/ Refuse \/ TakeAddress

Next == Host \/ Device

Spec == Init /\ [][Next]_vars

-----------------------------------------------------------------------------
(* What follows for the host.                                              *)

\* No more bytes move than were asked for, and what is on offer continues what
\* has moved (src/device.cxx:320): a host's buffer is never overrun.
WithinRequest ==
  /\ Active => moved <= request.length
  /\ offer \notin {Nothing, Refusal, Ack} =>
       /\ phase = "dataIn"
       /\ offer[2] = Source[request] /\ offer[3] = moved
       /\ moved + offer[4] <= request.length

=============================================================================
