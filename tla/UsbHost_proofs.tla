----------------------------- MODULE UsbHost_proofs -----------------------------
(***************************************************************************)
(* What the proofs about the three chips share: the types of the host's    *)
(* half of a transaction and of what it puts into a device; what every     *)
(* request is answered with and what it changes; where EP0 is in the       *)
(* course of a transfer, as a host that keeps to the conventions sees it   *)
(* (Following); and which step of the contract of a control pipe each step *)
(* of host and device is.                                                  *)
(***************************************************************************)
EXTENDS UsbHost, UsbDevice_proofs

\* The host never has more of a write behind it than there is of it; with that
\* the packets it sends have a length.
WithinWrite == host.phase = "dataOut" => host.got <= host.req.length

LEMMA LostTyped == Lost \in Hosts /\ [Lost EXCEPT !.phase = "idle"] \in Hosts
<1>1. Lost \in Hosts
  BY PacketsTyped, Words DEF Lost, Hosts
<1> QED BY <1>1 DEF Hosts

LEMMA PowerOnSound == Sound(PowerOn)
<1> DEFINE modes == [c \in 1..configsCount |-> [i \in 0..interfaceCount - 1 |-> 0]]
           in  == [needsArming |-> FALSE, stall |-> FALSE,
                   isMultiPart |-> FALSE, transferCount |-> 0,
                   memBuffer |-> [obj |-> NullPtr, off |-> 0],
                   partsData |-> NullPtr]
           out == [needsArming |-> FALSE, stall |-> FALSE, transferCount |-> 0]
           hw  == [addr |-> 0, enabled |-> FALSE, tx |-> "disabled",
                   txData |-> [obj |-> NullPtr, off |-> 0, len |-> 0],
                   txComplete |-> FALSE, rx |-> "disabled",
                   rxPacket |-> NoPacket, eps |-> 0, epComplete |-> FALSE,
                   itrEnable |-> {}, status |-> {}, forceSuspend |-> FALSE]
<1>1. NullPtr \in Objects /\ 0 \in Word
  BY Words DEF NullPtr, Objects, Byte
<1>2. in \in EpIn /\ out \in EpOut
  BY <1>1 DEF EpIn, EpOut, Buffers
<1>3. hw \in Registers /\ hw.eps = 0
  BY <1>1, PacketsTyped, BuildOptions DEF BuildOptions, Registers
<1>4. modes \in [1..configsCount -> [0..interfaceCount - 1 -> Byte]]
  BY Bytes
<1>5. 0 \in 0..configsCount
  BY BuildOptions DEF BuildOptions
<1> HIDE DEF in, out, hw, modes
<1>6. PowerOn = [usbState |-> "detached", usbCtrlState |-> "idle",
                 usbSuspended |-> FALSE, activeConfig |-> 0,
                 setupCallback |-> "none", packet |-> ZeroPacket,
                 alternateModes |-> modes, handlersUp |-> {},
                 in |-> in, out |-> out, hw |-> hw]
  BY DEF PowerOn, in, out, hw, modes
<1>7. PowerOn \in Devices
  BY <1>2, <1>3, <1>4, <1>5, <1>6, PacketsTyped
     DEF Devices, DeviceStates, CtrlStates, Callbacks
<1> QED BY <1>3, <1>6, <1>7 DEF Sound, Registry
-----------------------------------------------------------------------------
(* The host.                                                               *)

Phases == {"gone", "idle", "dataIn", "dataOut", "statusIn", "statusOut"}

LEMMA SetPhase ==
  ASSUME NEW h \in Hosts, NEW v \in Phases
  PROVE  [h EXCEPT !.phase = v] \in Hosts
BY DEF Hosts, Phases

LEMMA SetReq ==
  ASSUME NEW h \in Hosts, NEW v \in SetupPackets
  PROVE  [h EXCEPT !.req = v] \in Hosts
BY DEF Hosts

LEMMA SetGot ==
  ASSUME NEW h \in Hosts, NEW v \in Nat
  PROVE  [h EXCEPT !.got = v] \in Hosts
BY DEF Hosts

LEMMA SetHostAddr ==
  ASSUME NEW h \in Hosts, NEW v \in Word
  PROVE  [h EXCEPT !.addr = v] \in Hosts
BY DEF Hosts

LEMMA SetCfg ==
  ASSUME NEW h \in Hosts, NEW v \in Word
  PROVE  [h EXCEPT !.cfg = v] \in Hosts
BY DEF Hosts

LEMMA AsksTyped ==
  ASSUME host \in Hosts, NEW r \in Requests, HostAsks(r)
  PROVE  /\ host' \in Hosts /\ WithinWrite'
         /\ [kind |-> "setup", data |-> r, count |-> 8] \in RxPackets
<1> DEFINE h1 == [host EXCEPT !.phase = FirstPhase(r)]
           h2 == [h1 EXCEPT !.req = r]
           h3 == [h2 EXCEPT !.got = 0]
           c  == IF IsSetConfiguration(r) THEN 0 ELSE host.cfg
           h4 == [h3 EXCEPT !.cfg = c]
<1>1. r \in SetupPackets
  BY HostAssumption DEF HostAssumption
<1>2. FirstPhase(r) \in Phases
  BY <1>1 DEF FirstPhase, SetupPackets, Phases
<1>3. c \in Word
  BY Words DEF Hosts
<1>4. h3 \in Hosts
  <2>1. h1 \in Hosts
    BY <1>2, SetPhase
  <2> HIDE DEF h1
  <2>2. h2 \in Hosts
    BY <1>1, <2>1, SetReq
  <2> HIDE DEF h2
  <2> QED BY <2>2, SetGot
<1>5. h4 \in Hosts /\ h4.got = 0 /\ h4.req = r
  <2> HIDE DEF c
  <2>1. h3.got = 0 /\ h3.req = r
    BY DEF Hosts
  <2> HIDE DEF h3
  <2>2. h4 \in Hosts
    BY <1>3, <1>4, SetCfg
  <2> QED BY <1>4, <2>1, <2>2 DEF Hosts
<1>6. host' = h4
  BY DEF HostAsks
<1> HIDE DEF h4
<1>7. WithinWrite'
  <2>1. r.length \in Nat
    BY <1>1, Words DEF SetupPackets
  <2> QED BY <1>5, <1>6, <2>1 DEF WithinWrite
<1>8. [kind |-> "setup", data |-> r, count |-> 8] \in RxPackets
  BY <1>1, Words DEF RxPackets, UINT16_MAX
<1> QED BY <1>5, <1>6, <1>7, <1>8

LEMMA AcknowledgedTyped ==
  ASSUME host \in Hosts
  PROVE  Acknowledged \in Hosts /\ Acknowledged.phase = "idle"
<1> DEFINE r  == host.req
           a  == IF IsSetAddress(r) THEN r.value ELSE host.addr
           c  == IF IsSetConfiguration(r) THEN r.value ELSE host.cfg
           h1 == [host EXCEPT !.phase = "idle"]
           h2 == [h1 EXCEPT !.req = ZeroPacket]
           h3 == [h2 EXCEPT !.got = 0]
           h4 == [h3 EXCEPT !.addr = a]
           h5 == [h4 EXCEPT !.cfg = c]
<1>1. a \in Word /\ c \in Word
  BY DEF Hosts, SetupPackets
<1> HIDE DEF a, c
<1>2. h2 \in Hosts /\ h2.phase = "idle"
  <2>1. h1 \in Hosts /\ h1.phase = "idle"
    BY DEF Hosts
  <2> HIDE DEF h1
  <2>2. h2 \in Hosts
    BY <2>1, PacketsTyped, SetReq
  <2> QED BY <2>1, <2>2 DEF Hosts
<1> HIDE DEF h2
<1>3. h4 \in Hosts /\ h4.phase = "idle"
  <2>1. h3 \in Hosts /\ h3.phase = "idle"
    BY <1>2 DEF Hosts
  <2> HIDE DEF h3
  <2>2. h4 \in Hosts
    BY <1>1, <2>1, SetHostAddr
  <2> QED BY <2>1, <2>2 DEF Hosts
<1> HIDE DEF h4
<1>4. h5 \in Hosts
  BY <1>1, <1>3, SetCfg
<1>5. h5.phase = "idle"
  BY <1>3 DEF Hosts
<1>6. Acknowledged = h5
  <2>1. /\ h1.addr = host.addr /\ h1.cfg = host.cfg
    BY DEF Hosts
  <2> QED BY DEF Acknowledged, h2, h4, a, c, IsSetAddress
<1> QED BY <1>4, <1>5, <1>6

LEMMA TakesTyped ==
  ASSUME host \in Hosts, NEW len \in Word, HostTakes(len)
  PROVE  host' \in Hosts /\ WithinWrite'
<1>1. CASE host.phase = "dataIn"
  <2> DEFINE got == host.got + len
             ph  == IF len < epBufferSize \/ got >= host.req.length
                    THEN "statusOut" ELSE "dataIn"
             h1  == [host EXCEPT !.got = got]
             h2  == [h1 EXCEPT !.phase = ph]
  <2>1. got \in Nat
    BY Words DEF Hosts
  <2>2. ph \in Phases /\ ph # "dataOut"
    BY DEF Phases
  <2>3. host' = h2
    BY <1>1 DEF Hosts, HostTakes
  <2> HIDE DEF got, ph
  <2>4. h1 \in Hosts
    BY <2>1, SetGot
  <2> HIDE DEF h1
  <2>5. h2 \in Hosts
    BY <2>2, <2>4, SetPhase
  <2>6. h2.phase = ph
    BY <2>4 DEF Hosts
  <2> QED BY <2>2, <2>3, <2>5, <2>6 DEF WithinWrite
<1>2. CASE host.phase = "statusIn" /\ host' = Acknowledged
  BY <1>2, AcknowledgedTyped DEF WithinWrite
<1> QED BY <1>1, <1>2 DEF HostTakes

LEMMA RefusedTyped ==
  ASSUME host \in Hosts, HostRefused
  PROVE  host' \in Hosts /\ WithinWrite'
<1> DEFINE h1 == [host EXCEPT !.phase = "idle"]
           h2 == [h1 EXCEPT !.req = ZeroPacket]
           h3 == [h2 EXCEPT !.got = 0]
<1>1. h1 \in Hosts /\ h1.phase = "idle"
  BY DEF Hosts
<1> HIDE DEF h1
<1>2. h2 \in Hosts /\ h2.phase = "idle"
  <2>1. h2 \in Hosts
    BY <1>1, PacketsTyped, SetReq
  <2> QED BY <1>1, <2>1 DEF Hosts
<1> HIDE DEF h2
<1>3. h3 \in Hosts /\ h3.phase = "idle"
  BY <1>2 DEF Hosts
<1>4. host' = h3
  BY DEF HostRefused, h1, h2
<1> QED BY <1>3, <1>4 DEF WithinWrite

LEMMA SendsTyped ==
  ASSUME host \in Hosts, WithinWrite, host.phase = "dataOut", NEW count,
         count = Least(host.req.length - host.got, epBufferSize),
         HostSends(count)
  PROVE  count \in Word /\ host' \in Hosts /\ WithinWrite'
<1> DEFINE ph == IF host.got + count = host.req.length THEN "statusIn"
                 ELSE host.phase
           h1 == [host EXCEPT !.got = host.got + count]
           h2 == [h1 EXCEPT !.phase = ph]
<1>1. /\ host.req.length \in Word /\ host.req.length \in Nat
      /\ host.got \in Nat /\ host.got <= host.req.length
      /\ host.phase \in Phases
  BY Words DEF WithinWrite, Hosts, SetupPackets, Phases
<1>2. count \in Word /\ count \in Nat /\ host.got + count <= host.req.length
  <2>1. epBufferSize \in Nat
    BY BuildOptions DEF BuildOptions
  <2>2. host.req.length - host.got \in Nat
    BY <1>1
  <2>3. count \in Nat /\ count <= host.req.length - host.got
    BY <2>1, <2>2, LeastIsLeast
  <2>4. host.req.length <= UINT16_MAX /\ UINT16_MAX \in Nat
    BY <1>1, Words
  <2>5. count <= UINT16_MAX
    BY <1>1, <2>3, <2>4
  <2> QED BY <1>1, <2>3, <2>5, Words
<1>3. host' = h2
  BY DEF Hosts, HostSends
<1>4. ph \in Phases
  BY <1>1 DEF Phases
<1> HIDE DEF ph
<1>5. h2 \in Hosts /\ h2.got = host.got + count /\ h2.req = host.req
  <2>1. h1 \in Hosts
    BY <1>1, <1>2, SetGot
  <2>2. h1.got = host.got + count /\ h1.req = host.req
    BY DEF Hosts
  <2> HIDE DEF h1
  <2>3. h2 \in Hosts
    BY <1>4, <2>1, SetPhase
  <2> QED BY <2>1, <2>2, <2>3 DEF Hosts
<1> HIDE DEF h2
<1> QED BY <1>2, <1>3, <1>5 DEF WithinWrite

\* A host that has lost the device, or found it anew, is engaged in nothing.
LEMMA FoundTyped ==
  ASSUME HostFound \/ host' = Lost
  PROVE  host' \in Hosts /\ WithinWrite' /\ host'.phase \in {"idle", "gone"}
<1>1. host' \in Hosts
  BY LostTyped DEF HostFound
<1>2. host'.phase \in {"idle", "gone"}
  BY DEF HostFound, Lost
<1> QED BY <1>1, <1>2 DEF WithinWrite

LEMMA SuspendsTyped ==
  ASSUME host \in Hosts, WithinWrite, NEW v \in BOOLEAN,
         host' = [host EXCEPT !.suspended = v]
  PROVE  host' \in Hosts /\ WithinWrite'
<1>1. /\ host' \in Hosts /\ host'.phase = host.phase
      /\ host'.got = host.got /\ host'.req = host.req
  BY DEF Hosts
<1> QED BY <1>1 DEF WithinWrite

-----------------------------------------------------------------------------
(* What the host does to a device.                                         *)

\* It raises an event.
LEMMA Flagged ==
  ASSUME NEW d, Sound(d), NEW e \in Interrupts
  PROVE  Sound([d EXCEPT !.hw.status = d.hw.status \cup {e}])
<1>1. d.hw.status \cup {e} \in SUBSET Interrupts
  BY Fields DEF Registers
<1>2. NoMore(d.hw, [d.hw EXCEPT !.status = d.hw.status \cup {e}])
  BY <1>1, Fields, NoMoreItself, SetStatus
<1> QED BY <1>2, SetHw

\* It reaches a user endpoint.
LEMMA Reached ==
  ASSUME NEW d, Sound(d)
  PROVE  Sound([d EXCEPT !.hw.epComplete = TRUE])
<1>1. NoMore(d.hw, [d.hw EXCEPT !.epComplete = TRUE])
  BY Fields, NoMoreItself, SetEpComplete
<1> QED BY <1>1, SetHw

\* It takes a packet.
LEMMA Taken ==
  ASSUME NEW d, Sound(d)
  PROVE  /\ Sound([d EXCEPT !.hw.tx = "nack"])
         /\ Sound([d EXCEPT !.hw.tx = "nack", !.hw.txComplete = TRUE])
         /\ d.hw.txData.len \in Word
<1> DEFINE g1 == [d.hw EXCEPT !.tx = "nack"]
           g2 == [g1 EXCEPT !.txComplete = TRUE]
<1>1. NoMore(d.hw, g1)
  BY Fields, NoMoreItself, SetTx
<1>2. NoMore(d.hw, g2)
  <2> HIDE DEF g1
  <2> QED BY <1>1, SetTxComplete
<1>3. Sound([d EXCEPT !.hw = g1]) /\ Sound([d EXCEPT !.hw = g2])
  <2> HIDE DEF g1, g2
  <2> QED BY <1>1, <1>2, SetHw
<1>4. d.hw.txData.len \in Word
  BY Fields DEF Registers
<1> QED BY <1>3, <1>4

\* A received packet is taken off the peripheral.
LEMMA Fetched ==
  ASSUME NEW d, Sound(d)
  PROVE  /\ Sound([d EXCEPT !.hw.rxPacket = NoPacket])
         /\ d.hw.rxPacket \in RxPackets
         /\ ClassAnswers[d.hw.rxPacket.data.dir] \subseteq Answers
<1>1. NoMore(d.hw, [d.hw EXCEPT !.rxPacket = NoPacket])
  BY Fields, NoMoreItself, PacketsTyped, SetRxPacket
<1>2. d.hw.rxPacket \in RxPackets
  BY Fields DEF Registers
<1>3. ClassAnswers[d.hw.rxPacket.data.dir] \subseteq Answers
  BY <1>2, HostAssumption DEF HostAssumption, RxPackets, SetupPackets
<1> QED BY <1>1, <1>2, <1>3, SetHw

\* The packet a host puts into EP0's receive buffer.
LEMMA Delivered ==
  ASSUME NEW d, Sound(d), NEW packet \in RxPackets
  PROVE  /\ Sound([d EXCEPT !.hw.rx = "nack", !.hw.rxPacket = packet])
         /\ Sound([d EXCEPT !.hw.tx = "nack", !.hw.rx = "nack",
                            !.hw.rxPacket = packet])
<1> DEFINE t == [d.hw EXCEPT !.tx = "nack"]
           h == [d.hw EXCEPT !.rx = "nack"]
           g == [t EXCEPT !.rx = "nack"]
<1>1. NoMore(d.hw, h)
  BY Fields, NoMoreItself, SetRx
<1>2. NoMore(d.hw, g)
  <2>1. NoMore(d.hw, t)
    BY Fields, NoMoreItself, SetTx
  <2> HIDE DEF t
  <2> QED BY <2>1, SetRx
<1>3. /\ NoMore(d.hw, [h EXCEPT !.rxPacket = packet])
      /\ NoMore(d.hw, [g EXCEPT !.rxPacket = packet])
  <2> HIDE DEF h, g
  <2> QED BY <1>1, <1>2, SetRxPacket
<1>4. /\ Sound([d EXCEPT !.hw = [h EXCEPT !.rxPacket = packet]])
      /\ Sound([d EXCEPT !.hw = [g EXCEPT !.rxPacket = packet]])
  <2> HIDE DEF h, g
  <2> QED BY <1>3, SetHw
<1> QED BY <1>4

-----------------------------------------------------------------------------
(* A host and drivers that keep to the conventions.                        *)

\* A table of n bytes would fill its last packet (src/device.cxx:260).
WholePackets(n) == \E k \in 0..n : n = k * epBufferSize

\* A standard request the device answers itself: the drivers are not asked.
Own(r) ==
  LET index == r.value % 256
      type  == DescriptorType(r)
  IN  /\ r.type = "standard" /\ r.request # "other"
      /\ r.request = "getDescriptor" =>
           /\ r.recipient = "device"
           /\ \/ type \in {"device", "deviceQualifier"}
              \/ type = "configuration" /\ index < configsCount
              \/ type = "interface" /\ index < interfaceDescriptorCount
              \/ type = "endpoint" /\ index < endpointDescriptorCount
              \/ type = "string" /\ index \in 0..stringCount

\* The requests of a conventional host: addresses and configurations are within
\* their ranges and have no data; what is read of the device is there, ends in
\* a short packet or where the host expects it to, and is not given up if it is
\* a table.
WellFormed(r) ==
  /\ IsSetAddress(r) => r.length = 0 /\ r.value < 128
  /\ IsSetConfiguration(r) => r.length = 0 /\ r.value < 256
  /\ r.dir = "in" /\ r.length # 0 =>
       /\ r.type = "standard" => Own(r)
       /\ \A size \in Extent(Asked(r)) : size < r.length => ~WholePackets(size)
       /\ Asked(r)[1] \in {"configDescriptor", "string"} => r \notin Abandonable

\* Data that, taken for a request, is refused.
Inert(p) ==
  /\ p.type = "standard" /\ p.dir = "out"
  /\ p.request \notin {"setAddress", "setConfiguration", "setInterface", "other"}

\* A driver answers a read with its data, arms EP0 for a write, or declines.
Behaves(dir, ans) ==
  \/ ans.response \in {"stall", "unhandled"} /\ ~ans.arm
  \/ dir = "in" /\ ~ans.arm /\ ans.response = "data" /\ ans.data = <<"classData", 0>>
  \/ dir = "out" /\ ans.arm /\ ans.response = "zeroLength"

Mannerly ==
  /\ \A r \in Requests : WellFormed(r)
  /\ \A dir \in {"in", "out"} : \A ans \in ClassAnswers[dir] : Behaves(dir, ans)

\* Nor can the data of a write be taken for a request of the device's own.
Conventional == Mannerly /\ \A p \in Payloads : Inert(p)

-----------------------------------------------------------------------------
(* What a request is answered with.                                        *)

\* The reply r to the request p: a refusal, an acknowledgement or an armed
\* receiver, or bytes of the object that was asked for.
Replies(p, r) ==
  LET d      == r.dev
      object == IF d.in.isMultiPart THEN d.in.partsData ELSE r.data
  IN  \/ /\ r.response \in {"stall", "unhandled"}
         /\ ~d.in.isMultiPart /\ ~d.out.needsArming
      \/ /\ r.response = "zeroLength" /\ ~d.in.isMultiPart
         /\ IF d.out.needsArming
            THEN p.dir = "out" /\ p.length # 0 /\ d.out.transferCount = p.length
            ELSE p.length = 0
      \/ /\ r.response = "data" /\ p.dir = "in" /\ ~d.out.needsArming
         /\ d.in.isMultiPart <=> r.data = NullPtr
         /\ p.length # 0 => object = Asked(p) /\ r.size \in Extent(object)
         /\ d.in.isMultiPart => object[1] \in {"configDescriptor", "string"}

\* EP0 as the first half of handleSetupPacket() leaves it.
Fresh(d) == ~d.in.isMultiPart /\ ~d.out.needsArming

LEMMA VerdictReplies ==
  ASSUME NEW d, Fresh(d)
  PROVE  /\ Replies(d.packet, Stalled(d)) /\ Replies(d.packet, Unhandled(d))
         /\ d.packet.length = 0 => Replies(d.packet, Acked(d))
BY DEF Replies, Stalled, Unhandled, Acked, Reply, Fresh

LEMMA ObjectReplies ==
  ASSUME NEW d, Fresh(d), d.packet.dir = "in", NEW object, NEW size,
         object # NullPtr, object = Asked(d.packet), size \in Extent(object)
  PROVE  Replies(d.packet, Reply(d, "data", object, size))
BY DEF Replies, Reply, Fresh

LEMMA TableReplies ==
  ASSUME NEW d \in Devices, Fresh(d), d.packet.dir = "in", NEW object, NEW size,
         object[1] \in {"configDescriptor", "string"},
         object = Asked(d.packet), size \in Extent(object)
  PROVE  Replies(d.packet, MultiPart(d, object, size))
<1> DEFINE i == [d.in EXCEPT !.isMultiPart = TRUE, !.partsData = object]
           e == [d EXCEPT !.in = i]
<1>1. i.isMultiPart /\ i.partsData = object
  BY DEF Devices, EpIn
<1> HIDE DEF i
<1>2. e.in = i /\ e.packet = d.packet /\ e.out = d.out
  BY DEF Devices
<1>3. MultiPart(d, object, size) = Reply(e, "data", NullPtr, size)
  BY DEF MultiPart, i
<1> HIDE DEF e
<1> QED BY <1>1, <1>2, <1>3 DEF Replies, Reply, Fresh

LEMMA DescriptorAsked ==
  ASSUME NEW r, r.type = "standard", r.request = "getDescriptor"
  PROVE  LET index == r.value % 256
         IN  /\ DescriptorType(r) = "device"
                  => Asked(r) = <<"deviceDescriptor", 0>>
             /\ DescriptorType(r) = "configuration"
                  => Asked(r) = <<"configDescriptor", index>>
             /\ DescriptorType(r) = "interface"
                  => Asked(r) = <<"interfaceDescriptor", index>>
             /\ DescriptorType(r) = "endpoint"
                  => Asked(r) = <<"endpointDescriptor", index>>
             /\ DescriptorType(r) = "string" /\ index = 0
                  => Asked(r) = <<"langID", 0>>
             /\ DescriptorType(r) = "string" /\ index # 0
                  => Asked(r) = <<"string", index>>
<1> DEFINE index == r.value % 256
           type  == DescriptorType(r)
<1>1. Asked(r) =
        CASE type = "device" -> <<"deviceDescriptor", 0>>
          [] type = "configuration" -> <<"configDescriptor", index>>
          [] type = "interface" -> <<"interfaceDescriptor", index>>
          [] type = "endpoint" -> <<"endpointDescriptor", index>>
          [] type = "string" /\ index = 0 -> <<"langID", 0>>
          [] OTHER -> <<"string", index>>
  BY Zenon DEF Asked
<1> HIDE DEF index, type
<1> QED BY <1>1, Zenon DEF index, type

LEMMA Extents ==
  ASSUME NEW i
  PROVE  /\ Extent(<<"deviceDescriptor", i>>) = {18}
         /\ i \in 0..configsCount - 1 =>
              Extent(<<"configDescriptor", i>>) = {ConfigLength[i]}
         /\ Extent(<<"interfaceDescriptor", i>>) = {9}
         /\ Extent(<<"endpointDescriptor", i>>) = {7}
         /\ Extent(<<"langID", i>>) = {4}
         /\ i \in 1..stringCount =>
              Extent(<<"string", i>>) = {StringLength[i]}
         /\ Extent(<<"statusResponse", i>>) = {2}
         /\ Extent(<<"activeConfig", i>>) = {1}
         /\ Extent(<<"alternateMode", i>>) = {1}
         /\ Extent(<<"classData", i>>) =
              {ans.size : ans \in {a \in ClassAnswers["in"] : a.response = "data"}}
<1> DEFINE Entry(table) == {table[j] : j \in {i} \cap DOMAIN table}
<1>1. /\ Extent(<<"configDescriptor", i>>) = Entry(ConfigLength)
      /\ Extent(<<"string", i>>) = Entry(StringLength)
  BY DEF Extent
<1>2. DOMAIN ConfigLength = 0..configsCount - 1 /\ DOMAIN StringLength = 1..stringCount
  BY BuildOptions
<1>3. /\ i \in 0..configsCount - 1 => Entry(ConfigLength) = {ConfigLength[i]}
      /\ i \in 1..stringCount => Entry(StringLength) = {StringLength[i]}
  BY <1>2
<1> HIDE DEF Entry
<1> QED BY <1>1, <1>3 DEF Extent

\* What can be read of the device, or of its drivers, has a length.
LEMMA ExtentsAreLengths ==
  ASSUME NEW r
  PROVE  Extent(Asked(r)) \subseteq Nat
<1> DEFINE Entry(table, i) == {table[j] : j \in {i} \cap DOMAIN table}
<1>1. ASSUME NEW i PROVE Entry(ConfigLength, i) \subseteq Nat
                         /\ Entry(StringLength, i) \subseteq Nat
  BY BuildOptions, Words
<1>2. {ans.size : ans \in {a \in ClassAnswers["in"] : a.response = "data"}}
        \subseteq Nat
  BY HostAssumption, Words DEF Answers
<1>3. PICK i : Asked(r) \in {<<k, i>> : k \in
          {"deviceDescriptor", "configDescriptor", "interfaceDescriptor",
           "endpointDescriptor", "langID", "string", "statusResponse",
           "activeConfig", "alternateMode", "classData"}}
  BY DEF Asked
<1>4. /\ Extent(<<"configDescriptor", i>>) = Entry(ConfigLength, i)
      /\ Extent(<<"string", i>>) = Entry(StringLength, i)
  BY DEF Extent
<1>5. /\ Extent(<<"configDescriptor", i>>) \subseteq Nat
      /\ Extent(<<"string", i>>) \subseteq Nat
  <2> HIDE DEF Entry
  <2> QED BY <1>1, <1>4
<1>6. Extent(<<"classData", i>>) \subseteq Nat
  BY <1>2, Extents, Zenon
<1>7. /\ Extent(<<"deviceDescriptor", i>>) = {18}
      /\ Extent(<<"interfaceDescriptor", i>>) = {9}
      /\ Extent(<<"endpointDescriptor", i>>) = {7}
      /\ Extent(<<"langID", i>>) = {4}
      /\ Extent(<<"statusResponse", i>>) = {2}
      /\ Extent(<<"activeConfig", i>>) = {1}
      /\ Extent(<<"alternateMode", i>>) = {1}
  BY Extents, Zenon
<1> QED BY <1>3, <1>5, <1>6, <1>7

LEMMA GetDescriptorReplies ==
  ASSUME NEW d, Sound(d), Fresh(d),
         d.packet.type = "standard", d.packet.request = "getDescriptor"
  PROVE  LET r == HandleGetDescriptor(d)
         IN  /\ Replies(d.packet, r) /\ r.dev.packet = d.packet
             /\ r.response = "unhandled" => r = Unhandled(d) /\ ~Own(d.packet)
<1> DEFINE index == d.packet.value % 256
           type  == DescriptorType(d.packet)
           r     == HandleGetDescriptor(d)
           p     == d.packet
           Good(q) == /\ Replies(p, q) /\ q.dev.packet = p
                      /\ q.response # "unhandled"
<1>1. Good(Stalled(d))
  BY VerdictReplies DEF Stalled, Reply
<1>2. ASSUME p.dir = "in", NEW object, NEW size, object # NullPtr,
             object = Asked(p), size \in Extent(object)
      PROVE  Good(Reply(d, "data", object, size))
  BY <1>2, ObjectReplies DEF Reply
<1>3. ASSUME p.dir = "in", NEW object, NEW size, object = Asked(p),
             object[1] \in {"configDescriptor", "string"}, size \in Extent(object)
      PROVE  Good(MultiPart(d, object, size))
  <2>1. d \in Devices
    BY DEF Sound
  <2>2. MultiPart(d, object, size).dev.packet = d.packet
        /\ MultiPart(d, object, size).response = "data"
    BY <2>1 DEF MultiPart, Reply, Devices
  <2> QED BY <1>3, <2>1, <2>2, TableReplies
<1>4. CASE p.dir = "out"
  <2>1. r = Stalled(d)
    BY <1>4, Zenon DEF HandleGetDescriptor
  <2> QED BY <1>1, <2>1
<1>5. CASE p.dir = "in" /\ p.recipient # "device"
  <2>1. r = Unhandled(d)
    BY <1>5, Zenon DEF HandleGetDescriptor
  <2>2. ~Own(p)
    BY <1>5 DEF Own
  <2> QED BY <2>1, <2>2, VerdictReplies DEF Unhandled, Reply
<1>6. CASE p.dir = "in" /\ p.recipient = "device"
  <2> DEFINE other == ~ \/ type \in {"device", "deviceQualifier"}
                        \/ type = "configuration" /\ index < configsCount
                        \/ type = "interface" /\ index < interfaceDescriptorCount
                        \/ type = "endpoint" /\ index < endpointDescriptorCount
                        \/ type = "string" /\ (index = 0 \/ index \in 1..stringCount)
  <2>1. r = CASE type = "device" ->
                   Reply(d, "data", <<"deviceDescriptor", 0>>, 18)
              [] type = "deviceQualifier" -> Stalled(d)
              [] type = "configuration" /\ index < configsCount ->
                   MultiPart(d, <<"configDescriptor", index>>, ConfigLength[index])
              [] type = "interface" /\ index < interfaceDescriptorCount ->
                   Reply(d, "data", <<"interfaceDescriptor", index>>, 9)
              [] type = "endpoint" /\ index < endpointDescriptorCount ->
                   Reply(d, "data", <<"endpointDescriptor", index>>, 7)
              [] type = "string" /\ index = 0 ->
                   Reply(d, "data", <<"langID", 0>>, 4)
              [] type = "string" /\ index \in 1..stringCount ->
                   MultiPart(d, <<"string", index>>, StringLength[index])
              [] OTHER -> Unhandled(d)
    BY <1>6, Zenon DEF HandleGetDescriptor
  <2> DEFINE asked == Asked(p)
  <2>2. /\ type = "device" => asked = <<"deviceDescriptor", 0>>
        /\ type = "configuration" => asked = <<"configDescriptor", index>>
        /\ type = "interface" => asked = <<"interfaceDescriptor", index>>
        /\ type = "endpoint" => asked = <<"endpointDescriptor", index>>
        /\ type = "string" /\ index = 0 => asked = <<"langID", 0>>
        /\ type = "string" /\ index # 0 => asked = <<"string", index>>
    BY DescriptorAsked
  <2>3. index \in Nat
    <3>1. d.packet.value \in Word
      BY Fields DEF SetupPackets
    <3> QED BY <3>1, ByteOf DEF Byte
  <2> HIDE DEF index, type, r, Good, asked
  <2>4. CASE type = "device"
    <3>1. r = Reply(d, "data", <<"deviceDescriptor", 0>>, 18)
      BY <2>1, <2>4
    <3>2. <<"deviceDescriptor", 0>> # NullPtr /\ 18 \in Extent(<<"deviceDescriptor", 0>>)
      BY Extents DEF NullPtr
    <3>3. Good(r)
      BY <1>2, <1>6, <2>2, <2>4, <3>1, <3>2 DEF asked
    <3> QED BY <3>3 DEF Good, r
  <2>5. CASE type = "deviceQualifier"
    <3>1. r = Stalled(d)
      BY <2>1, <2>5
    <3> QED BY <1>1, <3>1 DEF Good, r
  <2>6. CASE type = "configuration" /\ index < configsCount
    <3> DEFINE object == <<"configDescriptor", index>>
    <3>1. r = MultiPart(d, object, ConfigLength[index])
      BY <2>1, <2>6
    <3>2. object[1] \in {"configDescriptor", "string"} /\ ConfigLength[index] \in Extent(object)
      <4>1. index \in 0..configsCount - 1
        BY <2>3, <2>6, BuildOptions
      <4> QED BY <4>1, Extents
    <3>3. Good(r)
      BY <1>3, <1>6, <2>2, <2>6, <3>1, <3>2 DEF asked
    <3> QED BY <3>3 DEF Good, r
  <2>7. CASE type = "interface" /\ index < interfaceDescriptorCount
    <3> DEFINE object == <<"interfaceDescriptor", index>>
    <3>1. r = Reply(d, "data", object, 9)
      BY <2>1, <2>7
    <3>2. object # NullPtr /\ 9 \in Extent(object)
      BY Extents DEF NullPtr
    <3>3. Good(r)
      BY <1>2, <1>6, <2>2, <2>7, <3>1, <3>2 DEF asked
    <3> QED BY <3>3 DEF Good, r
  <2>8. CASE type = "endpoint" /\ index < endpointDescriptorCount
    <3> DEFINE object == <<"endpointDescriptor", index>>
    <3>1. r = Reply(d, "data", object, 7)
      BY <2>1, <2>8
    <3>2. object # NullPtr /\ 7 \in Extent(object)
      BY Extents DEF NullPtr
    <3>3. Good(r)
      BY <1>2, <1>6, <2>2, <2>8, <3>1, <3>2 DEF asked
    <3> QED BY <3>3 DEF Good, r
  <2>9. CASE type = "string" /\ index = 0
    <3>1. r = Reply(d, "data", <<"langID", 0>>, 4)
      BY <2>1, <2>9
    <3>2. <<"langID", 0>> # NullPtr /\ 4 \in Extent(<<"langID", 0>>)
      BY Extents DEF NullPtr
    <3>3. Good(r)
      BY <1>2, <1>6, <2>2, <2>9, <3>1, <3>2 DEF asked
    <3> QED BY <3>3 DEF Good, r
  <2>10. CASE type = "string" /\ index \in 1..stringCount
    <3> DEFINE object == <<"string", index>>
    <3>1. index # 0
      BY <2>10
    <3>2. r = MultiPart(d, object, StringLength[index])
      BY <2>1, <2>10, <3>1
    <3>3. object[1] \in {"configDescriptor", "string"} /\ StringLength[index] \in Extent(object)
      BY <2>10, Extents
    <3>4. Good(r)
      BY <1>3, <1>6, <2>2, <2>10, <3>1, <3>2, <3>3 DEF asked
    <3> QED BY <3>4 DEF Good, r
  <2>11. CASE other
    <3>1. r = Unhandled(d)
      BY <2>1, <2>11
    <3>2. ~Own(p)
      <4>1. ~ \/ type \in {"device", "deviceQualifier"}
              \/ type = "configuration" /\ index < configsCount
              \/ type = "interface" /\ index < interfaceDescriptorCount
              \/ type = "endpoint" /\ index < endpointDescriptorCount
              \/ type = "string" /\ index \in 0..stringCount
        BY <2>3, <2>11
      <4> QED BY <4>1 DEF Own, index, type
    <3> QED BY <3>1, <3>2, VerdictReplies DEF Unhandled, Reply, r
  <2> QED BY <2>4, <2>5, <2>6, <2>7, <2>8, <2>9, <2>10, <2>11
<1>7. p.dir \in {"in", "out"}
  BY Fields DEF SetupPackets
<1> QED BY <1>4, <1>5, <1>6, <1>7

\* The handlers of requests only say what to send: EP0 is armed after them.
SameEP0(d, o) == SameReceiver(d, o) /\ o.hw.tx = d.hw.tx

LEMMA SetConfigurationVerdict ==
  ASSUME NEW d, Sound(d), Fresh(d), d.packet.length = 0
  PROVE  LET r == HandleSetConfiguration(d)
         IN  /\ Replies(d.packet, r) /\ SameEP0(d, r.dev)
             /\ r.response \in {"stall", "zeroLength"}
<1> DEFINE config == d.packet.value % 256
           torn   == DeinitHandlers(ResetEPs(d, "user"))
           chosen == [torn EXCEPT !.activeConfig = config]
           none   == [chosen EXCEPT !.usbState = "addressed"]
           armed  == InitHandlers([chosen EXCEPT !.hw.eps = config])
           Same(o) == SameEP0(d, o) /\ o.in = d.in
<1>1. Sound(torn) /\ Same(torn)
  <2>1. Sound(torn)
    BY ResetEPsSound, DeinitHandlersSound DEF Quiet
  <2>2. Same(torn)
    <3> DEFINE g == [d.hw EXCEPT !.eps = 0, !.epComplete = FALSE]
               u == [d EXCEPT !.hw = g]
    <3>1. g.tx = d.hw.tx /\ g.rx = d.hw.rx
      BY Fields DEF Registers
    <3>2. torn = DeinitHandlers(u)
      BY DEF ResetEPs, Sound, Devices
    <3> HIDE DEF g, torn
    <3>3. Same(u) /\ u.activeConfig = d.activeConfig
      BY <3>1 DEF SameEP0, SameReceiver, Sound, Devices
    <3>4. Same(DeinitHandlers(u))
      BY <3>1 DEF SameEP0, SameReceiver, DeinitHandlers, Sound, Devices
    <3> QED BY <3>2, <3>4
  <2> QED BY <2>1, <2>2
<1> HIDE DEF config, torn
<1>2. Same(none) /\ Same(armed)
  <2>1. Same(none)
    BY <1>1 DEF SameEP0, SameReceiver, Sound, Devices
  <2>2. Same(armed)
    BY <1>1 DEF SameEP0, SameReceiver, InitHandlers, Sound, Devices, Registers
  <2> QED BY <2>1, <2>2
<1>3. Same(d)
  BY DEF SameEP0, SameReceiver
<1>4. HandleSetConfiguration(d) \in {Stalled(d), Stalled(torn), Acked(none), Acked(armed)}
  BY DEF HandleSetConfiguration, config, torn
<1>5. ASSUME NEW o, Same(o)
      PROVE  /\ Replies(d.packet, Stalled(o)) /\ Replies(d.packet, Acked(o))
             /\ Stalled(o).dev = o /\ Acked(o).dev = o
             /\ Stalled(o).response = "stall" /\ Acked(o).response = "zeroLength"
  <2>1. Fresh(o) /\ o.packet = d.packet
    BY <1>5 DEF Fresh, SameEP0, SameReceiver
  <2> QED BY <2>1, VerdictReplies DEF Stalled, Acked, Reply
<1> HIDE DEF none, armed, Same
<1>6. SameEP0(d, torn) /\ SameEP0(d, none) /\ SameEP0(d, armed) /\ SameEP0(d, d)
  BY <1>1, <1>2, <1>3 DEF Same
<1> QED BY <1>1, <1>2, <1>3, <1>4, <1>5, <1>6

LEMMA StandardReplies ==
  ASSUME NEW d, Sound(d), Fresh(d), NEW altOk,
         IsSetAddress(d.packet) \/ IsSetConfiguration(d.packet)
           => d.packet.length = 0
  PROVE  LET r == HandleStandardRequest(d, altOk)
         IN  /\ Replies(d.packet, r) /\ SameEP0(d, r.dev)
             /\ r.response = "unhandled" => r.dev = d /\ ~Own(d.packet)
<1> DEFINE p == d.packet
           r == HandleStandardRequest(d, altOk)
           Good(q) == /\ Replies(p, q) /\ SameEP0(d, q.dev)
                      /\ q.response # "unhandled"
<1>1. Good(Stalled(d))
  BY VerdictReplies DEF Stalled, Reply, SameEP0, SameReceiver
<1>2. ASSUME p.dir = "in", NEW object, NEW size, object # NullPtr,
             object = Asked(p), size \in Extent(object)
      PROVE  Good(Reply(d, "data", object, size))
  BY <1>2, ObjectReplies DEF Reply, SameEP0, SameReceiver
<1>3. CASE p.type # "standard"
  <2>1. r = Unhandled(d)
    BY <1>3 DEF HandleStandardRequest
  <2> QED BY <1>3, <2>1, VerdictReplies
          DEF Unhandled, Reply, Own, SameEP0, SameReceiver
<1>4. CASE p.type = "standard" /\ p.request = "other"
  <2>1. r = Unhandled(d)
    BY <1>4 DEF HandleStandardRequest
  <2> QED BY <1>4, <2>1, VerdictReplies
          DEF Unhandled, Reply, Own, SameEP0, SameReceiver
<1>5. CASE p.type = "standard" /\ p.request \in {"setDescriptor", "syncFrame",
                                                 "setFeature", "clearFeature"}
  <2>1. r = Stalled(d)
    BY <1>5 DEF HandleStandardRequest
  <2> QED BY <1>1, <2>1
<1>6. CASE p.type = "standard" /\ p.request = "getDescriptor"
  <2>1. r = HandleGetDescriptor(d)
    BY <1>6 DEF HandleStandardRequest
  <2>2. SameEP0(d, r.dev)
    <3> DEFINE same(q) == SameEP0(d, q.dev)
    <3>1. ASSUME NEW o, NEW n PROVE same(Reply(d, "data", o, n))
      BY DEF SameEP0, SameReceiver, Reply
    <3>2. ASSUME NEW o, NEW n PROVE same(MultiPart(d, o, n))
      BY DEF SameEP0, SameReceiver, MultiPart, Reply, Sound, Devices
    <3>3. same(Stalled(d)) /\ same(Unhandled(d))
      BY DEF SameEP0, SameReceiver, Stalled, Unhandled, Reply
    <3> DEFINE index == p.value % 256
    <3> HIDE DEF same
    <3>4. /\ same(Reply(d, "data", <<"deviceDescriptor", 0>>, 18))
          /\ same(Reply(d, "data", <<"interfaceDescriptor", index>>, 9))
          /\ same(Reply(d, "data", <<"endpointDescriptor", index>>, 7))
          /\ same(Reply(d, "data", <<"langID", 0>>, 4))
      BY <3>1
    <3>5. /\ same(MultiPart(d, <<"configDescriptor", index>>, ConfigLength[index]))
          /\ same(MultiPart(d, <<"string", index>>, StringLength[index]))
      BY <3>2
    <3>6. same(HandleGetDescriptor(d))
      BY <3>3, <3>4, <3>5, Zenon DEF HandleGetDescriptor, index
    <3> QED BY <2>1, <3>6 DEF same
  <2>3. r.response = "unhandled" => r = Unhandled(d) /\ ~Own(p)
    BY <1>6, <2>1, GetDescriptorReplies
  <2> QED BY <1>6, <2>1, <2>2, <2>3, GetDescriptorReplies DEF Unhandled, Reply
<1>7. CASE p.type = "standard" /\ p.request = "setAddress"
  <2> DEFINE e == [d EXCEPT !.usbState = "addressing", !.setupCallback = "address"]
  <2>1. r = HandleSetAddress(d) /\ p.length = 0
    BY <1>7 DEF HandleStandardRequest, IsSetAddress
  <2>2. SameEP0(d, e) /\ e.in = d.in
    BY DEF SameEP0, SameReceiver, Sound, Devices
  <2>3. Fresh(e) /\ e.packet = p
    BY <2>2 DEF Fresh, SameEP0, SameReceiver
  <2>4. r \in {Stalled(d), Acked(e)}
    BY <2>1 DEF HandleSetAddress
  <2> HIDE DEF e
  <2>5. Good(Acked(e))
    BY <2>1, <2>2, <2>3, VerdictReplies DEF Acked, Reply
  <2> HIDE DEF Good, r
  <2>6. Good(r)
    BY <1>1, <2>4, <2>5
  <2> QED BY <2>6 DEF Good, r
<1>8. CASE p.type = "standard" /\ p.request = "setConfiguration"
  <2>1. r = HandleSetConfiguration(d) /\ p.length = 0
    BY <1>8 DEF HandleStandardRequest, IsSetConfiguration
  <2> QED BY <2>1, SetConfigurationVerdict
<1>9. CASE p.type = "standard" /\ p.request = "getStatus"
  <2>1. r = HandleGetStatus(d) /\ Asked(p) = <<"statusResponse", 0>>
    BY <1>9 DEF HandleStandardRequest, Asked
  <2>2. <<"statusResponse", 0>> # NullPtr /\ 2 \in Extent(<<"statusResponse", 0>>)
    BY Extents DEF NullPtr
  <2> HIDE DEF Good
  <2>3. Good(r)
    BY <1>1, <1>2, <2>1, <2>2 DEF HandleGetStatus
  <2> QED BY <2>3 DEF Good
<1>10. CASE p.type = "standard" /\ p.request = "getConfiguration"
  <2>1. r = HandleGetConfiguration(d) /\ Asked(p) = <<"activeConfig", 0>>
    BY <1>10 DEF HandleStandardRequest, Asked
  <2>2. <<"activeConfig", 0>> # NullPtr /\ 1 \in Extent(<<"activeConfig", 0>>)
    BY Extents DEF NullPtr
  <2> HIDE DEF Good
  <2>3. Good(r)
    BY <1>1, <1>2, <2>1, <2>2 DEF HandleGetConfiguration
  <2> QED BY <2>3 DEF Good
<1>11. CASE p.type = "standard" /\ p.request = "getInterface"
  <2> DEFINE object == <<"alternateMode", p.index>>
  <2>1. r = HandleGetInterface(d) /\ Asked(p) = object
    BY <1>11 DEF HandleStandardRequest, Asked
  <2>2. object # NullPtr /\ 1 \in Extent(object)
    BY Extents DEF NullPtr
  <2> HIDE DEF Good
  <2>3. Good(r)
    BY <1>1, <1>2, <2>1, <2>2 DEF HandleGetInterface
  <2> QED BY <2>3 DEF Good
<1>12. CASE p.type = "standard" /\ p.request = "setInterface"
  <2> DEFINE mode == [d EXCEPT !.alternateModes[d.activeConfig][p.index] = p.value]
  <2>1. r = HandleSetInterface(d, altOk)
    BY <1>12 DEF HandleStandardRequest
  <2>2. SameEP0(d, mode) /\ mode.in = d.in
    BY DEF SameEP0, SameReceiver, Sound, Devices
  <2>3. Fresh(mode) /\ mode.packet = p
    BY <2>2 DEF Fresh, SameEP0, SameReceiver
  <2>4. r \in {Stalled(d), Stalled(mode)} \/ (p.length = 0 /\ r = Acked(mode))
    BY <2>1 DEF HandleSetInterface
  <2> HIDE DEF mode
  <2>5. Good(Stalled(mode)) /\ (p.length = 0 => Good(Acked(mode)))
    BY <2>2, <2>3, VerdictReplies DEF Stalled, Acked, Reply
  <2> HIDE DEF Good, r
  <2>6. Good(r)
    BY <1>1, <2>4, <2>5
  <2> QED BY <2>6 DEF Good, r
<1>13. p.request \in
         {"getStatus", "clearFeature", "setFeature", "setAddress",
          "getDescriptor", "setDescriptor", "getConfiguration",
          "setConfiguration", "getInterface", "setInterface", "syncFrame",
          "other"}
  BY Fields DEF SetupPackets
<1> QED BY <1>3, <1>4, <1>5, <1>6, <1>7, <1>8, <1>9, <1>10, <1>11, <1>12, <1>13

\* Data read as a request is refused, whatever it asks for.
LEMMA InertRefused ==
  ASSUME NEW d, Sound(d), Inert(d.packet), NEW altOk
  PROVE  HandleStandardRequest(d, altOk) = Stalled(d)
<1>1. /\ d.packet.type = "standard" /\ d.packet.dir = "out"
      /\ d.packet.request \in
           {"getStatus", "clearFeature", "setFeature", "getDescriptor",
            "setDescriptor", "getConfiguration", "getInterface", "syncFrame"}
  BY Fields DEF Inert, SetupPackets
<1>2. HandleGetDescriptor(d) = Stalled(d)
  BY <1>1, Zenon DEF HandleGetDescriptor
<1>3. /\ HandleGetStatus(d) = Stalled(d) /\ HandleGetConfiguration(d) = Stalled(d)
      /\ HandleGetInterface(d) = Stalled(d)
  BY <1>1 DEF HandleGetStatus, HandleGetConfiguration, HandleGetInterface
<1> QED BY <1>1, <1>2, <1>3 DEF HandleStandardRequest

LEMMA DriverReplies ==
  ASSUME Mannerly, NEW d, Sound(d), Fresh(d), WellFormed(d.packet),
         ~Own(d.packet), NEW ans \in ClassAnswers[d.packet.dir]
  PROVE  LET r == ClassRequest(d, ans)
         IN  Replies(d.packet, r) /\ r.dev.packet = d.packet /\ r.dev.hw = d.hw
<1> DEFINE p    == d.packet
           arms == ans.arm /\ p.length # 0
           b    == [d.out EXCEPT
                      !.needsArming   = d.out.needsArming \/ arms,
                      !.transferCount = IF arms THEN p.length
                                        ELSE d.out.transferCount]
           c    == IF ans.callback THEN "class" ELSE d.setupCallback
           e    == [d EXCEPT !.setupCallback = c, !.out = b]
           r    == ClassRequest(d, ans)
<1>1. p.dir \in {"in", "out"} /\ Behaves(p.dir, ans)
  <2>1. p.dir \in {"in", "out"}
    BY Fields DEF SetupPackets
  <2> QED BY <2>1 DEF Mannerly
<1>2. /\ b.needsArming <=> arms
      /\ arms => b.transferCount = p.length
  BY Fields DEF EpOut, Fresh
<1>3. r = Reply(e, ans.response, ans.data, ans.size)
  BY DEF ClassRequest
<1> HIDE DEF b, c
<1>4. e.out = b /\ e.in = d.in /\ e.packet = p /\ e.hw = d.hw
  BY DEF Sound, Devices
<1> HIDE DEF e
<1>5. ~e.in.isMultiPart
  BY <1>4 DEF Fresh
<1>6. CASE ans.response \in {"stall", "unhandled"} /\ ~ans.arm
  BY <1>2, <1>3, <1>4, <1>5, <1>6 DEF Replies, Reply
<1>7. CASE /\ p.dir = "in" /\ ~ans.arm /\ ans.response = "data"
           /\ ans.data = <<"classData", 0>>
  <2>1. ans.data # NullPtr
    BY <1>7 DEF NullPtr
  <2>2. p.length # 0 => Asked(p) = ans.data
    BY <1>7, Zenon DEF WellFormed, Asked
  <2>3. ans.size \in Extent(ans.data)
    BY <1>7, Extents
  <2> QED BY <1>2, <1>3, <1>4, <1>5, <1>7, <2>1, <2>2, <2>3 DEF Replies, Reply
<1>8. CASE p.dir = "out" /\ ans.arm /\ ans.response = "zeroLength"
  BY <1>2, <1>3, <1>4, <1>5, <1>8 DEF Replies, Reply
<1>9. r.dev.packet = p /\ r.dev.hw = d.hw
  BY <1>3, <1>4 DEF Reply
<1> QED BY <1>1, <1>6, <1>7, <1>8, <1>9 DEF Behaves

-----------------------------------------------------------------------------
(* What a request does to the address and to the configuration.            *)

\* No configuration runs: its endpoints are off, its handlers down.
Down(d) == d.hw.eps = 0 /\ d.activeConfig \notin d.handlersUp

\* What the request p makes of d, and whether EP0 is told to acknowledge it:
\* only SET_ADDRESS sends the device to a new address, only SET_CONFIGURATION
\* to a new configuration, and only when they are acknowledged.
Effects(p, d, o, acked) ==
  /\ o.hw.addr = d.hw.addr /\ o.hw.enabled = d.hw.enabled
  /\ ~IsSetConfiguration(p) => SameConfig(d, o)
  /\ IsSetConfiguration(p) =>
       /\ o.usbState \in {d.usbState, "addressed"}
       /\ o.setupCallback = d.setupCallback
       /\ acked /\ p.value % 256 # 0 => Chosen(o) /\ o.activeConfig = p.value % 256
       /\ acked /\ p.value % 256 = 0 => Down(o)
       /\ ~acked => SameConfig(d, o) \/ Down(o)
  /\ IsSetAddress(p) =>
       IF acked THEN o.usbState = "addressing" /\ o.setupCallback = "address"
       ELSE o.usbState = d.usbState /\ o.setupCallback = d.setupCallback
  /\ ~IsSetAddress(p) /\ ~IsSetConfiguration(p) =>
       /\ o.usbState = d.usbState
       /\ d.activeConfig = 0 => o.setupCallback = d.setupCallback

LEMMA SetAddressEffects ==
  ASSUME NEW d, Sound(d), IsSetAddress(d.packet)
  PROVE  LET r == HandleSetAddress(d)
         IN  /\ Effects(d.packet, d, r.dev, r.response = "zeroLength")
             /\ r.response \in {"stall", "zeroLength"}
<1> DEFINE e == [d EXCEPT !.usbState = "addressing", !.setupCallback = "address"]
           r == HandleSetAddress(d)
<1>1. r = Acked(e) \/ r = Stalled(d)
  BY DEF HandleSetAddress
<1>2. /\ e.hw = d.hw /\ SameConfig(d, e)
      /\ e.usbState = "addressing" /\ e.setupCallback = "address"
  BY DEF SameConfig, Sound, Devices
<1>3. ~IsSetConfiguration(d.packet)
  BY DEF IsSetAddress, IsSetConfiguration
<1> HIDE DEF e
<1>4. CASE r = Acked(e)
  BY <1>2, <1>3, <1>4 DEF Acked, Reply, Effects
<1>5. CASE r = Stalled(d)
  BY <1>3, <1>5 DEF Stalled, Reply, Effects, SameConfig
<1> QED BY <1>1, <1>4, <1>5

LEMMA SetConfigurationEffects ==
  ASSUME NEW d, Sound(d), IsSetConfiguration(d.packet)
  PROVE  LET r == HandleSetConfiguration(d)
         IN  /\ Effects(d.packet, d, r.dev, r.response = "zeroLength")
             /\ r.response \in {"stall", "zeroLength"}
<1> DEFINE config == d.packet.value % 256
           torn   == DeinitHandlers(ResetEPs(d, "user"))
           chosen == [torn EXCEPT !.activeConfig = config]
           none   == [chosen EXCEPT !.usbState = "addressed"]
           ready  == [chosen EXCEPT !.hw.eps = config]
           up     == InitHandlers(ready)
           r      == HandleSetConfiguration(d)
           Same(o) == /\ o.hw.addr = d.hw.addr /\ o.hw.enabled = d.hw.enabled
                      /\ o.setupCallback = d.setupCallback
<1>1. Sound(torn) /\ Same(torn) /\ torn.usbState = d.usbState /\ Down(torn)
  <2>1. Sound(torn)
    BY ResetEPsSound, DeinitHandlersSound DEF Quiet
  <2>2. Same(torn) /\ torn.usbState = d.usbState /\ torn.hw.eps = 0
    BY DEF DeinitHandlers, ResetEPs, Sound, Devices, Registers
  <2>3. torn.activeConfig \notin torn.handlersUp
    BY DEF DeinitHandlers, ResetEPs, Sound, Devices
  <2> QED BY <2>1, <2>2, <2>3 DEF Down
<1> HIDE DEF config, torn
<1>2. Same(none) /\ none.usbState = "addressed" /\ (config = 0 => Down(none))
  <2>1. /\ Same(none) /\ none.usbState = "addressed" /\ none.hw.eps = 0
        /\ none.activeConfig = config /\ none.handlersUp = torn.handlersUp
    BY <1>1 DEF Sound, Devices, Down
  <2>2. 0 \notin torn.handlersUp
    BY <1>1 DEF Sound, Devices
  <2> QED BY <2>1, <2>2 DEF Down
<1>3. Same(up) /\ up.usbState = d.usbState
  BY <1>1 DEF InitHandlers, Sound, Devices, Registers, Down
<1>4. config # 0 => Chosen(up) /\ up.activeConfig = config
  BY <1>1 DEF InitHandlers, Chosen, Up, Sound, Devices, Registers, Down
<1>5. \/ r = Stalled(d) \/ r = Stalled(torn)
      \/ config = 0 /\ r = Acked(none)
      \/ config # 0 /\ r = Acked(up)
  BY DEF HandleSetConfiguration, config, torn
<1>6. ~IsSetAddress(d.packet)
  BY DEF IsSetAddress, IsSetConfiguration
<1> HIDE DEF none, up
<1>7. CASE r = Stalled(d) \/ r = Stalled(torn)
  BY <1>1, <1>6, <1>7 DEF Stalled, Reply, Effects, SameConfig
<1>8. CASE config = 0 /\ r = Acked(none)
  BY <1>2, <1>6, <1>8 DEF Acked, Reply, Effects, config
<1>9. CASE config # 0 /\ r = Acked(up)
  BY <1>3, <1>4, <1>6, <1>9 DEF Acked, Reply, Effects, config
<1> QED BY <1>5, <1>7, <1>8, <1>9

LEMMA OtherEffects ==
  ASSUME NEW d, Sound(d), NEW altOk, NEW acked,
         ~IsSetAddress(d.packet), ~IsSetConfiguration(d.packet)
  PROVE  LET o == HandleStandardRequest(d, altOk).dev
         IN  Effects(d.packet, d, o, acked) /\ o.setupCallback = d.setupCallback
<1> DEFINE mode == [d EXCEPT !.alternateModes[d.activeConfig][d.packet.index]
                               = d.packet.value]
           Kept(r) == Keeps(d, r.dev) /\ r.dev.setupCallback = d.setupCallback
           r == HandleStandardRequest(d, altOk)
<1>1. Kept(Stalled(d)) /\ Kept(Unhandled(d))
  BY VerdictsKeep DEF Stalled, Unhandled, Reply
<1>2. Kept(HandleGetDescriptor(d))
  <2> DEFINE index == d.packet.value % 256
             Same(q) == q.dev.setupCallback = d.setupCallback
  <2>1. ASSUME NEW o, NEW n PROVE Same(Reply(d, "data", o, n))
    BY DEF Reply
  <2>2. ASSUME NEW o, NEW n PROVE Same(MultiPart(d, o, n))
    BY DEF MultiPart, Reply, Sound, Devices
  <2>3. Same(Stalled(d)) /\ Same(Unhandled(d))
    BY <1>1
  <2> HIDE DEF Same
  <2>4. /\ Same(Reply(d, "data", <<"deviceDescriptor", 0>>, 18))
        /\ Same(Reply(d, "data", <<"interfaceDescriptor", index>>, 9))
        /\ Same(Reply(d, "data", <<"endpointDescriptor", index>>, 7))
        /\ Same(Reply(d, "data", <<"langID", 0>>, 4))
    BY <2>1
  <2>5. /\ Same(MultiPart(d, <<"configDescriptor", index>>, ConfigLength[index]))
        /\ Same(MultiPart(d, <<"string", index>>, StringLength[index]))
    BY <2>2
  <2>6. Same(HandleGetDescriptor(d))
    BY <2>3, <2>4, <2>5, Zenon DEF HandleGetDescriptor, index
  <2> QED BY <2>6, GetDescriptorKeeps DEF Same
<1>3. ASSUME NEW o, NEW n PROVE Kept(Reply(d, "data", o, n))
  BY DEF Keeps, Untouched, SameConfig, SameAddress, Reply
<1>4. Kept(Stalled(mode)) /\ Kept(Acked(mode))
  BY DEF Keeps, Untouched, SameConfig, SameAddress, Stalled, Acked, Reply,
         Sound, Devices
<1> HIDE DEF Kept, mode
<1>5. /\ Kept(HandleGetStatus(d)) /\ Kept(HandleGetConfiguration(d))
      /\ Kept(HandleGetInterface(d))
  BY <1>1, <1>3 DEF HandleGetStatus, HandleGetConfiguration, HandleGetInterface
<1>6. Kept(HandleSetInterface(d, altOk))
  BY <1>1, <1>4 DEF HandleSetInterface, mode
<1>7. Kept(r)
  <2>1. d.packet.request \in
          {"getStatus", "clearFeature", "setFeature", "setAddress",
           "getDescriptor", "setDescriptor", "getConfiguration",
           "setConfiguration", "getInterface", "setInterface", "syncFrame",
           "other"}
    BY Fields DEF SetupPackets
  <2> QED BY <1>1, <1>2, <1>5, <1>6, <2>1
          DEF HandleStandardRequest, IsSetAddress, IsSetConfiguration
<1> QED BY <1>7 DEF Kept, Effects, Keeps, SameConfig, SameAddress

-----------------------------------------------------------------------------
(* What EP0 does once a setup packet has been read.                        *)

\* The first packet of a table or an object of which count bytes are sent.
Begins(o, object, count) ==
  LET len  == Least(count, epBufferSize)
      left == count - len
  IN  /\ o.hw.tx = "valid" /\ o.hw.txData.len = len
      /\ o.hw.txData.obj = object /\ o.hw.txData.off = 0
      /\ o.in.transferCount = left
      /\ o.in.memBuffer.obj = object /\ o.in.memBuffer.off = len
      /\ o.in.isMultiPart =>
           /\ o.in.partsData = object /\ left # 0
           /\ object[1] \in {"configDescriptor", "string"}
      /\ o.usbCtrlState = IF left = 0 THEN "statusRX" ELSE "dataTX"

\* What becomes of the request p in a device whose transmit half was in state tx.
Outcome(p, tx, o) ==
  \/ o.hw.tx = "stall" /\ o.usbCtrlState = "idle" /\ ~o.in.isMultiPart
  \/ /\ p.length = 0 /\ o.hw.tx = "valid" /\ o.hw.txData.len = 0
     /\ o.usbCtrlState = "statusRX" /\ ~o.in.isMultiPart
  \/ /\ p.length # 0 /\ p.dir = "out" /\ o.hw.tx = tx /\ o.usbCtrlState = "dataRX"
     /\ o.in.transferCount = 0 /\ o.out.transferCount = p.length
     /\ ~o.in.isMultiPart
  \/ /\ p.length # 0 /\ p.dir = "in"
     /\ \E size \in Extent(Asked(p)) \cap Nat :
          Begins(o, Asked(p), Least(size, p.length))

LEMMA ReplySent ==
  ASSUME NEW r, SoundReply(r), Replies(r.dev.packet, r)
  PROVE  Outcome(r.dev.packet, r.dev.hw.tx, CompleteSetupPacket(ArmReply(r)))
<1> DEFINE d == r.dev
           p == d.packet
           o == CompleteSetupPacket(ArmReply(r))
           object == IF d.in.isMultiPart THEN d.in.partsData ELSE r.data
<1>1. CASE /\ r.response \in {"stall", "unhandled"}
           /\ ~d.in.isMultiPart /\ ~d.out.needsArming
  BY <1>1, RefusalSent DEF Outcome
<1>2. CASE /\ r.response = "zeroLength" /\ ~d.in.isMultiPart
           /\ ~d.out.needsArming /\ p.length = 0
  BY <1>2, AcknowledgementSent DEF Outcome
<1>3. CASE /\ r.response = "zeroLength" /\ ~d.in.isMultiPart
           /\ d.out.needsArming /\ p.dir = "out" /\ p.length # 0
           /\ d.out.transferCount = p.length
  <2>1. o.out = d.out
    <3>1. Sound(ArmReply(r)) /\ ArmReply(r).out = d.out
      BY ArmReplySound, ArmReplyArms
    <3> HIDE DEF d
    <3> QED BY <3>1, CompleteCompletes
  <2> QED BY <1>3, <2>1, ReceiverArmed DEF Outcome
<1>4. CASE /\ r.response = "data" /\ p.dir = "in"
           /\ d.in.isMultiPart <=> r.data = NullPtr
           /\ p.length # 0 => object = Asked(p) /\ r.size \in Extent(object)
           /\ d.in.isMultiPart => object[1] \in {"configDescriptor", "string"}
  <2>1. /\ d.in.isMultiPart \in BOOLEAN
        /\ p.length \in Nat /\ epBufferSize \in Nat /\ r.size \in Nat
    <3>1. d.in \in EpIn /\ p \in SetupPackets /\ r.size \in Word
      BY Fields DEF SoundReply
    <3>2. epBufferSize \in Nat
      BY BuildOptions DEF BuildOptions
    <3> QED BY <3>1, <3>2, Words DEF EpIn, SetupPackets
  <2>2. Begins(o, object, Least(r.size, p.length))
        /\ (o.in.isMultiPart => d.in.isMultiPart)
    <3> DEFINE count == Least(r.size, p.length)
               len   == Least(count, epBufferSize)
    <3>1. /\ o.hw.tx = "valid" /\ o.hw.txData.len = len
          /\ o.hw.txData.obj = object /\ o.hw.txData.off = 0
          /\ o.in.transferCount = count - len
          /\ o.in.memBuffer.obj = object /\ o.in.memBuffer.off = len
          /\ o.in.isMultiPart = (d.in.isMultiPart /\ count - len # 0)
          /\ o.in.partsData = d.in.partsData
          /\ o.usbCtrlState = IF count - len = 0 THEN "statusRX" ELSE "dataTX"
      BY <1>4, AnswerSent
    <3> HIDE DEF len, count, o
    <3>2. o.in.isMultiPart =>
            d.in.isMultiPart /\ o.in.partsData = object /\ count - len # 0
      BY <2>1, <3>1
    <3>3. o.in.isMultiPart => object[1] \in {"configDescriptor", "string"}
      BY <1>4, <3>2
    <3> QED BY <3>1, <3>2, <3>3 DEF Begins, len, count
  <2>3. CASE p.length # 0
    <3>1. object = Asked(p) /\ r.size \in Extent(object) \cap Nat
      BY <1>4, <2>1, <2>3
    <3> HIDE DEF object, o, d, p
    <3> QED BY <1>4, <2>2, <2>3, <3>1 DEF Outcome, d, p, o
  <2>4. CASE p.length = 0
    <3>1. Least(r.size, 0) = 0 /\ Least(0, epBufferSize) = 0
      BY <2>1 DEF Least
    <3> HIDE DEF object, o
    <3>2. Begins(o, object, 0)
      BY <2>2, <2>4, <3>1
    <3>3. o.in.isMultiPart \in BOOLEAN
      <4>1. Sound(o)
        BY ArmReplySound, CompleteSetupPacketSound DEF o
      <4> QED BY <4>1, Fields DEF EpIn
    <3>4. /\ o.hw.tx = "valid" /\ o.hw.txData.len = 0
          /\ o.usbCtrlState = "statusRX" /\ ~o.in.isMultiPart
      BY <3>1, <3>2, <3>3 DEF Begins
    <3> QED BY <2>4, <3>4 DEF Outcome, o
  <2> QED BY <2>3, <2>4
<1>5. d.in.isMultiPart \in BOOLEAN /\ d.out.needsArming \in BOOLEAN
  BY Fields DEF SoundReply, EpIn, EpOut
<1> HIDE DEF o
<1> QED BY <1>1, <1>2, <1>3, <1>4, <1>5 DEF Replies, o

\* EP0 with a setup packet read, or with what there was of one.
LEMMA SetupRead ==
  ASSUME NEW d, Sound(d), NEW rx \in RxPackets
  PROVE  LET read  == ReadSetup(d, rx)
             fresh == FreshReply(read)
         IN  /\ Sound(read) /\ Keeps(d, read) /\ SameSender(d, read)
             /\ read.setupCallback = d.setupCallback
             /\ read.usbCtrlState = d.usbCtrlState /\ read.hw.rx = "valid"
             /\ IF rx.count >= 8
                THEN read.out.transferCount = 0 /\ read.packet = rx.data
                ELSE read.out.transferCount # 0
             /\ Sound(fresh) /\ Keeps(d, fresh)
             /\ fresh.packet = read.packet /\ fresh.hw = read.hw
             /\ fresh.setupCallback = d.setupCallback
             /\ fresh.in.isMultiPart = d.in.isMultiPart
             /\ ~fresh.out.needsArming
<1> DEFINE read  == ReadSetup(d, rx)
           fresh == FreshReply(read)
           b  == [d.out EXCEPT !.transferCount = 8]
           p  == Overlay(d.packet, rx.data, Least(rx.count, 8))
           e1 == [d EXCEPT !.out = b]
           e2 == [e1 EXCEPT !.packet = p]
<1>1. rx.data \in SetupPackets /\ rx.count \in Nat /\ d.packet \in SetupPackets
  BY Fields, Words DEF RxPackets
<1>2. p \in SetupPackets
  <2>1. Least(rx.count, 8) \in Int
    BY <1>1, LeastIsLeast
  <2> QED BY <1>1, <2>1, OverlayTyped
<1>3. b \in EpOut /\ b.transferCount = 8
  <2>1. 8 \in Word
    BY Words DEF UINT16_MAX
  <2> QED BY <2>1, Fields DEF EpOut
<1> HIDE DEF b, p
<1>4. /\ Sound(e2) /\ SameSender(d, e2) /\ e2.out = b
      /\ e2.setupCallback = d.setupCallback /\ e2.usbCtrlState = d.usbCtrlState
  <2>1. Sound(e2)
    BY <1>2, <1>3, SetOut, SetPacket
  <2>2. /\ SameSender(d, e2) /\ e2.out = b
        /\ e2.setupCallback = d.setupCallback /\ e2.usbCtrlState = d.usbCtrlState
    BY DEF SameSender, Sound, Devices
  <2> QED BY <2>1, <2>2
<1>5. read = ReadEP(e2, rx.count)
  BY DEF ReadSetup, e2, e1, b, p
<1> HIDE DEF e2
<1>6. /\ SameSender(d, read) /\ read.setupCallback = d.setupCallback
      /\ read.usbCtrlState = d.usbCtrlState /\ read.hw.rx = "valid"
      /\ read.out.transferCount = 8 - Least(rx.count, 8)
  BY <1>3, <1>4, <1>5, ReadEPReads DEF SameSender
<1>7. IF rx.count >= 8 THEN 8 - Least(rx.count, 8) = 0
      ELSE 8 - Least(rx.count, 8) # 0
  BY <1>1 DEF Least
<1>8. Sound(read) /\ Keeps(d, read)
      /\ (read.out.transferCount = 0 => read.packet = rx.data)
  BY ReadSetupSound, ReadSetupReads
<1> HIDE DEF read
<1>9. Sound(fresh) /\ Keeps(d, fresh)
  BY <1>8, FreshReplySound, KeepsBuffers, KeepsTogether, 0 \in Nat
<1>10. /\ fresh.packet = read.packet /\ fresh.hw = read.hw
       /\ fresh.setupCallback = read.setupCallback
       /\ fresh.in.isMultiPart = read.in.isMultiPart
       /\ ~fresh.out.needsArming
  BY <1>8 DEF FreshReply, Sound, Devices, EpIn
<1> QED BY <1>6, <1>7, <1>8, <1>9, <1>10 DEF SameSender, read, fresh

\* Less than a setup packet is refused, and the machinery left as it was.
LEMMA TruncatedSetup ==
  ASSUME NEW d, Sound(d), NEW rx \in RxPackets, rx.count < 8, NEW ans
  PROVE  LET o == HandleSetupPacket(d, rx, ans)
         IN  /\ Keeps(d, o) /\ o.hw.tx = "stall" /\ o.hw.rx = "valid"
             /\ o.usbCtrlState = d.usbCtrlState /\ o.in = d.in
             /\ o.setupCallback = d.setupCallback
<1> DEFINE read == ReadSetup(d, rx)
<1>1. ~(rx.count >= 8)
  BY Words DEF RxPackets
<1>2. /\ Sound(read) /\ Keeps(d, read) /\ SameSender(d, read)
      /\ read.setupCallback = d.setupCallback
      /\ read.usbCtrlState = d.usbCtrlState /\ read.hw.rx = "valid"
      /\ read.out.transferCount # 0
  BY <1>1, SetupRead
<1>3. HandleSetupPacket(d, rx, ans) = StallEP(read)
  BY <1>2 DEF HandleSetupPacket
<1> HIDE DEF read
<1>4. Keeps(d, StallEP(read))
  BY <1>2, KeepsBuffers, KeepsTogether, 0 \in Nat
<1> QED BY <1>2, <1>3, <1>4, StallEPStalls DEF SameReceiver, SameSender

\* A request that is read whole is answered as the device or a driver wants it.
LEMMA SetupOutcome ==
  ASSUME Mannerly, NEW d, Sound(d), ~d.in.isMultiPart,
         NEW rx \in RxPackets, rx.count >= 8, WellFormed(rx.data),
         NEW ans \in ClassAnswers[rx.data.dir]
  PROVE  LET o == HandleSetupPacket(d, rx, ans)
         IN  /\ o.packet = rx.data /\ o.hw.rx = "valid" /\ Untouched(d, o)
             /\ Outcome(rx.data, d.hw.tx, o)
             /\ Effects(rx.data, d, o, o.hw.tx = "valid")
<1> DEFINE p        == rx.data
           read     == ReadSetup(d, rx)
           fresh    == FreshReply(read)
           standard == HandleStandardRequest(fresh, ans.altOk)
           class    == ClassRequest(standard.dev, ans)
           reply    == IF standard.response = "unhandled"
                          /\ read.activeConfig # 0
                       THEN class ELSE standard
           o        == CompleteSetupPacket(ArmReply(reply))
<1>1. /\ read.out.transferCount = 0 /\ read.packet = p
      /\ Keeps(d, read) /\ read.hw.rx = "valid" /\ read.hw.tx = d.hw.tx
      /\ Sound(fresh) /\ Keeps(d, fresh) /\ fresh.packet = p
      /\ fresh.hw = read.hw /\ fresh.setupCallback = d.setupCallback
      /\ ~fresh.in.isMultiPart /\ ~fresh.out.needsArming
  BY SetupRead DEF SameSender
<1>2. HandleSetupPacket(d, rx, ans) = o
  <2>1. ~(read.out.transferCount # 0)
    BY <1>1
  <2> QED BY <2>1 DEF HandleSetupPacket
<1> HIDE DEF read, fresh
<1>3. IsSetAddress(p) \/ IsSetConfiguration(p) => p.length = 0
  BY DEF WellFormed
<1>4. ans \in Answers
  <2>1. p.dir \in {"in", "out"}
    BY DEF RxPackets, SetupPackets
  <2> QED BY <2>1, HostAssumption DEF HostAssumption
<1>5. /\ SoundReply(standard) /\ Replies(p, standard)
      /\ SameEP0(fresh, standard.dev) /\ Untouched(fresh, standard.dev)
      /\ standard.response = "unhandled" => standard.dev = fresh /\ ~Own(p)
  BY <1>1, <1>3, HandleStandardRequestSound, StandardReplies, StandardKeeps DEF Fresh
<1>6. /\ Effects(p, fresh, standard.dev, standard.response = "zeroLength")
      /\ IsSetAddress(p) \/ IsSetConfiguration(p)
           => standard.response \in {"stall", "zeroLength"}
  <2>1. CASE IsSetAddress(p)
    <3>1. standard = HandleSetAddress(fresh)
      BY <1>1, <2>1 DEF HandleStandardRequest, IsSetAddress
    <3> QED BY <1>1, <2>1, <3>1, SetAddressEffects
  <2>2. CASE IsSetConfiguration(p)
    <3>1. standard = HandleSetConfiguration(fresh)
      BY <1>1, <2>2 DEF HandleStandardRequest, IsSetConfiguration
    <3> QED BY <1>1, <2>2, <3>1, SetConfigurationEffects
  <2>3. CASE ~IsSetAddress(p) /\ ~IsSetConfiguration(p)
    BY <1>1, <2>3, OtherEffects
  <2> QED BY <2>1, <2>2, <2>3
<1> HIDE DEF standard
<1>7. /\ SoundReply(reply) /\ Replies(p, reply) /\ reply.dev.packet = p
      /\ reply.dev.hw.rx = "valid" /\ reply.dev.hw.tx = d.hw.tx
      /\ Untouched(fresh, reply.dev)
      /\ Effects(p, fresh, reply.dev, reply.response = "zeroLength")
      /\ IsSetAddress(p) \/ IsSetConfiguration(p)
           => reply.response \in {"stall", "zeroLength"}
  <2>1. CASE ~(standard.response = "unhandled" /\ read.activeConfig # 0)
    <3>1. reply = standard
      BY <2>1
    <3> HIDE DEF reply
    <3> QED BY <1>1, <1>5, <1>6, <3>1 DEF SameEP0, SameReceiver
  <2>2. CASE standard.response = "unhandled" /\ read.activeConfig # 0
    <3>1. standard.dev = fresh /\ ~Own(p)
          /\ ~IsSetAddress(p) /\ ~IsSetConfiguration(p)
      BY <1>5, <1>6, <2>2
    <3>2. fresh.activeConfig # 0
      BY <1>1, <2>2 DEF Keeps, SameConfig
    <3>3. /\ SoundReply(class) /\ Keeps(fresh, class.dev) /\ Replies(p, class)
          /\ class.dev.packet = p /\ class.dev.hw = fresh.hw
      BY <1>1, <1>4, <3>1, ClassRequestSound, ClassRequestKeeps, DriverReplies DEF Fresh
    <3>4. reply = class
      BY <2>2
    <3> HIDE DEF reply, class
    <3>5. Effects(p, fresh, class.dev, class.response = "zeroLength")
      BY <3>1, <3>2, <3>3 DEF Effects, Keeps, SameConfig, SameAddress
    <3> QED BY <1>1, <3>1, <3>3, <3>4, <3>5 DEF Keeps
  <2> QED BY <2>1, <2>2
<1> HIDE DEF reply
<1>8. /\ Keeps(reply.dev, o) /\ o.packet = p /\ o.hw.rx = "valid"
      /\ o.setupCallback = reply.dev.setupCallback
  <2> DEFINE a == ArmReply(reply)
  <2>1. /\ Sound(a) /\ Keeps(reply.dev, a) /\ a.packet = p /\ a.hw.rx = "valid"
        /\ a.setupCallback = reply.dev.setupCallback
    BY <1>7, ArmReplySound, ArmReplyKeeps, ArmReplyArms DEF SoundReply
  <2> HIDE DEF a
  <2> QED BY <2>1, CompleteCompletes, KeepsTogether DEF a
<1>9. Outcome(p, d.hw.tx, o)
  BY <1>7, ReplySent
<1>10. IsSetAddress(p) \/ IsSetConfiguration(p)
         => (o.hw.tx = "valid" <=> reply.response = "zeroLength")
  <2> SUFFICES ASSUME IsSetAddress(p) \/ IsSetConfiguration(p)
               PROVE  o.hw.tx = "valid" <=> reply.response = "zeroLength"
    OBVIOUS
  <2>1. CASE reply.response = "stall"
    BY <1>7, <2>1, RefusalSent DEF Replies
  <2>2. CASE reply.response = "zeroLength"
    <3>1. ~reply.dev.out.needsArming
      BY <1>3, <1>7, <2>2 DEF Replies
    <3> QED BY <1>7, <2>2, <3>1, AcknowledgementSent
  <2> QED BY <1>7, <2>1, <2>2
<1> HIDE DEF o
<1>11. Untouched(d, o)
  BY <1>1, <1>7, <1>8 DEF Keeps, Untouched
<1>12. Effects(p, d, o, o.hw.tx = "valid")
  BY <1>1, <1>7, <1>8, <1>10
     DEF Effects, Keeps, SameConfig, SameAddress, Chosen, Up, Down
<1> QED BY <1>2, <1>8, <1>9, <1>11, <1>12

\* An OUT packet taken for a setup packet is refused, and nothing is asked of
\* the device by it.
LEMMA RefusedSetup ==
  ASSUME NEW d, Sound(d), ~d.in.isMultiPart, d.usbCtrlState = "idle",
         NEW rx \in RxPackets, rx.count < 8 \/ Inert(rx.data), NEW ans
  PROVE  LET o == HandleSetupPacket(d, rx, ans)
         IN  /\ Keeps(d, o) /\ o.hw.tx = "stall" /\ o.hw.rx = "valid"
             /\ o.usbCtrlState = "idle" /\ ~o.in.isMultiPart
             /\ o.setupCallback = d.setupCallback
<1>1. CASE rx.count < 8
  BY <1>1, TruncatedSetup
<1>2. CASE ~(rx.count < 8)
  <2> DEFINE read  == ReadSetup(d, rx)
             fresh == FreshReply(read)
             reply == Stalled(fresh)
             a     == ArmReply(reply)
             o     == CompleteSetupPacket(a)
  <2>1. rx.count >= 8
    BY <1>2, Words DEF RxPackets
  <2>2. /\ read.out.transferCount = 0 /\ read.packet = rx.data
        /\ read.hw.rx = "valid"
        /\ Sound(fresh) /\ Keeps(d, fresh) /\ fresh.packet = rx.data
        /\ fresh.hw = read.hw /\ fresh.setupCallback = d.setupCallback
        /\ ~fresh.in.isMultiPart /\ ~fresh.out.needsArming
    BY <2>1, SetupRead
  <2>3. HandleSetupPacket(d, rx, ans) = o
    <3>1. ~(read.out.transferCount # 0)
      BY <2>2
    <3>2. HandleStandardRequest(fresh, ans.altOk) = reply
      BY <1>2, <2>2, InertRefused
    <3>3. ~(reply.response = "unhandled")
      BY DEF Stalled, Reply
    <3> QED BY <3>1, <3>2, <3>3 DEF HandleSetupPacket
  <2> HIDE DEF read, fresh
  <2>4. SoundReply(reply) /\ reply.dev = fresh /\ reply.response = "stall"
    BY <2>2, VerdictsSound DEF Stalled, Reply
  <2> HIDE DEF reply
  <2>5. o.hw.tx = "stall" /\ o.usbCtrlState = "idle" /\ ~o.in.isMultiPart
    BY <2>2, <2>4, RefusalSent
  <2>6. /\ Sound(a) /\ Keeps(fresh, a) /\ a.hw.rx = "valid"
        /\ a.setupCallback = d.setupCallback
    BY <2>2, <2>4, ArmReplySound, ArmReplyKeeps, ArmReplyArms
  <2> HIDE DEF a
  <2>7. Keeps(a, o) /\ o.setupCallback = a.setupCallback /\ o.hw.rx = a.hw.rx
    BY <2>6, CompleteCompletes
  <2> HIDE DEF o
  <2> QED BY <2>2, <2>3, <2>5, <2>6, <2>7, KeepsTogether
<1> QED BY <1>1, <1>2

-----------------------------------------------------------------------------
(* EP0 in the course of a transfer.                                        *)

Refused(d) == d.hw.tx = "stall" /\ d.usbCtrlState = "idle" /\ ~d.hw.txComplete

\* After h.got bytes n are left of what the host asked for or of what there is;
\* less than it asked for ends in a short packet.
Remaining(h, n) ==
  /\ \E size \in Extent(Asked(h.req)) \cap Nat :
       h.got + n = Least(size, h.req.length)
  /\ h.got + n = h.req.length \/ ~WholePackets(n)

\* The next packet of a read is ready; the rest of the object stands behind it.
Offered(d, h) ==
  LET len == d.hw.txData.len  left == d.in.transferCount
  IN  /\ d.hw.tx = "valid" /\ ~d.hw.txComplete
      /\ d.hw.txData.obj = Asked(h.req) /\ d.hw.txData.off = h.got
      /\ d.in.memBuffer.obj = Asked(h.req) /\ d.in.memBuffer.off = h.got + len
      /\ d.in.isMultiPart => d.in.partsData = Asked(h.req) /\ left # 0
      /\ len = Least(len + left, epBufferSize)
      /\ Remaining(h, len + left)
      /\ d.usbCtrlState = IF left = 0 THEN "statusRX" ELSE "dataTX"

\* It has been taken, and another has to follow.
Sent(d, h) ==
  /\ d.hw.tx = "nack" /\ d.hw.txComplete /\ d.usbCtrlState = "dataTX"
  /\ d.in.transferCount # 0 /\ Remaining(h, d.in.transferCount)
  /\ d.in.memBuffer.obj = Asked(h.req) /\ d.in.memBuffer.off = h.got
  /\ d.in.isMultiPart => d.in.partsData = Asked(h.req)

\* The rest of a write is awaited, or read in.
Armed(d, h) ==
  /\ d.hw.tx = "nack" /\ ~d.hw.txComplete /\ d.usbCtrlState = "dataRX"
  /\ d.in.transferCount = 0 /\ d.out.transferCount # 0
  /\ d.out.transferCount = h.req.length - h.got + d.hw.rxPacket.count

\* The empty packet of a status stage is ready.
Acking(d) ==
  /\ d.hw.tx = "valid" /\ ~d.hw.txComplete /\ d.hw.txData.len = 0
  /\ d.usbCtrlState \in {"statusTX", "statusRX"}

\* What the end of a transfer does to the address.
CalledBack(d, o) ==
  /\ SameConfig(d, o)
  /\ d.usbState # "addressing" => SameAddress(d, o)
  /\ d.usbState = "addressing" /\ d.setupCallback = "address" =>
       /\ o.hw.enabled
       /\ IF IsSetAddress(d.packet) /\ d.packet.value < 256
          THEN o.usbState = "addressed" /\ o.hw.addr = d.packet.value % 128
          ELSE o.usbState = "waiting" /\ o.hw.addr = 0

LEMMA PacketSize == epBufferSize \in Nat
BY BuildOptions DEF BuildOptions

\* The first packet of an answer is ready.
LEMMA AnswerOffered ==
  ASSUME NEW o, Sound(o), ~o.hw.txComplete, NEW h \in Hosts, h.got = 0,
         WellFormed(h.req), h.req.dir = "in", h.req.length # 0,
         NEW size \in Extent(Asked(h.req)) \cap Nat,
         Begins(o, Asked(h.req), Least(size, h.req.length))
  PROVE  Offered(o, h)
<1> DEFINE object == Asked(h.req)
           count  == Least(size, h.req.length)
           len    == Least(count, epBufferSize)
           left   == count - len
<1>1. h.req.length \in Nat /\ epBufferSize \in Nat /\ size \in Nat
  <2>1. h.req.length \in Word
    BY DEF Hosts, SetupPackets
  <2> QED BY <2>1, PacketSize, Words
<1>2. count \in Nat /\ len \in Nat
  <2>1. count \in Nat
    BY <1>1, LeastIsLeast
  <2> HIDE DEF count
  <2> QED BY <1>1, <2>1, LeastIsLeast
<1>3. Remaining(h, count)
  <2>1. count = h.req.length \/ (count = size /\ size < h.req.length)
    BY <1>1 DEF Least
  <2>2. size < h.req.length => ~WholePackets(size)
    BY DEF WellFormed
  <2>3. count = h.req.length \/ ~WholePackets(count)
    <3> HIDE DEF count
    <3> QED BY <2>1, <2>2
  <2>4. 0 + count = count
    <3> HIDE DEF count
    <3> QED BY <1>2
  <2> QED BY <2>3, <2>4 DEF Remaining
<1> HIDE DEF object, count, len
<1>4. len + left = count /\ 0 + len = len
  BY <1>2
<1> HIDE DEF left
<1>5. /\ o.hw.tx = "valid" /\ o.hw.txData.len = len
      /\ o.hw.txData.obj = object /\ o.hw.txData.off = 0
      /\ o.in.transferCount = left
      /\ o.in.memBuffer.obj = object /\ o.in.memBuffer.off = len
      /\ o.in.isMultiPart => o.in.partsData = object /\ left # 0
      /\ o.usbCtrlState = IF left = 0 THEN "statusRX" ELSE "dataTX"
  BY DEF Begins, object, count, len, left
<1>6. len = Least(len + left, epBufferSize)
  BY <1>4 DEF len
<1> QED BY <1>3, <1>4, <1>5, <1>6 DEF Offered, object

\* The end of a transfer runs the callback its request has left.
LEMMA TransferEnded ==
  ASSUME NEW d, Sound(d)
  PROVE  LET o == RunCallback([d EXCEPT !.usbCtrlState = "idle"])
         IN  /\ Sound(o) /\ Untouched(d, o) /\ CalledBack(d, o) /\ SameSender(d, o)
             /\ o.usbCtrlState = "idle" /\ o.hw.rx = d.hw.rx
             /\ o.packet = d.packet /\ o.out = d.out
<1> DEFINE e == [d EXCEPT !.usbCtrlState = "idle"]
           o == RunCallback(e)
<1>1. /\ Sound(e) /\ Keeps(d, e) /\ SameSender(d, e)
      /\ e.packet = d.packet /\ e.setupCallback = d.setupCallback
      /\ e.out = d.out /\ e.hw.rx = d.hw.rx /\ e.usbCtrlState = "idle"
  BY SetCtrlState, EntersState DEF CtrlStates
<1> HIDE DEF e
<1>2. /\ Sound(o) /\ Untouched(e, o) /\ SameConfig(e, o)
      /\ SameReceiver(e, o) /\ SameSender(e, o) /\ CalledBack(e, o)
  BY <1>1, RunCallbackSound, CallbackKeeps, CallbackRuns DEF CalledBack, IsSetAddress
<1> HIDE DEF o
<1>3. CalledBack(d, o)
  BY <1>1, <1>2 DEF CalledBack, Keeps, SameConfig, SameAddress
<1> QED BY <1>1, <1>2, <1>3 DEF Keeps, Untouched, SameReceiver, SameSender, o, e

LEMMA AskedIsThere ==
  ASSUME NEW r
  PROVE  Asked(r) # NullPtr
<1> DEFINE index == r.value % 256
           type  == DescriptorType(r)
<1>1. CASE r.type # "standard"
  BY <1>1, Zenon DEF Asked, NullPtr
<1>2. CASE r.type = "standard"
  <2>1. CASE r.request \in {"getStatus", "getConfiguration", "getInterface"}
    BY <1>2, <2>1 DEF Asked, NullPtr
  <2>2. CASE r.request \notin {"getStatus", "getConfiguration", "getInterface"}
    <3>1. Asked(r) =
            CASE type = "device" -> <<"deviceDescriptor", 0>>
              [] type = "configuration" -> <<"configDescriptor", index>>
              [] type = "interface" -> <<"interfaceDescriptor", index>>
              [] type = "endpoint" -> <<"endpointDescriptor", index>>
              [] type = "string" /\ index = 0 -> <<"langID", 0>>
              [] OTHER -> <<"string", index>>
      BY <1>2, <2>2, Zenon DEF Asked
    <3> HIDE DEF type, index
    <3>2. Asked(r) \in {<<"deviceDescriptor", 0>>, <<"configDescriptor", index>>,
                        <<"interfaceDescriptor", index>>,
                        <<"endpointDescriptor", index>>, <<"langID", 0>>,
                        <<"string", index>>}
      BY <3>1, Zenon
    <3> QED BY <3>2 DEF NullPtr
  <2> QED BY <2>1, <2>2
<1> QED BY <1>1, <1>2

\* A packet of a read has been taken: the next one follows it.
LEMMA NextPacketSent ==
  ASSUME NEW d, Sound(d), NEW h \in Hosts,
         d.usbCtrlState = "dataTX", ~d.hw.txComplete,
         d.in.transferCount # 0, Remaining(h, d.in.transferCount),
         d.in.memBuffer.obj = Asked(h.req), d.in.memBuffer.off = h.got,
         d.in.isMultiPart => d.in.partsData = Asked(h.req)
  PROVE  LET o == HandleControllerInPacket(d)
         IN  /\ Sound(o) /\ Keeps(d, o) /\ Offered(o, h)
             /\ o.packet = d.packet /\ o.setupCallback = d.setupCallback
             /\ o.hw.rx = d.hw.rx
             /\ o.in.isMultiPart => d.in.isMultiPart
<1> DEFINE w == WriteEP(d)
           o == HandleControllerInPacket(d)
           source == WriteSource(d.in)
           count  == d.in.transferCount
           len    == Least(count, epBufferSize)
           left   == count - len
<1>1. d.in \in EpIn /\ count \in Nat /\ epBufferSize \in Nat /\ h.got \in Nat
  <2>1. d.in \in EpIn
    BY Fields
  <2> QED BY <2>1, Words, PacketSize DEF EpIn, Hosts
<1>2. source = d.in.memBuffer
  <2>1. d.in.memBuffer.obj # NullPtr
    BY AskedIsThere
  <2> QED BY <2>1, Zenon DEF WriteSource
<1>3. /\ Sound(w) /\ Keeps(d, w) /\ SameReceiver(d, w)
      /\ w.setupCallback = d.setupCallback
      /\ w.hw.tx = "valid" /\ w.hw.txData.len = len
      /\ w.hw.txData.obj = source.obj /\ w.hw.txData.off = source.off
      /\ w.in.transferCount = left
      /\ w.in.memBuffer.obj = source.obj /\ w.in.memBuffer.off = source.off + len
      /\ w.in.isMultiPart = (d.in.isMultiPart /\ left # 0)
      /\ w.in.partsData = d.in.partsData
  BY WriteEPSound, KeepsWriteEP, WriteEPWrites
<1>4. o = IF w.in.transferCount = 0
          THEN [w EXCEPT !.usbCtrlState = "statusRX"] ELSE w
  BY DEF HandleControllerInPacket
<1> HIDE DEF w, o, source
<1>5. len \in Nat
  BY <1>1, LeastIsLeast
<1>6. len + left = count
  <2> HIDE DEF len, count
  <2> QED BY <1>1, <1>5
<1>7. len = Least(len + left, epBufferSize) /\ Remaining(h, len + left)
  BY <1>6
<1> HIDE DEF len, left, count
<1>8. /\ Sound(o) /\ Keeps(w, o) /\ SameSender(w, o)
      /\ o.packet = w.packet /\ o.setupCallback = w.setupCallback
      /\ o.hw.rx = w.hw.rx
      /\ o.usbCtrlState = IF left = 0 THEN "statusRX" ELSE "dataTX"
  <2>1. CASE left = 0
    <3>1. Sound(o)
      BY <1>3, <1>4, <2>1, SetCtrlState DEF CtrlStates
    <3>2. /\ Keeps(w, o) /\ SameSender(w, o)
          /\ o.packet = w.packet /\ o.setupCallback = w.setupCallback
          /\ o.hw.rx = w.hw.rx /\ o.usbCtrlState = "statusRX"
      BY <1>3, <1>4, <2>1, EntersState
    <3> QED BY <2>1, <3>1, <3>2
  <2>2. CASE left # 0
    BY <1>3, <1>4, <2>2 DEF SameReceiver, SameSender, Keeps, Untouched,
                            SameConfig, SameAddress
  <2> QED BY <2>1, <2>2
<1>9. o.in.isMultiPart => d.in.isMultiPart /\ left # 0
  BY <1>1, <1>3, <1>8 DEF SameSender, EpIn
<1>10. Offered(o, h)
  BY <1>2, <1>3, <1>7, <1>8, <1>9 DEF Offered, SameSender, Keeps, Untouched
<1> QED BY <1>3, <1>8, <1>9, <1>10, KeepsTogether DEF SameReceiver, o

\* So it is when nobody waits for it.
LEMMA PacketSentOn ==
  ASSUME NEW d, Sound(d), d.usbCtrlState = "dataTX", ~d.in.isMultiPart
  PROVE  LET o == HandleControllerInPacket(d)
         IN  /\ Keeps(d, o) /\ o.hw.rx = d.hw.rx /\ ~o.in.isMultiPart
             /\ o.usbCtrlState # "dataRX"
<1> DEFINE w == WriteEP(d)
           o == HandleControllerInPacket(d)
<1>1. /\ Sound(w) /\ Keeps(d, w) /\ SameReceiver(d, w) /\ ~w.in.isMultiPart
  BY WriteEPSound, KeepsWriteEP, WriteEPWrites
<1>2. o = IF w.in.transferCount = 0
          THEN [w EXCEPT !.usbCtrlState = "statusRX"] ELSE w
  BY DEF HandleControllerInPacket
<1> HIDE DEF w, o
<1>3. CASE w.in.transferCount = 0
  <2>1. /\ Keeps(w, o) /\ SameSender(w, o) /\ o.hw.rx = w.hw.rx
        /\ o.usbCtrlState = "statusRX"
    BY <1>1, <1>2, <1>3, EntersState
  <2> QED BY <1>1, <2>1, KeepsTogether DEF SameReceiver, SameSender, o
<1>4. CASE w.in.transferCount # 0
  BY <1>1, <1>2, <1>4 DEF SameReceiver, o
<1> QED BY <1>3, <1>4

\* A packet of a write is counted; the last one has its write acknowledged.
LEMMA DataRead ==
  ASSUME NEW d, Sound(d), d.usbCtrlState = "dataRX", ~d.in.isMultiPart,
         d.in.transferCount = 0,
         NEW rx \in RxPackets, rx.count <= d.out.transferCount, NEW ans
  PROVE  LET o == HandleControllerOutPacket(d, rx, ans)
         IN  /\ Untouched(d, o) /\ o.hw.rx = "valid" /\ o.packet = d.packet
             /\ ~o.in.isMultiPart
             /\ IF d.out.transferCount = rx.count
                THEN /\ CalledBack(d, o) /\ o.usbCtrlState = "statusTX"
                     /\ o.hw.tx = "valid" /\ o.hw.txData.len = 0
                ELSE /\ Keeps(d, o) /\ o.usbCtrlState = "dataRX"
                     /\ o.setupCallback = d.setupCallback
                     /\ o.hw.tx = d.hw.tx /\ o.in = d.in
                     /\ o.out.transferCount = d.out.transferCount - rx.count
<1> DEFINE read == ReadEP(d, rx.count)
           i    == [read.in EXCEPT !.needsArming = TRUE]
           arm  == [read EXCEPT !.in = i]
           ack  == [arm EXCEPT !.usbCtrlState = "statusTX"]
           full == WriteEP(ack)
           o    == HandleControllerOutPacket(d, rx, ans)
<1>1. rx.count \in Nat /\ d.out.transferCount \in Nat
  BY Fields, Words DEF RxPackets, EpOut
<1>2. d.out.transferCount - Least(rx.count, d.out.transferCount)
        = d.out.transferCount - rx.count
  BY <1>1 DEF Least
<1>3. /\ Sound(read) /\ Keeps(d, read) /\ SameSender(d, read)
      /\ read.setupCallback = d.setupCallback /\ read.packet = d.packet
      /\ read.usbCtrlState = "dataRX" /\ read.hw.rx = "valid"
      /\ read.out.transferCount = d.out.transferCount - rx.count
  BY <1>1, <1>2, ReadEPSound, KeepsBuffers, ReadEPReads
<1>4. o = IF read.out.transferCount = 0 THEN RunCallback(full) ELSE read
  BY DEF HandleControllerOutPacket
<1> HIDE DEF read, o
<1>5. /\ i \in EpIn /\ i.transferCount = 0 /\ ~i.isMultiPart
  BY <1>3, Fields DEF EpIn, SameSender
<1>6. /\ Sound(ack) /\ Keeps(read, ack) /\ ack.in = i
      /\ ack.setupCallback = d.setupCallback /\ ack.packet = d.packet
      /\ ack.usbCtrlState = "statusTX" /\ ack.hw.rx = "valid"
  <2> HIDE DEF i
  <2>1. Sound(arm)
    BY <1>3, <1>5, SetIn
  <2>2. /\ Keeps(read, arm) /\ arm.in = i /\ arm.hw = read.hw
        /\ arm.setupCallback = read.setupCallback /\ arm.packet = read.packet
    BY <1>3 DEF Keeps, Untouched, SameConfig, SameAddress, Sound, Devices
  <2> HIDE DEF arm
  <2>3. Sound(ack)
    BY <2>1, SetCtrlState DEF CtrlStates
  <2>4. /\ Keeps(arm, ack) /\ ack.in = arm.in /\ ack.hw.rx = arm.hw.rx
        /\ ack.setupCallback = arm.setupCallback /\ ack.packet = arm.packet
        /\ ack.usbCtrlState = "statusTX"
    BY <2>1, EntersState DEF SameSender
  <2> HIDE DEF ack
  <2> QED BY <1>3, <2>2, <2>3, <2>4, KeepsTogether
<1> HIDE DEF ack, i
<1>7. /\ Sound(full) /\ Keeps(ack, full) /\ SameReceiver(ack, full)
      /\ full.setupCallback = d.setupCallback
      /\ full.hw.tx = "valid" /\ full.hw.txData.len = 0
      /\ ~full.in.isMultiPart
  <2>1. Least(0, epBufferSize) = 0
    BY PacketSize DEF Least
  <2> QED BY <1>5, <1>6, <2>1, WriteEPSound, KeepsWriteEP, WriteEPWrites
<1> HIDE DEF full
<1>8. Keeps(d, full) /\ full.packet = d.packet
  BY <1>3, <1>6, <1>7, KeepsTogether DEF SameReceiver
<1>9. CASE d.out.transferCount = rx.count
  <2>1. o = RunCallback(full)
    BY <1>1, <1>3, <1>4, <1>9
  <2>2. /\ Untouched(full, o) /\ SameConfig(full, o)
        /\ SameReceiver(full, o) /\ SameSender(full, o) /\ CalledBack(full, o)
    BY <1>7, <2>1, CallbackKeeps, CallbackRuns DEF CalledBack, IsSetAddress
  <2>3. CalledBack(d, o)
    BY <1>7, <1>8, <2>2 DEF CalledBack, Keeps, SameConfig, SameAddress
  <2> QED BY <1>6, <1>7, <1>8, <1>9, <2>2, <2>3
          DEF Keeps, Untouched, SameReceiver, SameSender, o
<1>10. CASE d.out.transferCount # rx.count
  <2>1. o = read
    BY <1>1, <1>3, <1>4, <1>10
  <2> QED BY <1>3, <1>10, <2>1 DEF Keeps, SameSender, o
<1> QED BY <1>9, <1>10

\* Any other OUT packet ends the transfer it comes in; what it could ask for is
\* refused.
LEMMA StatusRead ==
  ASSUME NEW d, Sound(d), d.usbCtrlState # "dataRX", ~d.in.isMultiPart,
         NEW rx \in RxPackets, rx.count < 8 \/ Inert(rx.data), NEW ans
  PROVE  LET o == HandleControllerOutPacket(d, rx, ans)
         IN  /\ Untouched(d, o) /\ CalledBack(d, o)
             /\ o.hw.tx = "stall" /\ o.hw.rx = "valid"
             /\ o.usbCtrlState = "idle" /\ ~o.in.isMultiPart
<1> DEFINE ended == RunCallback([d EXCEPT !.usbCtrlState = "idle"])
           o     == HandleControllerOutPacket(d, rx, ans)
<1>1. /\ Sound(ended) /\ Untouched(d, ended) /\ CalledBack(d, ended)
      /\ SameSender(d, ended) /\ ended.usbCtrlState = "idle"
  BY TransferEnded
<1>2. o = HandleSetupPacket(ended, rx, ans)
  BY DEF HandleControllerOutPacket
<1> HIDE DEF ended, o
<1>3. /\ Keeps(ended, o) /\ o.hw.tx = "stall" /\ o.hw.rx = "valid"
      /\ o.usbCtrlState = "idle" /\ ~o.in.isMultiPart
  BY <1>1, <1>2, RefusedSetup DEF SameSender
<1> QED BY <1>1, <1>3 DEF Keeps, Untouched, CalledBack, SameConfig, SameAddress, o

\* A packet is sent in any state of the transfer: nothing but EP0's transmit half
\* is touched.
LEMMA AnyPacketSent ==
  ASSUME NEW d, Sound(d), d.usbCtrlState = "dataTX"
  PROVE  LET o == HandleControllerInPacket(d)
         IN  /\ Keeps(d, o) /\ o.packet = d.packet
             /\ o.setupCallback = d.setupCallback /\ o.hw.rx = d.hw.rx
             /\ o.in.isMultiPart => d.in.isMultiPart
             /\ o.usbCtrlState \in {"dataTX", "statusRX"}
<1> DEFINE w == WriteEP(d)
           o == HandleControllerInPacket(d)
           left == d.in.transferCount - Least(d.in.transferCount, epBufferSize)
<1>1. d.in.isMultiPart \in BOOLEAN
  BY Fields DEF EpIn
<1>2. /\ Sound(w) /\ Keeps(d, w) /\ SameReceiver(d, w)
      /\ w.setupCallback = d.setupCallback
      /\ w.in.isMultiPart = (d.in.isMultiPart /\ left # 0)
  BY WriteEPSound, KeepsWriteEP, WriteEPWrites
<1>3. o = IF w.in.transferCount = 0
          THEN [w EXCEPT !.usbCtrlState = "statusRX"] ELSE w
  BY DEF HandleControllerInPacket
<1> HIDE DEF w, o, left
<1>4. /\ Keeps(w, o) /\ SameSender(w, o) /\ o.packet = w.packet
      /\ o.setupCallback = w.setupCallback /\ o.hw.rx = w.hw.rx
      /\ o.usbCtrlState \in {"dataTX", "statusRX"}
  <2>1. CASE w.in.transferCount = 0
    BY <1>2, <1>3, <2>1, EntersState
  <2>2. CASE w.in.transferCount # 0
    BY <1>2, <1>3, <2>2 DEF SameReceiver, SameSender, Keeps, Untouched,
                            SameConfig, SameAddress
  <2> QED BY <2>1, <2>2
<1> QED BY <1>1, <1>2, <1>4, KeepsTogether DEF SameReceiver, SameSender, o

-----------------------------------------------------------------------------
(* The transfer under way, as the host sees it.                            *)

\* No bus reset is pending, and none is needed.
Live(d, h) == h.phase # "gone" /\ "reset" \notin d.hw.status

Reading(d, h) ==
  /\ h.req.dir = "in" /\ d.hw.rxPacket.kind = "none"
  /\ (Refused(d) /\ h.got = 0) \/ Offered(d, h) \/ Sent(d, h)

Writing(d, h) ==
  h.req.dir = "out" /\ h.got < h.req.length /\ (Refused(d) \/ Armed(d, h))

\* The status stage of a request without data is ready; that of a write will be,
\* once its last packet has been read.
Finishing(d, h) ==
  /\ d.hw.rxPacket.kind = "none" => Refused(d) \/ Acking(d)
  /\ d.hw.rxPacket.kind = "out" =>
       h.req.length # 0 /\ h.got = h.req.length /\ (Refused(d) \/ Armed(d, h))

\* The transfer is in the stage the host takes it to be in; a table is being
\* sent only to a host that asked for one and will read it to its end.
Transferring(d, h) ==
  /\ d.in.isMultiPart =>
       /\ h.phase = "dataIn" /\ h.req \notin Abandonable
       /\ d.hw.rxPacket.kind = "none" /\ d.hw.tx # "stall"
  /\ h.phase # "idle" => h.req \in Requests
  /\ h.phase \in {"dataIn", "dataOut", "statusOut"} => h.req.length # 0
  /\ d.hw.rxPacket.kind # "setup" =>
       /\ h.phase = "dataIn" => Reading(d, h)
       /\ h.phase = "dataOut" => Writing(d, h)
       /\ h.phase = "statusIn" => Finishing(d, h)
       /\ h.phase = "statusOut" =>
            d.hw.rxPacket.kind = "none" /\ d.usbCtrlState # "dataRX"

\* The request has been read and EP0 is ready to acknowledge it.
Ready(d, h) ==
  h.phase = "statusIn" /\ d.hw.rxPacket.kind = "none" /\ d.hw.tx = "valid"

SamePipe(d, o) ==
  /\ o.usbCtrlState = d.usbCtrlState /\ o.setupCallback = d.setupCallback
  /\ o.packet = d.packet /\ o.in = d.in /\ o.out = d.out
  /\ (o.usbState = "addressing" <=> d.usbState = "addressing")
  /\ SameConfig(d, o)
  /\ o.hw.tx = d.hw.tx /\ o.hw.txData = d.hw.txData
  /\ o.hw.txComplete = d.hw.txComplete
  /\ o.hw.rx = d.hw.rx /\ o.hw.rxPacket = d.hw.rxPacket
  /\ o.hw.addr = d.hw.addr /\ o.hw.enabled = d.hw.enabled
  /\ "ctr" \in d.hw.itrEnable => "ctr" \in o.hw.itrEnable

SameTransfer(h, k) ==
  /\ k.phase = h.phase /\ k.req = h.req /\ k.got = h.got
  /\ k.addr = h.addr /\ k.cfg = h.cfg

LEMMA SameTransferItself == ASSUME NEW h PROVE SameTransfer(h, h)
BY DEF SameTransfer

\* The packet is taken off the peripheral.
LEMMA PacketFetched ==
  ASSUME NEW d, Sound(d)
  PROVE  LET e == [d EXCEPT !.hw.rxPacket = NoPacket]
         IN  /\ Sound(e) /\ e.hw.rxPacket = NoPacket
             /\ SameConfig(d, e) /\ SameAddress(d, e)
             /\ SameReceiver(d, e) /\ SameSender(d, e)
             /\ e.setupCallback = d.setupCallback
             /\ e.hw.txComplete = d.hw.txComplete
             /\ e.hw.itrEnable = d.hw.itrEnable /\ e.hw.status = d.hw.status
             /\ e.hw.forceSuspend = d.hw.forceSuspend
             /\ e.usbSuspended = d.usbSuspended
<1> DEFINE g == [d.hw EXCEPT !.rxPacket = NoPacket]
           e == [d EXCEPT !.hw = g]
<1>1. Sound(e)
  BY Fetched
<1>2. /\ g.rxPacket = NoPacket /\ g.eps = d.hw.eps /\ g.addr = d.hw.addr
      /\ g.enabled = d.hw.enabled /\ g.rx = d.hw.rx /\ g.tx = d.hw.tx
      /\ g.txData = d.hw.txData /\ g.txComplete = d.hw.txComplete
      /\ g.itrEnable = d.hw.itrEnable /\ g.status = d.hw.status
      /\ g.forceSuspend = d.hw.forceSuspend
  BY Fields DEF Registers
<1> HIDE DEF g
<1>3. /\ e.hw = g /\ e.in = d.in /\ e.out = d.out /\ e.packet = d.packet
      /\ e.usbCtrlState = d.usbCtrlState /\ e.usbState = d.usbState
      /\ e.activeConfig = d.activeConfig /\ e.handlersUp = d.handlersUp
      /\ e.setupCallback = d.setupCallback /\ e.usbSuspended = d.usbSuspended
  BY DEF Sound, Devices
<1> HIDE DEF e
<1> QED BY <1>1, <1>2, <1>3
        DEF SameConfig, SameAddress, SameReceiver, SameSender, e, g

\* What a request is answered with is what the host waits for.
LEMMA OutcomeTransfers ==
  ASSUME NEW o, Sound(o), NEW h \in Hosts, h.req \in Requests,
         WellFormed(h.req), h.phase = FirstPhase(h.req), h.got = 0,
         Outcome(h.req, "nack", o),
         ~o.hw.txComplete, o.hw.rxPacket = NoPacket
  PROVE  Transferring(o, h)
<1> DEFINE p == h.req
<1>1. /\ o.hw.rxPacket.kind = "none" /\ o.hw.rxPacket.count = 0
      /\ p.length \in Nat /\ p.dir \in {"in", "out"}
  <2>1. p.length \in Word /\ p.dir \in {"in", "out"}
    BY DEF Hosts, SetupPackets
  <2> QED BY <2>1, Words DEF NoPacket
<1>2. /\ p.length = 0 => h.phase = "statusIn"
      /\ p.length # 0 /\ p.dir = "in" => h.phase = "dataIn"
      /\ p.length # 0 /\ p.dir = "out" => h.phase = "dataOut"
  BY DEF FirstPhase
<1>3. CASE o.hw.tx = "stall" /\ o.usbCtrlState = "idle" /\ ~o.in.isMultiPart
  <2>1. Refused(o)
    BY <1>3 DEF Refused
  <2>2. p.length # 0 => h.got < p.length
    BY <1>1
  <2> QED BY <1>1, <1>2, <1>3, <2>1, <2>2
          DEF Transferring, Reading, Writing, Finishing
<1>4. CASE /\ p.length = 0 /\ o.hw.tx = "valid" /\ o.hw.txData.len = 0
           /\ o.usbCtrlState = "statusRX" /\ ~o.in.isMultiPart
  <2>1. Acking(o)
    BY <1>4 DEF Acking
  <2> QED BY <1>1, <1>2, <1>4, <2>1 DEF Transferring, Finishing
<1>5. CASE /\ p.length # 0 /\ p.dir = "out" /\ o.hw.tx = "nack"
           /\ o.usbCtrlState = "dataRX" /\ o.in.transferCount = 0
           /\ o.out.transferCount = p.length /\ ~o.in.isMultiPart
  <2>1. Armed(o, h) /\ h.got < p.length
    BY <1>1, <1>5 DEF Armed
  <2> QED BY <1>1, <1>2, <1>5, <2>1 DEF Transferring, Writing
<1>6. CASE /\ p.length # 0 /\ p.dir = "in"
           /\ \E size \in Extent(Asked(p)) \cap Nat :
                Begins(o, Asked(p), Least(size, p.length))
  <2>1. PICK size \in Extent(Asked(p)) \cap Nat :
          Begins(o, Asked(p), Least(size, p.length))
    BY <1>6
  <2>2. Offered(o, h)
    BY <1>6, <2>1, AnswerOffered
  <2>3. o.in.isMultiPart => p \notin Abandonable
    BY <1>6, <2>1 DEF Begins, WellFormed
  <2>4. o.hw.tx # "stall"
    BY <2>1 DEF Begins
  <2> QED BY <1>1, <1>2, <1>6, <2>2, <2>3, <2>4 DEF Transferring, Reading
<1> QED BY <1>3, <1>4, <1>5, <1>6 DEF Outcome

\* The requests of a transfer with a data stage give no address and choose no
\* configuration.
LEMMA DataStageRequest ==
  ASSUME Mannerly, NEW r \in Requests, r.length # 0
  PROVE  ~IsSetAddress(r) /\ ~IsSetConfiguration(r)
BY DEF Mannerly, WellFormed

\* The flag of a packet sent is taken off the peripheral.
LEMMA FlagTaken ==
  ASSUME NEW d, Sound(d)
  PROVE  LET e == [d EXCEPT !.hw.txComplete = FALSE]
         IN  /\ Sound(e) /\ ~e.hw.txComplete /\ e.hw.rxPacket = d.hw.rxPacket
             /\ SameConfig(d, e) /\ SameAddress(d, e)
             /\ SameReceiver(d, e) /\ SameSender(d, e)
             /\ e.setupCallback = d.setupCallback
             /\ e.hw.itrEnable = d.hw.itrEnable /\ e.hw.status = d.hw.status
             /\ e.hw.forceSuspend = d.hw.forceSuspend
             /\ e.usbSuspended = d.usbSuspended
<1> DEFINE g == [d.hw EXCEPT !.txComplete = FALSE]
           e == [d EXCEPT !.hw = g]
<1>1. Sound(e)
  BY Fields, NoMoreItself, SetTxComplete, SetHw
<1>2. /\ g.rxPacket = d.hw.rxPacket /\ g.eps = d.hw.eps /\ g.addr = d.hw.addr
      /\ g.enabled = d.hw.enabled /\ g.rx = d.hw.rx /\ g.tx = d.hw.tx
      /\ g.txData = d.hw.txData /\ ~g.txComplete
      /\ g.itrEnable = d.hw.itrEnable /\ g.status = d.hw.status
      /\ g.forceSuspend = d.hw.forceSuspend
  BY Fields DEF Registers
<1> HIDE DEF g
<1>3. /\ e.hw = g /\ e.in = d.in /\ e.out = d.out /\ e.packet = d.packet
      /\ e.usbCtrlState = d.usbCtrlState /\ e.usbState = d.usbState
      /\ e.activeConfig = d.activeConfig /\ e.handlersUp = d.handlersUp
      /\ e.setupCallback = d.setupCallback /\ e.usbSuspended = d.usbSuspended
  BY DEF Sound, Devices
<1> HIDE DEF e
<1> QED BY <1>1, <1>2, <1>3
        DEF SameConfig, SameAddress, SameReceiver, SameSender, e, g

-----------------------------------------------------------------------------
(* What the host and the interrupt do to the registers of EP0.             *)

LEMMA RegistersReplaced ==
  ASSUME NEW d, Sound(d), NEW g
  PROVE  LET o == [d EXCEPT !.hw = g]
         IN  /\ o.hw = g /\ o.in = d.in /\ o.out = d.out /\ o.packet = d.packet
             /\ o.usbCtrlState = d.usbCtrlState /\ o.usbState = d.usbState
             /\ o.activeConfig = d.activeConfig /\ o.handlersUp = d.handlersUp
             /\ o.setupCallback = d.setupCallback
             /\ o.usbSuspended = d.usbSuspended
BY DEF Sound, Devices

\* What the host does to EP0 it does to nothing else.
SameButEP0(d, o) ==
  /\ SameConfig(d, o) /\ SameAddress(d, o)
  /\ o.usbCtrlState = d.usbCtrlState /\ o.setupCallback = d.setupCallback
  /\ o.packet = d.packet /\ o.in = d.in /\ o.out = d.out
  /\ o.hw.txData = d.hw.txData
  /\ o.hw.itrEnable = d.hw.itrEnable /\ o.hw.status = d.hw.status
  /\ o.hw.forceSuspend = d.hw.forceSuspend /\ o.usbSuspended = d.usbSuspended

\* The host puts a packet into EP0's receive buffer.
LEMMA PacketPut ==
  ASSUME NEW d, Sound(d), NEW p
  PROVE  LET o == [d EXCEPT !.hw.rx = "nack", !.hw.rxPacket = p]
         IN  /\ SameButEP0(d, o) /\ o.hw.rxPacket = p
             /\ o.hw.tx = d.hw.tx /\ o.hw.txComplete = d.hw.txComplete
<1> DEFINE g == [d.hw EXCEPT !.rx = "nack", !.rxPacket = p]
           o == [d EXCEPT !.hw = g]
<1>1. o = [d EXCEPT !.hw.rx = "nack", !.hw.rxPacket = p]
  BY DEF Sound, Devices
<1>2. /\ g.rxPacket = p /\ g.eps = d.hw.eps /\ g.addr = d.hw.addr
      /\ g.enabled = d.hw.enabled /\ g.tx = d.hw.tx
      /\ g.txData = d.hw.txData /\ g.txComplete = d.hw.txComplete
      /\ g.itrEnable = d.hw.itrEnable /\ g.status = d.hw.status
      /\ g.forceSuspend = d.hw.forceSuspend
  BY Fields DEF Registers
<1> HIDE DEF g
<1>3. /\ SameButEP0(d, o) /\ o.hw.rxPacket = p
      /\ o.hw.tx = d.hw.tx /\ o.hw.txComplete = d.hw.txComplete
  BY <1>2, RegistersReplaced DEF SameButEP0, SameConfig, SameAddress
<1> HIDE DEF o
<1> QED BY <1>1, <1>3

\* A setup packet disarms the transmit half too.
LEMMA SetupPut ==
  ASSUME NEW d, Sound(d), NEW p
  PROVE  LET o == [d EXCEPT !.hw.tx = "nack", !.hw.rx = "nack", !.hw.rxPacket = p]
         IN  /\ SameButEP0(d, o) /\ o.hw.rxPacket = p
             /\ o.hw.tx = "nack" /\ o.hw.txComplete = d.hw.txComplete
<1> DEFINE g == [d.hw EXCEPT !.tx = "nack", !.rx = "nack", !.rxPacket = p]
           o == [d EXCEPT !.hw = g]
<1>1. o = [d EXCEPT !.hw.tx = "nack", !.hw.rx = "nack", !.hw.rxPacket = p]
  BY DEF Sound, Devices
<1>2. /\ g.rxPacket = p /\ g.eps = d.hw.eps /\ g.addr = d.hw.addr
      /\ g.enabled = d.hw.enabled /\ g.tx = "nack"
      /\ g.txData = d.hw.txData /\ g.txComplete = d.hw.txComplete
      /\ g.itrEnable = d.hw.itrEnable /\ g.status = d.hw.status
      /\ g.forceSuspend = d.hw.forceSuspend
  BY Fields DEF Registers
<1> HIDE DEF g
<1>3. /\ SameButEP0(d, o) /\ o.hw.rxPacket = p
      /\ o.hw.tx = "nack" /\ o.hw.txComplete = d.hw.txComplete
  BY <1>2, RegistersReplaced DEF SameButEP0, SameConfig, SameAddress
<1> HIDE DEF o
<1> QED BY <1>1, <1>3

\* It takes a packet from the transmit half.
LEMMA PacketTaken ==
  ASSUME NEW d, Sound(d)
  PROVE  LET o == [d EXCEPT !.hw.tx = "nack", !.hw.txComplete = TRUE]
         IN  /\ SameButEP0(d, o) /\ o.hw.tx = "nack" /\ o.hw.txComplete
             /\ o.hw.rx = d.hw.rx /\ o.hw.rxPacket = d.hw.rxPacket
<1> DEFINE g == [d.hw EXCEPT !.tx = "nack", !.txComplete = TRUE]
           o == [d EXCEPT !.hw = g]
<1>1. o = [d EXCEPT !.hw.tx = "nack", !.hw.txComplete = TRUE]
  BY DEF Sound, Devices
<1>2. /\ g.rxPacket = d.hw.rxPacket /\ g.eps = d.hw.eps /\ g.addr = d.hw.addr
      /\ g.enabled = d.hw.enabled /\ g.tx = "nack" /\ g.rx = d.hw.rx
      /\ g.txData = d.hw.txData /\ g.txComplete
      /\ g.itrEnable = d.hw.itrEnable /\ g.status = d.hw.status
      /\ g.forceSuspend = d.hw.forceSuspend
  BY Fields DEF Registers
<1> HIDE DEF g
<1>3. /\ SameButEP0(d, o) /\ o.hw.tx = "nack" /\ o.hw.txComplete
      /\ o.hw.rx = d.hw.rx /\ o.hw.rxPacket = d.hw.rxPacket
  BY <1>2, RegistersReplaced DEF SameButEP0, SameConfig, SameAddress
<1> HIDE DEF o
<1> QED BY <1>1, <1>3

\* The table of a read less than asked for ends in a short packet, also after a
\* whole one has been taken off it.
LEMMA WholePacketsTaken ==
  ASSUME NEW n \in Nat, ~WholePackets(epBufferSize + n)
  PROVE  ~WholePackets(n)
<1>1. epBufferSize \in Nat
  BY PacketSize
<1>2. ASSUME WholePackets(n)
      PROVE  WholePackets(epBufferSize + n)
  <2>1. PICK k \in 0..n : n = k * epBufferSize
    BY <1>2 DEF WholePackets
  <2>2. epBufferSize + n = (k + 1) * epBufferSize
    BY <1>1, <2>1
  <2>3. k + 1 \in 0..(epBufferSize + n)
    <3>1. epBufferSize >= 1
      BY BuildOptions
    <3> QED BY <1>1, <2>1, <3>1
  <2> QED BY <2>2, <2>3 DEF WholePackets
<1> QED BY <1>2

LEMMA WholePacket == WholePackets(epBufferSize + 0)
<1>1. epBufferSize \in Nat /\ epBufferSize >= 1
  BY PacketSize, BuildOptions
<1>2. 1 \in 0..(epBufferSize + 0) /\ epBufferSize + 0 = 1 * epBufferSize
  BY <1>1
<1> QED BY <1>2 DEF WholePackets

\* The host has taken a packet of a read: it waits for the rest of it, or for
\* the status stage if that was the last one.
LEMMA OfferedTaken ==
  ASSUME NEW d, Sound(d), NEW h \in Hosts, Offered(d, h)
  PROVE  LET len == d.hw.txData.len
             got == h.got + len
         IN  IF d.in.transferCount = 0
             THEN len < epBufferSize \/ got >= h.req.length
             ELSE /\ ~(len < epBufferSize \/ got >= h.req.length)
                  /\ \E size \in Extent(Asked(h.req)) \cap Nat :
                       got + d.in.transferCount = Least(size, h.req.length)
                  /\ \/ got + d.in.transferCount = h.req.length
                     \/ ~WholePackets(d.in.transferCount)
<1> DEFINE len  == d.hw.txData.len
           left == d.in.transferCount
           got  == h.got + len
           want == h.req.length
<1>1. /\ len \in Nat /\ left \in Nat /\ h.got \in Nat /\ want \in Nat
      /\ epBufferSize \in Nat
  <2>1. len \in Word /\ left \in Word
    BY Fields DEF Registers, EpIn
  <2>2. want \in Word /\ h.got \in Nat
    BY DEF Hosts, SetupPackets
  <2> QED BY <2>1, <2>2, Words, PacketSize
<1>2. /\ len = Least(len + left, epBufferSize)
      /\ h.got + (len + left) = want \/ ~WholePackets(len + left)
  BY DEF Offered, Remaining
<1>3. PICK size \in Extent(Asked(h.req)) \cap Nat :
        h.got + (len + left) = Least(size, want)
  BY DEF Offered, Remaining
<1> HIDE DEF len, left, want
<1>4. got + left = Least(size, want) /\ got + left <= want
  <2>1. got + left = Least(size, want)
    BY <1>1, <1>3
  <2> QED BY <1>1, <2>1 DEF Least
<1>5. CASE left = 0
  <2>1. len <= epBufferSize
    BY <1>1, <1>2, <1>5 DEF Least
  <2>2. len = epBufferSize => got >= want
    <3>1. len = epBufferSize => WholePackets(len + left)
      BY <1>5, WholePacket
    <3> QED BY <1>1, <1>2, <1>5, <3>1
  <2> QED BY <1>1, <1>5, <2>1, <2>2 DEF len, left, want
<1>6. CASE left # 0
  <2>1. len = epBufferSize
    BY <1>1, <1>2, <1>6 DEF Least
  <2>2. ~(len < epBufferSize \/ got >= want)
    BY <1>1, <1>4, <1>6, <2>1
  <2>3. got + left = want \/ ~WholePackets(left)
    BY <1>1, <1>2, <2>1, WholePacketsTaken
  <2> QED BY <1>4, <1>6, <2>2, <2>3 DEF len, left, want
<1> QED BY <1>5, <1>6

\* An event is flagged.
LEMMA FlagRaised ==
  ASSUME NEW d, Sound(d), NEW s
  PROVE  LET o == [d EXCEPT !.hw.status = s]
         IN  /\ SamePipe(d, o) /\ o.hw.status = s
             /\ o.hw.itrEnable = d.hw.itrEnable
             /\ o.hw.forceSuspend = d.hw.forceSuspend
             /\ o.usbSuspended = d.usbSuspended
<1> DEFINE g == [d.hw EXCEPT !.status = s]
<1>1. /\ g.rxPacket = d.hw.rxPacket /\ g.eps = d.hw.eps /\ g.addr = d.hw.addr
      /\ g.enabled = d.hw.enabled /\ g.tx = d.hw.tx /\ g.rx = d.hw.rx
      /\ g.txData = d.hw.txData /\ g.txComplete = d.hw.txComplete
      /\ g.itrEnable = d.hw.itrEnable /\ g.status = s
      /\ g.forceSuspend = d.hw.forceSuspend
  BY Fields DEF Registers
<1> HIDE DEF g
<1>2. LET o == [d EXCEPT !.hw = g]
      IN  /\ SamePipe(d, o) /\ o.hw.status = s
          /\ o.hw.itrEnable = d.hw.itrEnable
          /\ o.hw.forceSuspend = d.hw.forceSuspend
          /\ o.usbSuspended = d.usbSuspended
  BY <1>1, RegistersReplaced DEF SamePipe, SameConfig
<1> QED BY <1>2 DEF g

-----------------------------------------------------------------------------
(* What the contract of a control pipe sees of a device.                   *)

\* Steps in which the pipe and the transfer stay as they are, and whether a bus
\* reset is pending.
LEMMA ViewFrame ==
  ASSUME NEW d, NEW o, NEW h, NEW k,
         SamePipe(d, o), SameTransfer(h, k), Resetting(o, k) <=> Resetting(d, h)
  PROVE  /\ Offer(o, k) = Offer(d, h) /\ Running(o, k) = Running(d, h)
         /\ AddressOf(o, k) = AddressOf(d, h)
BY DEF SamePipe, SameTransfer, SameConfig, Offer, Running, AddressOf

\* Nothing the contract speaks of has changed.
LEMMA ContractStutters ==
  ASSUME SameTransfer(host, host'), Offer(dev', host') = Offer(dev, host),
         Running(dev', host') = Running(dev, host),
         AddressOf(dev', host') = AddressOf(dev, host)
  PROVE  UNCHANGED Contract!vars
BY DEF Contract!vars, SameTransfer

\* A device that is lost or not yet found.
LEMMA Unseen ==
  ASSUME NEW d, NEW h, Resetting(d, h), h.phase \in {"idle", "gone"}
  PROVE  /\ Offer(d, h) = <<"nothing">> /\ Running(d, h) = 0
         /\ AddressOf(d, h) = 0
BY DEF Offer, Running, AddressOf

LEMMA ContractResets ==
  ASSUME Resetting(dev', host'), host' = Lost \/ HostFound
  PROVE  Contract!Reset
<1>1. /\ host'.phase \in {"idle", "gone"} /\ host'.req = ZeroPacket
      /\ host'.got = 0 /\ host'.addr = 0
  BY DEF HostFound, Lost
<1>2. /\ Offer(dev', host') = <<"nothing">> /\ Running(dev', host') = 0
      /\ AddressOf(dev', host') = 0
  BY <1>1, Unseen
<1> QED BY <1>1, <1>2 DEF Contract!Reset, Contract!Nothing

LEMMA ViewKept ==
  ASSUME SamePipe(dev, dev'), SameTransfer(host, host'),
         Resetting(dev', host') <=> Resetting(dev, host)
  PROVE  UNCHANGED Contract!vars
BY ViewFrame, ContractStutters

\* What the host does to EP0 leaves address and configuration alone.
LEMMA EP0Frame ==
  ASSUME NEW d, NEW o, NEW h, NEW k, SameButEP0(d, o),
         h.phase # "gone", k.phase # "gone"
  PROVE  Running(o, k) = Running(d, h) /\ AddressOf(o, k) = AddressOf(d, h)
BY DEF SameButEP0, SameConfig, SameAddress, Running, AddressOf, Resetting

LEMMA NothingOffered ==
  ASSUME NEW d, NEW h,
         h.phase \notin {"dataIn", "dataOut", "statusIn"}
           \/ d.hw.tx \notin {"valid", "stall"}
  PROVE  Offer(d, h) = Contract!Nothing
BY DEF Offer, Contract!Nothing

LEMMA Refusing ==
  ASSUME NEW d, NEW h, h.phase \in {"dataIn", "dataOut", "statusIn"},
         d.hw.tx = "stall"
  PROVE  Offer(d, h) = Contract!Refusal
BY DEF Offer, Contract!Refusal

\* A request that sets no configuration leaves the one that runs, one that does
\* runs it once it is acknowledged, and stops it at most when it is refused.
LEMMA SetupRuns ==
  ASSUME NEW d, NEW o, NEW h,
         Effects(h.req, d, o, o.hw.tx = "valid"), o.hw.status = d.hw.status,
         h.phase # "gone", "reset" \notin d.hw.status
  PROVE  /\ AddressOf(o, h) = AddressOf(d, h)
         /\ ~IsSetConfiguration(h.req) => Running(o, h) = Running(d, h)
         /\ IsSetConfiguration(h.req) =>
              IF o.hw.tx = "valid" THEN Running(o, h) = h.req.value % 256
              ELSE Running(o, h) \in {Running(d, h), 0}
<1>1. ~Resetting(o, h) /\ ~Resetting(d, h)
  BY DEF Resetting
<1>2. AddressOf(o, h) = AddressOf(d, h)
  BY <1>1 DEF AddressOf, Effects
<1>3. SameConfig(d, o) => Running(o, h) = Running(d, h)
  BY <1>1 DEF SameConfig, Running
<1>4. Down(o) => Running(o, h) = 0
  BY DEF Down, Running
<1>5. Chosen(o) => Running(o, h) = o.activeConfig
  BY <1>1 DEF Chosen, Up, Running
<1> QED BY <1>2, <1>3, <1>4, <1>5 DEF Effects

-----------------------------------------------------------------------------
(* A chip that goes by the state of the last transfer.  Its interrupt      *)
(* handler may be late, and find one packet where there were two events:   *)
(* d is the device with the events it has still to serve.                  *)

\* A host gives up no write and no SET_ADDRESS.
Patient ==
  \A r \in Abandonable : ~IsSetAddress(r) /\ (r.dir = "out" => r.length = 0)

\* Nor a read of several packets.
ReadsThrough ==
  \A r \in Abandonable : r.dir = "in" => r.length <= epBufferSize

Served == {"waiting", "addressing", "addressed", "configured"}

\* EP0 receives, or holds what the host has sent; data is read as a request only
\* if it can ask for nothing, and more of a read is sent only to who waits for it,
\* or to nobody once the read has been given up.
Receiving(d, h) ==
  LET rx == d.hw.rxPacket
  IN  /\ d.hw.enabled /\ d.usbState \in Served
      /\ rx.kind = "none" => d.hw.rx = "valid" /\ rx = NoPacket
      /\ rx.kind = "setup" =>
           /\ rx.data = h.req /\ rx.count = 8 /\ h.req \in Requests
           /\ h.phase = FirstPhase(h.req) /\ h.got = 0 /\ d.hw.tx = "nack"
      /\ rx.kind = "out" =>
           /\ h.phase \in {"idle", "dataOut", "statusIn"}
           /\ d.usbCtrlState = "dataRX" \/ Inert(rx.data)
      /\ d.usbCtrlState = "dataRX" =>
           h.phase \in {"dataOut", "statusIn"} /\ rx.kind # "setup"
      /\ d.usbCtrlState = "dataTX" /\ d.hw.txComplete =>
           /\ h.phase \in {"dataIn", "idle"} /\ rx.kind = "none"
           /\ ReadsThrough => h.phase = "dataIn" /\ h.req \notin Abandonable
      /\ h.phase = "statusOut" => d.usbCtrlState # "dataTX"

\* The device has the address the host has given it, but while it waits to take
\* it: acknowledging, with the acknowledgement to be served, or with the next
\* request received before it was.
Addressed(d, h) ==
  LET kind == d.hw.rxPacket.kind
  IN  /\ IsSetAddress(h.req) /\ h.phase # "idle" => h.addr = 0
      /\ IsSetAddress(h.req) /\ Ready(d, h) => d.usbState = "addressing"
      /\ d.usbState # "addressing" => d.hw.addr = h.addr
      /\ d.usbState = "addressing" =>
           /\ d.hw.addr = 0 /\ d.setupCallback = "address"
           /\ IsSetAddress(d.packet) /\ kind \in {"setup", "none"}
           /\ d.usbCtrlState \in {"statusTX", "statusRX"}
           /\ kind = "setup" => h.addr = 0 /\ d.packet.value = 0
           /\ kind = "none" /\ d.hw.txComplete =>
                h.phase = "idle" /\ h.addr = d.packet.value /\ h.addr < 128
           /\ kind = "none" /\ ~d.hw.txComplete =>
                Ready(d, h) /\ h.addr = 0 /\ d.packet = h.req

\* The configuration the host has seen acknowledged runs.
ConfiguredTo(d, h) ==
  /\ h.cfg # 0 => Chosen(d) /\ d.activeConfig = h.cfg
  /\ IsSetConfiguration(h.req) /\ h.phase # "idle" => h.cfg = 0 /\ h.addr # 0
  /\ IsSetConfiguration(h.req) /\ Ready(d, h) /\ h.req.value # 0 =>
       Chosen(d) /\ d.activeConfig = h.req.value

Following(d, h) ==
  /\ Receiving(d, h) /\ Transferring(d, h) /\ Addressed(d, h) /\ ConfiguredTo(d, h)

\* Steps that touch neither EP0 nor the transfer.
LEMMA FollowingFrame ==
  ASSUME NEW d, NEW o, NEW h, NEW k, SamePipe(d, o), o.usbState = d.usbState,
         SameTransfer(h, k), Following(d, h)
  PROVE  Following(o, k)
<1>1. Receiving(o, k)
  BY DEF Following, Receiving, SamePipe, SameTransfer
<1>2. Transferring(o, k)
  <2>1. /\ Refused(d) <=> Refused(o)
        /\ Acking(d) <=> Acking(o)
    BY DEF Refused, Acking, SamePipe
  <2>2. Armed(d, h) => Armed(o, k)
    BY DEF Armed, SamePipe, SameTransfer
  <2>3. ASSUME NEW n, Remaining(h, n) PROVE Remaining(k, n)
    BY <2>3 DEF Remaining, SameTransfer
  <2>4. Offered(d, h) => Offered(o, k)
    BY <2>3 DEF Offered, SamePipe, SameTransfer
  <2>5. Sent(d, h) => Sent(o, k)
    BY <2>3 DEF Sent, SamePipe, SameTransfer
  <2> QED BY <2>1, <2>2, <2>4, <2>5
          DEF Following, Transferring, Reading, Writing, Finishing, SamePipe, SameTransfer
<1>3. Addressed(o, k)
  BY DEF Following, Addressed, Ready, SamePipe, SameTransfer
<1>4. ConfiguredTo(o, k)
  BY DEF Following, ConfiguredTo, Ready, Chosen, Up, SamePipe, SameTransfer, SameConfig
<1> QED BY <1>1, <1>2, <1>3, <1>4 DEF Following

LEMMA ResetFollows ==
  ASSUME NEW o, NEW h, h.phase = "idle", h.addr = 0, h.cfg = 0,
         o.usbState = "waiting", o.usbCtrlState # "dataRX", ~o.in.isMultiPart,
         o.hw.addr = 0, o.hw.enabled, o.hw.rx = "valid",
         o.hw.rxPacket = NoPacket, ~o.hw.txComplete
  PROVE  Following(o, h)
<1>1. NoPacket.kind = "none"
  BY DEF NoPacket
<1> QED BY <1>1
        DEF Following, Receiving, Transferring, Addressed, ConfiguredTo, Ready, Served

\* A setup packet ends the transfer it finds, and its request is answered with
\* what the host waits for.
LEMMA SetupFollows ==
  ASSUME Mannerly, NEW d, Sound(d), NEW h \in Hosts, Following(d, h),
         d.hw.rxPacket.kind = "setup", ~d.hw.txComplete,
         h.phase # "gone", "reset" \notin d.hw.status,
         NEW ans \in ClassAnswers[d.hw.rxPacket.data.dir]
  PROVE  LET e == [d EXCEPT !.hw.rxPacket = NoPacket]
             o == HandleControlPacketByState(e, d.hw.rxPacket, ans)
         IN  /\ Untouched(e, o) /\ Following(o, h)
             /\ Outcome(h.req, "nack", o) /\ o.hw.addr = d.hw.addr
             /\ ~IsSetConfiguration(h.req) => Running(o, h) = Running(d, h)
             /\ IsSetConfiguration(h.req) =>
                  IF o.hw.tx = "valid" THEN Running(o, h) = h.req.value % 256
                  ELSE Running(o, h) \in {Running(d, h), 0}
             /\ SameConfig(d, o) \/ Chosen(o) \/ Down(o)
<1> DEFINE rx == d.hw.rxPacket
           e  == [d EXCEPT !.hw.rxPacket = NoPacket]
           f  == IF d.usbCtrlState = "idle" THEN e
                 ELSE RunCallback([e EXCEPT !.usbCtrlState = "idle"])
           o  == HandleSetupPacket(f, rx, ans)
           p  == h.req
<1>1. /\ rx.data = p /\ rx.count = 8 /\ p \in Requests /\ h.got = 0
      /\ h.phase = FirstPhase(p) /\ d.hw.tx = "nack" /\ d.usbCtrlState # "dataRX"
      /\ d.hw.enabled /\ d.usbState \in Served /\ ~d.in.isMultiPart
  BY DEF Following, Receiving, Transferring
<1>2. /\ Sound(e) /\ rx \in RxPackets /\ ans \in Answers /\ rx.count >= 8
      /\ WellFormed(p) /\ NoPacket.kind = "none"
  BY <1>1, PacketFetched, Fetched DEF Mannerly, NoPacket
<1>3. /\ e.hw.rxPacket = NoPacket /\ ~e.hw.txComplete /\ e.hw.tx = "nack"
      /\ ~e.in.isMultiPart /\ e.hw.enabled /\ e.hw.addr = d.hw.addr
      /\ e.usbState = d.usbState /\ e.packet = d.packet
      /\ e.usbCtrlState = d.usbCtrlState /\ e.hw.status = d.hw.status
      /\ e.setupCallback = d.setupCallback /\ SameConfig(d, e)
  BY <1>1, PacketFetched DEF SameAddress, SameSender, SameReceiver
<1>4. /\ d.usbState # "addressing" => d.hw.addr = h.addr
      /\ IsSetAddress(p) /\ h.phase # "idle" => h.addr = 0
      /\ d.usbState = "addressing" =>
           /\ d.hw.addr = 0 /\ d.setupCallback = "address" /\ h.addr = 0
           /\ IsSetAddress(d.packet) /\ d.packet.value = 0
           /\ d.usbCtrlState # "idle"
  BY DEF Following, Addressed
<1> HIDE DEF e
<1>5. HandleControlPacketByState(e, rx, ans) = o
  <2> DEFINE g == [e EXCEPT !.usbCtrlState = "idle"]
  <2> HIDE DEF g
  <2> QED BY <1>1, <1>3
          DEF HandleControlPacketByState, HandleControllerOutPacket, f, g
\* What is left of the transfer before.
<1>6. /\ Sound(f) /\ Untouched(e, f) /\ SameConfig(e, f) /\ SameSender(e, f)
      /\ f.hw.enabled /\ f.usbState # "addressing" /\ f.usbState \in Served
      /\ f.hw.addr = h.addr /\ d.hw.addr = h.addr
  <2>1. CASE d.usbCtrlState = "idle"
    BY <1>1, <1>2, <1>3, <1>4, <2>1 DEF Untouched, SameConfig, SameSender
  <2>2. CASE d.usbCtrlState # "idle"
    <3>1. /\ Sound(f) /\ Untouched(e, f) /\ CalledBack(e, f) /\ SameSender(e, f)
      BY <1>2, <2>2, TransferEnded
    <3> HIDE DEF f
    <3>2. CASE d.usbState = "addressing"
      BY <1>3, <1>4, <3>1, <3>2 DEF CalledBack, Served
    <3>3. CASE d.usbState # "addressing"
      BY <1>1, <1>3, <1>4, <3>1, <3>3 DEF CalledBack, SameAddress
    <3> QED BY <3>1, <3>2, <3>3 DEF CalledBack
  <2> QED BY <2>1, <2>2
<1> HIDE DEF f
<1>7. /\ ~f.in.isMultiPart /\ f.hw.tx = "nack" /\ f.hw.rxPacket = NoPacket
      /\ ~f.hw.txComplete /\ f.hw.status = d.hw.status /\ SameConfig(d, f)
  BY <1>3, <1>6 DEF Untouched, SameConfig, SameSender
<1>8. /\ o.packet = p /\ o.hw.rx = "valid" /\ Untouched(f, o)
      /\ Outcome(p, "nack", o) /\ Effects(p, f, o, o.hw.tx = "valid")
  BY <1>1, <1>2, <1>6, <1>7, SetupOutcome
<1>9. Sound(o)
  BY <1>2, <1>6, HandleSetupPacketSound
<1> HIDE DEF o
<1>10. /\ o.hw.rxPacket = NoPacket /\ ~o.hw.txComplete /\ o.hw.enabled
       /\ o.hw.addr = h.addr /\ o.hw.status = d.hw.status
       /\ o.usbState \in Served /\ Untouched(e, o)
  <2>1. o.usbState \in {f.usbState, "addressed", "addressing"}
    BY <1>8 DEF Effects
  <2> QED BY <1>6, <1>7, <1>8, <2>1 DEF Untouched, Effects, Served
<1>11. /\ h.phase \in {"dataIn", "dataOut", "statusIn"}
       /\ p.length = 0 <=> h.phase = "statusIn"
       /\ p.length # 0 => (p.dir = "out" <=> h.phase = "dataOut")
  <2>1. p.dir \in {"in", "out"}
    BY DEF Hosts, SetupPackets
  <2> QED BY <1>1, <2>1 DEF FirstPhase
<1>12. o.usbCtrlState = "dataRX" => h.phase = "dataOut"
  BY <1>8, <1>11 DEF Outcome, Begins
<1>13. Receiving(o, h)
  BY <1>2, <1>8, <1>10, <1>11, <1>12 DEF Receiving
<1>14. Transferring(o, h)
  BY <1>1, <1>2, <1>8, <1>9, <1>10, OutcomeTransfers
<1>15. ~(IsSetAddress(p) /\ IsSetConfiguration(p))
  BY DEF IsSetAddress, IsSetConfiguration
<1>16. Addressed(o, h)
  <2>1. IsSetAddress(p) /\ Ready(o, h) => o.usbState = "addressing"
    BY <1>8 DEF Ready, Effects
  <2>2. ASSUME o.usbState = "addressing"
        PROVE  /\ IsSetAddress(p) /\ o.hw.tx = "valid"
               /\ o.setupCallback = "address"
    BY <1>6, <1>8, <1>15, <2>2 DEF Effects
  <2>3. ASSUME o.usbState = "addressing"
        PROVE  /\ o.usbCtrlState = "statusRX" /\ h.addr = 0 /\ Ready(o, h)
    <3>1. p.length = 0 /\ h.phase = "statusIn"
      BY <1>2, <1>11, <2>2, <2>3 DEF WellFormed
    <3> QED BY <1>2, <1>4, <1>8, <1>10, <2>2, <2>3, <3>1 DEF Outcome, Ready
  <2> QED BY <1>2, <1>4, <1>8, <1>10, <2>1, <2>2, <2>3 DEF Addressed
<1>17. IsSetConfiguration(p) => h.addr # 0 /\ h.cfg = 0
  BY <1>11 DEF Following, ConfiguredTo
<1>18. ConfiguredTo(o, h)
  <2>1. ~IsSetConfiguration(p) => SameConfig(d, o)
    BY <1>7, <1>8 DEF Effects, SameConfig
  <2>2. h.cfg # 0 => Chosen(o) /\ o.activeConfig = h.cfg
    BY <1>17, <2>1 DEF Following, ConfiguredTo, SameConfig, Chosen, Up
  <2>3. IsSetConfiguration(p) /\ Ready(o, h) /\ p.value # 0 =>
          Chosen(o) /\ o.activeConfig = p.value
    <3>1. IsSetConfiguration(p) => p.value % 256 = p.value
      <4>1. IsSetConfiguration(p) => p.value < 256 /\ p.value \in Nat
        BY <1>2, Words DEF WellFormed, Hosts, SetupPackets
      <4> QED BY <4>1
    <3> QED BY <1>8, <3>1 DEF Ready, Effects
  <2> QED BY <1>17, <2>2, <2>3 DEF ConfiguredTo
<1>19. /\ ~IsSetConfiguration(p) => Running(o, h) = Running(d, h)
       /\ IsSetConfiguration(p) =>
            IF o.hw.tx = "valid" THEN Running(o, h) = p.value % 256
            ELSE Running(o, h) \in {Running(d, h), 0}
  <2>1. Running(f, h) = Running(d, h)
    BY <1>7 DEF Running, Resetting, SameConfig
  <2>2. o.hw.status = f.hw.status /\ "reset" \notin f.hw.status
    BY <1>7, <1>10
  <2> QED BY <1>8, <2>1, <2>2, SetupRuns
<1>20. Following(o, h)
  BY <1>13, <1>14, <1>16, <1>18 DEF Following
<1>21. SameConfig(d, o) \/ Chosen(o) \/ Down(o)
  BY <1>7, <1>8 DEF Effects, SameConfig
<1> QED BY <1>5, <1>6, <1>8, <1>10, <1>19, <1>20, <1>21 DEF e

\* A packet of a write is counted, and the last one has it acknowledged; any
\* other OUT packet is refused.
LEMMA OutFollows ==
  ASSUME Mannerly, NEW d, Sound(d), NEW h \in Hosts, Following(d, h),
         d.hw.rxPacket.kind = "out", NEW ans
  PROVE  LET e == [d EXCEPT !.hw.rxPacket = NoPacket]
             o == HandleControlPacketByState(e, d.hw.rxPacket, ans)
         IN  /\ Untouched(e, o) /\ SameConfig(e, o) /\ SameAddress(e, o)
             /\ Following(o, h)
             /\ d.hw.tx = "stall" => o.hw.tx = "stall"
             /\ h.phase = "idle" => o.usbCtrlState = "idle"
             /\ \/ Offer(o, h) = Offer(d, h)
                \/ /\ h.phase = "statusIn" /\ ~IsSetConfiguration(h.req)
                   /\ Offer(d, h) = Contract!Nothing /\ Offer(o, h) = Contract!Ack
<1> DEFINE rx == d.hw.rxPacket
           e  == [d EXCEPT !.hw.rxPacket = NoPacket]
           o  == HandleControlPacketByState(e, rx, ans)
<1>1. /\ h.phase \in {"idle", "dataOut", "statusIn"}
      /\ d.usbCtrlState = "dataRX" => h.phase \in {"dataOut", "statusIn"}
      /\ d.usbCtrlState = "dataRX" \/ Inert(rx.data)
      /\ d.hw.enabled /\ d.usbState \in Served /\ ~d.in.isMultiPart
  BY DEF Following, Receiving, Transferring
<1>2. /\ Sound(e) /\ rx \in RxPackets
      /\ NoPacket.kind = "none" /\ NoPacket.count = 0
  BY PacketFetched, Fetched DEF NoPacket
<1>3. /\ e.hw.rxPacket = NoPacket /\ e.hw.txComplete = d.hw.txComplete
      /\ e.hw.tx = d.hw.tx /\ e.in = d.in /\ e.out = d.out
      /\ e.usbCtrlState = d.usbCtrlState /\ ~e.in.isMultiPart
      /\ SameConfig(d, e) /\ SameAddress(d, e)
  BY <1>1, PacketFetched DEF SameSender, SameReceiver
<1> HIDE DEF e
<1>4. h.phase # "idle" => h.req \in Requests
  BY DEF Following, Transferring
<1>5. /\ h.phase = "dataOut" => Writing(d, h) /\ h.req.length # 0
      /\ h.phase = "statusIn" =>
           h.req.length # 0 /\ h.got = h.req.length /\ (Refused(d) \/ Armed(d, h))
  BY DEF Following, Transferring, Finishing
<1>6. h.phase # "idle" => ~IsSetAddress(h.req) /\ ~IsSetConfiguration(h.req)
  BY <1>1, <1>4, <1>5, DataStageRequest
<1>7. d.usbState # "addressing" /\ d.hw.addr = h.addr
  BY DEF Following, Addressed
<1>8. ASSUME CalledBack(e, o) \/ Keeps(e, o)
      PROVE  /\ SameConfig(e, o) /\ SameAddress(e, o) /\ SameConfig(d, o)
             /\ o.usbState = d.usbState /\ o.hw.addr = d.hw.addr /\ o.hw.enabled
  BY <1>1, <1>3, <1>7, <1>8 DEF CalledBack, Keeps, SameConfig, SameAddress
<1>9. ASSUME Untouched(e, o), CalledBack(e, o) \/ Keeps(e, o), o.hw.rx = "valid",
             o.usbCtrlState = "dataRX" => h.phase \in {"dataOut", "statusIn"},
             o.usbCtrlState # "dataTX"
      PROVE  Receiving(o, h) /\ Addressed(o, h) /\ ConfiguredTo(o, h)
  <2>1. Receiving(o, h)
    BY <1>1, <1>2, <1>3, <1>8, <1>9 DEF Receiving, Untouched
  <2>2. Addressed(o, h)
    BY <1>6, <1>7, <1>8, <1>9 DEF Addressed, Ready
  <2>3. ConfiguredTo(o, h)
    BY <1>6, <1>8, <1>9
       DEF Following, ConfiguredTo, Ready, SameConfig, Chosen, Up
  <2> QED BY <2>1, <2>2, <2>3
<1>10. CASE d.usbCtrlState = "dataRX"
  <2>1. /\ h.phase \in {"dataOut", "statusIn"} /\ Armed(d, h)
        /\ h.phase = "dataOut" => h.got < h.req.length
        /\ h.phase = "statusIn" => h.got = h.req.length
    BY <1>1, <1>5, <1>10 DEF Writing, Refused
  <2>2. h.req.length \in Nat /\ h.got \in Nat /\ rx.count \in Nat
    BY <1>2, Words DEF Hosts, SetupPackets, RxPackets
  <2>3. /\ rx.count <= d.out.transferCount
        /\ h.phase = "statusIn" <=> d.out.transferCount = rx.count
        /\ d.out.transferCount - rx.count = h.req.length - h.got
    BY <2>1, <2>2 DEF Armed
  <2>4. o = HandleControllerOutPacket(e, rx, ans)
    BY <1>3, <1>10 DEF HandleControlPacketByState
  <2>5. /\ Untouched(e, o) /\ o.hw.rx = "valid" /\ ~o.in.isMultiPart
        /\ IF d.out.transferCount = rx.count
           THEN /\ CalledBack(e, o) /\ o.usbCtrlState = "statusTX"
                /\ o.hw.tx = "valid" /\ o.hw.txData.len = 0
           ELSE /\ Keeps(e, o) /\ o.usbCtrlState = "dataRX"
                /\ o.hw.tx = e.hw.tx /\ o.in = e.in
                /\ o.out.transferCount = d.out.transferCount - rx.count
    BY <1>2, <1>3, <1>10, <2>1, <2>3, <2>4, DataRead DEF Armed
  <2> HIDE DEF o
  <2>6. o.hw.rxPacket = NoPacket /\ ~o.hw.txComplete
    BY <1>3, <2>1, <2>5 DEF Untouched, Armed
  <2>7. Receiving(o, h) /\ Addressed(o, h) /\ ConfiguredTo(o, h)
    BY <1>9, <2>1, <2>5
  <2>8. d.hw.tx = "nack" /\ Offer(d, h) = Contract!Nothing
    BY <2>1, NothingOffered DEF Armed
  <2>9. CASE h.phase = "statusIn"
    <3>1. Acking(o)
      BY <2>3, <2>5, <2>6, <2>9 DEF Acking
    <3>2. Transferring(o, h)
      BY <1>2, <1>4, <1>5, <2>5, <2>6, <2>9, <3>1 DEF Transferring, Finishing
    <3>3. Offer(o, h) = Contract!Ack
      BY <2>9, <3>1 DEF Acking, Offer, Contract!Ack
    <3> QED BY <1>6, <1>8, <2>3, <2>5, <2>7, <2>8, <2>9, <3>2, <3>3
            DEF Following, o, e
  <2>10. CASE h.phase = "dataOut"
    <3>1. Keeps(e, o) /\ o.usbCtrlState = "dataRX" /\ o.hw.tx = "nack"
      BY <1>3, <2>3, <2>5, <2>8, <2>10
    <3>2. Armed(o, h)
      <4>1. /\ o.in.transferCount = 0
            /\ o.out.transferCount = h.req.length - h.got
        BY <1>3, <2>1, <2>3, <2>5, <2>10 DEF Armed
      <4> QED BY <1>2, <2>1, <2>2, <2>6, <2>10, <3>1, <4>1 DEF Armed
    <3>3. Transferring(o, h)
      BY <1>2, <1>4, <1>5, <2>5, <2>6, <2>10, <3>2 DEF Transferring, Writing
    <3>4. Offer(o, h) = Contract!Nothing
      BY <3>1, NothingOffered
    <3> QED BY <1>8, <2>5, <2>7, <2>8, <2>10, <3>1, <3>3, <3>4 DEF Following, o, e
  <2> QED BY <2>1, <2>9, <2>10
<1>11. CASE d.usbCtrlState # "dataRX"
  <2>1. /\ CalledBack(e, o) \/ Keeps(e, o)
        /\ Untouched(e, o) /\ o.hw.tx = "stall" /\ o.hw.rx = "valid"
        /\ o.usbCtrlState = "idle" /\ ~o.in.isMultiPart
    <3>1. CASE d.usbCtrlState = "idle"
      <4>1. o = HandleSetupPacket(e, rx, ans)
        BY <1>3, <3>1 DEF HandleControlPacketByState
      <4> QED BY <1>1, <1>2, <1>3, <1>11, <3>1, <4>1, RefusedSetup DEF Keeps
    <3>2. CASE d.usbCtrlState # "idle"
      <4>1. o = HandleControllerOutPacket(e, rx, ans)
        BY <1>3, <3>2 DEF HandleControlPacketByState
      <4> QED BY <1>1, <1>2, <1>3, <1>11, <4>1, StatusRead
    <3> QED BY <3>1, <3>2
  <2> HIDE DEF o
  <2>2. o.hw.rxPacket = NoPacket /\ o.hw.txComplete = d.hw.txComplete
    BY <1>3, <2>1 DEF Untouched
  <2>3. h.phase \in {"dataOut", "statusIn"} => Refused(d) /\ Refused(o)
    BY <1>5, <1>11, <2>1, <2>2 DEF Writing, Armed, Refused
  <2>4. Transferring(o, h)
    BY <1>1, <1>2, <1>4, <1>5, <2>1, <2>2, <2>3
       DEF Transferring, Writing, Finishing
  <2>5. Offer(o, h) = Offer(d, h)
    BY <1>1, <2>1, <2>3, Refusing, NothingOffered DEF Refused
  <2> QED BY <1>8, <1>9, <2>1, <2>4, <2>5 DEF Following, o, e
<1> QED BY <1>10, <1>11

\* A packet that has been sent is followed by the next one of the answer; or the
\* transfer ends, and a new address is taken.
LEMMA SentFollows ==
  ASSUME NEW d, Sound(d), NEW h \in Hosts, Following(d, h),
         d.hw.txComplete, h.phase # "gone"
  PROVE  LET e == [d EXCEPT !.hw.txComplete = FALSE]
             o == HandleControllerInPacket(e)
         IN  /\ Untouched(e, o) /\ SameConfig(e, o) /\ Following(o, h)
             /\ o.hw.enabled /\ o.hw.addr \in {d.hw.addr, h.addr}
             /\ d.hw.tx = "stall" /\ ReadsThrough => o.hw.tx = "stall"
             /\ h.phase = "idle" => o.usbState # "addressing"
             /\ h.phase = "idle" /\ ReadsThrough => o.usbCtrlState # "dataTX"
             /\ IF h.phase = "dataIn" /\ d.hw.rxPacket.kind # "setup"
                THEN /\ h.req.length # 0 /\ h.req \in Requests /\ Sent(d, h)
                     /\ o.hw.addr = d.hw.addr /\ Offered(o, h)
                ELSE Offer(o, h) = Offer(d, h)
<1> DEFINE e == [d EXCEPT !.hw.txComplete = FALSE]
           o == HandleControllerInPacket(e)
           kind == d.hw.rxPacket.kind
<1>1. /\ kind \in {"none", "setup", "out"} /\ d.usbCtrlState \in CtrlStates
      /\ h.phase \in {"idle", "dataIn", "dataOut", "statusIn", "statusOut"}
      /\ d.hw.enabled /\ d.usbState \in Served
  BY Fields DEF Following, Receiving, Registers, RxPackets, Hosts
<1>2. /\ kind = "none" => d.hw.rx = "valid" /\ d.hw.rxPacket = NoPacket
      /\ kind = "setup" =>
           /\ d.hw.rxPacket.data = h.req /\ d.hw.rxPacket.count = 8
           /\ h.req \in Requests /\ h.phase = FirstPhase(h.req) /\ h.got = 0
           /\ d.hw.tx = "nack"
      /\ kind = "out" =>
           /\ h.phase \in {"idle", "dataOut", "statusIn"}
           /\ d.usbCtrlState = "dataRX" \/ Inert(d.hw.rxPacket.data)
  BY DEF Following, Receiving
<1>3. kind # "setup" => h.phase \notin {"dataOut", "statusIn"}
  BY <1>1 DEF Following, Transferring, Writing, Finishing, Refused, Armed, Acking
<1>4. h.phase = "dataIn" /\ kind # "setup" =>
        /\ kind = "none" /\ h.req.dir = "in" /\ Sent(d, h)
        /\ h.req.length # 0 /\ h.req \in Requests /\ d.usbCtrlState = "dataTX"
        /\ d.hw.tx = "nack"
  BY <1>1 DEF Following, Transferring, Reading, Refused, Offered, Sent
<1>5. /\ d.usbCtrlState # "dataRX"
      /\ d.usbCtrlState = "dataTX" =>
           /\ h.phase \in {"dataIn", "idle"} /\ kind = "none"
           /\ ReadsThrough => h.phase = "dataIn"
  BY <1>1, <1>3 DEF Following, Receiving
<1>6. /\ d.in.isMultiPart =>
           h.phase = "dataIn" /\ h.req \notin Abandonable /\ kind = "none"
      /\ h.phase # "idle" => h.req \in Requests
      /\ h.phase \in {"dataIn", "dataOut", "statusOut"} => h.req.length # 0
      /\ h.phase = "statusOut" /\ kind # "setup" => kind = "none"
  BY DEF Following, Transferring
<1>7. /\ Sound(e) /\ ~e.hw.txComplete /\ e.hw.rxPacket = d.hw.rxPacket
      /\ e.hw.enabled /\ e.hw.rx = d.hw.rx /\ e.hw.tx = d.hw.tx
      /\ e.in = d.in /\ e.packet = d.packet /\ e.usbCtrlState = d.usbCtrlState
      /\ e.hw.addr = d.hw.addr /\ e.usbState = d.usbState
      /\ e.setupCallback = d.setupCallback /\ SameConfig(d, e)
      /\ e.hw.txData = d.hw.txData
  BY <1>1, FlagTaken DEF SameAddress, SameSender, SameReceiver
<1>8. /\ IsSetAddress(h.req) /\ h.phase # "idle" => h.addr = 0
      /\ d.usbState # "addressing" => d.hw.addr = h.addr
      /\ d.usbState = "addressing" =>
           /\ d.hw.addr = 0 /\ d.setupCallback = "address"
           /\ IsSetAddress(d.packet) /\ d.usbCtrlState \in {"statusTX", "statusRX"}
           /\ h.addr = d.packet.value /\ h.addr < 128
  <2>1. IsSetAddress(h.req) /\ h.phase # "idle" => h.addr = 0
    BY DEF Following, Addressed
  <2>2. d.usbState # "addressing" => d.hw.addr = h.addr
    BY DEF Following, Addressed
  <2>3. d.usbState = "addressing" =>
          /\ d.hw.addr = 0 /\ d.setupCallback = "address"
          /\ IsSetAddress(d.packet) /\ d.usbCtrlState \in {"statusTX", "statusRX"}
          /\ h.addr = d.packet.value /\ h.addr < 128
    BY DEF Following, Addressed
  <2> QED BY <2>1, <2>2, <2>3
<1> HIDE DEF e, kind
<1>9. ASSUME Untouched(e, o), SameConfig(e, o), o.hw.enabled, o.hw.rx = e.hw.rx,
             o.usbState \in Served \ {"addressing"}, o.hw.addr = h.addr,
             o.usbCtrlState # "dataRX", kind = "setup" => o.hw.tx = "nack",
             h.phase = "statusOut" => o.usbCtrlState # "dataTX"
      PROVE  Receiving(o, h) /\ Addressed(o, h) /\ ConfiguredTo(o, h)
  <2>1. o.hw.rxPacket = d.hw.rxPacket /\ ~o.hw.txComplete /\ SameConfig(d, o)
    BY <1>7, <1>9 DEF Untouched, SameConfig
  <2> HIDE DEF o
  <2>2. ~Ready(o, h)
    BY <1>1, <1>3, <2>1 DEF Ready, kind
  <2>3. Receiving(o, h)
    BY <1>1, <1>2, <1>5, <1>7, <1>9, <2>1 DEF Receiving, kind
  <2>4. Addressed(o, h)
    BY <1>8, <1>9, <2>2 DEF Addressed
  <2>5. ConfiguredTo(o, h)
    BY <2>1, <2>2 DEF Following, ConfiguredTo, SameConfig, Chosen, Up
  <2> QED BY <2>3, <2>4, <2>5
<1>10. CASE d.usbCtrlState = "dataTX" /\ h.phase = "dataIn"
  <2>1. /\ h.phase = "dataIn" /\ kind = "none" /\ Sent(d, h) /\ h.req.dir = "in"
        /\ h.req.length # 0 /\ h.req \in Requests /\ d.hw.tx = "nack"
    BY <1>4, <1>5, <1>10
  <2>2. /\ Keeps(e, o) /\ Offered(o, h) /\ o.hw.rx = e.hw.rx
        /\ o.in.isMultiPart => e.in.isMultiPart
    <3>1. /\ e.in.transferCount # 0 /\ Remaining(h, e.in.transferCount)
          /\ e.in.memBuffer.obj = Asked(h.req) /\ e.in.memBuffer.off = h.got
          /\ e.in.isMultiPart => e.in.partsData = Asked(h.req)
      BY <1>7, <2>1 DEF Sent
    <3> QED BY <1>7, <1>10, <3>1, NextPacketSent
  <2> HIDE DEF o
  <2>3. o.usbCtrlState # "dataRX" /\ o.hw.tx = "valid"
    BY <2>2 DEF Offered
  <2>4. /\ o.hw.rxPacket = d.hw.rxPacket /\ o.hw.enabled /\ Untouched(e, o)
        /\ o.usbState \in Served \ {"addressing"} /\ SameConfig(e, o)
        /\ o.hw.addr = h.addr /\ o.hw.addr = d.hw.addr
    BY <1>1, <1>7, <1>8, <1>10, <2>2 DEF Keeps, Untouched, SameAddress
  <2>5. Transferring(o, h)
    BY <1>6, <1>7, <2>1, <2>2, <2>3, <2>4 DEF Transferring, Reading, kind
  <2>6. Following(o, h)
    BY <1>9, <2>1, <2>2, <2>3, <2>4, <2>5 DEF Following
  <2> QED BY <2>1, <2>2, <2>4, <2>6 DEF o, e, kind
<1>11. CASE d.usbCtrlState # "dataTX"
  <2>1. o = RunCallback([e EXCEPT !.usbCtrlState = "idle"])
    BY <1>7, <1>11 DEF HandleControllerInPacket
  <2>2. /\ Untouched(e, o) /\ CalledBack(e, o) /\ SameSender(e, o)
        /\ o.usbCtrlState = "idle" /\ o.hw.rx = e.hw.rx
    BY <1>7, <2>1, TransferEnded
  <2> HIDE DEF o
  <2>3. /\ h.phase # "dataIn" \/ kind = "setup"
        /\ kind = "setup" => o.hw.tx = "nack"
        /\ ~d.in.isMultiPart
    <3>1. h.phase # "dataIn" \/ kind = "setup"
      BY <1>4, <1>11
    <3>2. ~d.in.isMultiPart
      BY <1>6, <3>1
    <3> QED BY <1>2, <1>7, <2>2, <3>1, <3>2 DEF SameSender
  <2>4. o.hw.enabled /\ o.usbState \in Served \ {"addressing"} /\ o.hw.addr = h.addr
    <3>1. CASE d.usbState = "addressing"
      <4>1. h.addr \in Nat /\ h.addr < 128 /\ d.packet.value = h.addr
        BY <1>8, <3>1, Words DEF Hosts
      <4>2. d.packet.value % 128 = h.addr /\ d.packet.value < 256
        BY <4>1
      <4> QED BY <1>7, <1>8, <2>2, <3>1, <4>2 DEF CalledBack, Served
    <3>2. CASE d.usbState # "addressing"
      BY <1>1, <1>7, <1>8, <2>2, <3>2 DEF CalledBack, SameAddress
    <3> QED BY <3>1, <3>2
  <2>5. o.hw.rxPacket = d.hw.rxPacket /\ ~o.in.isMultiPart /\ o.hw.tx = d.hw.tx
        /\ o.hw.txData = d.hw.txData
    BY <1>7, <2>2, <2>3 DEF Untouched, SameSender
  <2>6. Transferring(o, h)
    BY <1>1, <1>3, <1>6, <2>2, <2>3, <2>5 DEF Transferring, kind
  <2>7. Following(o, h)
    BY <1>9, <2>2, <2>3, <2>4, <2>6 DEF Following, CalledBack
  <2>8. Offer(o, h) = Offer(d, h)
    BY <2>5 DEF Offer
  <2> QED BY <2>2, <2>3, <2>4, <2>5, <2>7, <2>8 DEF CalledBack, o, e, kind
<1>12. CASE d.usbCtrlState = "dataTX" /\ h.phase # "dataIn"
  <2>1. /\ h.phase = "idle" /\ kind = "none" /\ ~d.in.isMultiPart /\ ~ReadsThrough
        /\ d.usbState # "addressing"
    BY <1>5, <1>6, <1>8, <1>12
  <2>2. /\ Keeps(e, o) /\ o.hw.rx = e.hw.rx /\ ~o.in.isMultiPart
        /\ o.usbCtrlState # "dataRX"
    BY <1>7, <1>12, <2>1, PacketSentOn
  <2> HIDE DEF o
  <2>3. /\ o.hw.rxPacket = d.hw.rxPacket /\ o.hw.enabled /\ Untouched(e, o)
        /\ o.usbState \in Served \ {"addressing"} /\ SameConfig(e, o)
        /\ o.hw.addr = h.addr /\ o.hw.addr = d.hw.addr
    BY <1>1, <1>7, <1>8, <2>1, <2>2 DEF Keeps, Untouched, SameAddress
  <2>4. Transferring(o, h)
    BY <2>1, <2>2, <2>3 DEF Transferring, kind
  <2>5. Following(o, h)
    BY <1>9, <2>1, <2>2, <2>3, <2>4 DEF Following
  <2>6. Offer(o, h) = Offer(d, h)
    BY <2>1, NothingOffered
  <2> QED BY <2>1, <2>3, <2>5, <2>6 DEF o, e, kind
<1> QED BY <1>10, <1>11, <1>12

\* Only the interrupt handler of the chip looks at the flag of a packet sent.
LEMMA Marked ==
  ASSUME NEW d, Sound(d), NEW v \in BOOLEAN
  PROVE  LET o == [d EXCEPT !.hw.txComplete = v]
         IN  /\ Sound(o) /\ SameButEP0(d, o) /\ o.hw.txComplete = v
             /\ o.hw.tx = d.hw.tx /\ o.hw.rx = d.hw.rx
             /\ o.hw.rxPacket = d.hw.rxPacket
<1> DEFINE g == [d.hw EXCEPT !.txComplete = v]
           o == [d EXCEPT !.hw = g]
<1>1. d.hw \in Registers
  BY Fields
<1>3. Sound(o)
  BY Fields, NoMoreItself, SetTxComplete, SetHw
<1>4. /\ g.txComplete = v /\ g.tx = d.hw.tx /\ g.rx = d.hw.rx
      /\ g.rxPacket = d.hw.rxPacket /\ g.txData = d.hw.txData
      /\ g.addr = d.hw.addr /\ g.enabled = d.hw.enabled /\ g.eps = d.hw.eps
      /\ g.itrEnable = d.hw.itrEnable /\ g.status = d.hw.status
      /\ g.forceSuspend = d.hw.forceSuspend
  BY <1>1 DEF Registers
<1> HIDE DEF g
<1>5. /\ o.hw = g /\ o.in = d.in /\ o.out = d.out /\ o.packet = d.packet
      /\ o.usbCtrlState = d.usbCtrlState /\ o.usbState = d.usbState
      /\ o.activeConfig = d.activeConfig /\ o.handlersUp = d.handlersUp
      /\ o.setupCallback = d.setupCallback
      /\ o.usbSuspended = d.usbSuspended
  BY RegistersReplaced
<1> HIDE DEF o
<1>6. SameButEP0(d, o) /\ o.hw.txComplete = v
      /\ o.hw.tx = d.hw.tx /\ o.hw.rx = d.hw.rx /\ o.hw.rxPacket = d.hw.rxPacket
  BY <1>4, <1>5 DEF SameButEP0, SameConfig, SameAddress
<1> QED BY <1>3, <1>6 DEF o, g

\* Two values of a record type with the same fields are the same.
LEMMA SameRegisters ==
  ASSUME NEW g \in Registers, NEW h \in Registers,
         g.addr = h.addr, g.enabled = h.enabled, g.tx = h.tx, g.txData = h.txData,
         g.txComplete = h.txComplete, g.rx = h.rx, g.rxPacket = h.rxPacket,
         g.eps = h.eps, g.epComplete = h.epComplete, g.itrEnable = h.itrEnable,
         g.status = h.status, g.forceSuspend = h.forceSuspend
  PROVE  g = h
BY DEF Registers

LEMMA SameDevice ==
  ASSUME NEW d \in Devices, NEW o \in Devices,
         o.usbState = d.usbState, o.usbCtrlState = d.usbCtrlState,
         o.usbSuspended = d.usbSuspended, o.activeConfig = d.activeConfig,
         o.setupCallback = d.setupCallback, o.packet = d.packet,
         o.alternateModes = d.alternateModes, o.handlersUp = d.handlersUp,
         o.in = d.in, o.out = d.out, o.hw = d.hw
  PROVE  o = d
BY DEF Devices

\* What is sent does not depend on the mark of the packet sent before.
LEMMA MarkedBeforeSent ==
  ASSUME NEW d, Sound(d), NEW v \in BOOLEAN
  PROVE  HandleControllerInPacket([d EXCEPT !.hw.txComplete = v])
           = [HandleControllerInPacket(d) EXCEPT !.hw.txComplete = v]
<1> DEFINE M(x) == [x EXCEPT !.hw.txComplete = v]
<1>1. ASSUME NEW x \in Devices
      PROVE  /\ x.hw \in Registers /\ M(x).hw = [x.hw EXCEPT !.txComplete = v]
             /\ M(x).usbState = x.usbState /\ M(x).usbCtrlState = x.usbCtrlState
             /\ M(x).usbSuspended = x.usbSuspended
             /\ M(x).activeConfig = x.activeConfig
             /\ M(x).setupCallback = x.setupCallback /\ M(x).packet = x.packet
             /\ M(x).alternateModes = x.alternateModes
             /\ M(x).handlersUp = x.handlersUp /\ M(x).in = x.in /\ M(x).out = x.out
  BY DEF Devices
<1>2. ASSUME NEW x \in Devices
      PROVE  M(x) \in Devices
  <2>1. [x.hw EXCEPT !.txComplete = v] \in Registers
    BY <1>1 DEF Registers
  <2> QED BY <1>1, <2>1 DEF Devices
<1>3. ASSUME NEW x \in Devices, NEW s \in CtrlStates
      PROVE  /\ [x EXCEPT !.usbCtrlState = s] \in Devices
             /\ [M(x) EXCEPT !.usbCtrlState = s] = M([x EXCEPT !.usbCtrlState = s])
  BY <1>1 DEF Devices
<1>4. WriteEP(M(d)) = M(WriteEP(d))
  <2> DEFINE W(g, source, n) ==
               [g EXCEPT !.tx = "valid",
                         !.txData = [obj |-> source.obj, off |-> source.off, len |-> n]]
             source == WriteSource(d.in)
             count  == Least(d.in.transferCount, epBufferSize)
             I      == [d.in EXCEPT
                         !.transferCount = d.in.transferCount - count,
                         !.memBuffer = [source EXCEPT !.off = @ + count],
                         !.isMultiPart = @ /\ d.in.transferCount - count # 0]
  <2>1. d \in Devices /\ M(d) \in Devices
    BY <1>2 DEF Sound
  <2>2. ASSUME NEW x \in Devices, x.in = d.in
        PROVE  WriteEP(x) = [x EXCEPT !.in = I, !.hw = W(x.hw, source, count)]
    BY <2>2 DEF WriteEP, Devices
  <2>3. W(M(d).hw, source, count) = [W(d.hw, source, count) EXCEPT !.txComplete = v]
    <3>1. ASSUME NEW g \in Registers, NEW b
          PROVE  [[g EXCEPT !.txComplete = v] EXCEPT !.tx = "valid", !.txData = b]
                   = [[g EXCEPT !.tx = "valid", !.txData = b] EXCEPT !.txComplete = v]
      BY DEF Registers
    <3> DEFINE b == [obj |-> source.obj, off |-> source.off, len |-> count]
    <3>2. ASSUME NEW g
          PROVE  W(g, source, count) = [g EXCEPT !.tx = "valid", !.txData = b]
      OBVIOUS
    <3>3. d.hw \in Registers /\ M(d).hw = [d.hw EXCEPT !.txComplete = v]
      BY <1>1, <2>1
    <3>4. /\ W(d.hw, source, count) = [d.hw EXCEPT !.tx = "valid", !.txData = b]
          /\ W(M(d).hw, source, count) = [M(d).hw EXCEPT !.tx = "valid", !.txData = b]
      BY <3>2
    <3> HIDE DEF W, b, M
    <3>5. W(M(d).hw, source, count)
            = [[d.hw EXCEPT !.txComplete = v] EXCEPT !.tx = "valid", !.txData = b]
      BY <3>3, <3>4
    <3> QED BY <3>1, <3>3, <3>4, <3>5
  <2> HIDE DEF I, W, count, source
  <2>4. WriteEP(d) = [d EXCEPT !.in = I, !.hw = W(d.hw, source, count)]
    BY <2>1, <2>2
  <2> DEFINE D == [d EXCEPT !.in = I, !.hw = W(d.hw, source, count)]
             E == [M(d) EXCEPT !.in = I, !.hw = W(M(d).hw, source, count)]
  <2>5. WriteEP(M(d)) = E
    BY <1>1, <2>1, <2>2
  <2>6. M(D) = E
    BY <2>1, <2>3 DEF Devices
  <2> QED BY <2>4, <2>5, <2>6
<1>5. WriteEP(d) \in Devices /\ M(d) \in Devices /\ d \in Devices
  BY <1>2, WriteEPSound DEF Sound
<1>6. ASSUME NEW x \in Devices
      PROVE  RunCallback(M(x)) = M(RunCallback(x))
  <2>1. ASSUME NEW y \in Devices
        PROVE  /\ [y EXCEPT !.setupCallback = "none"] \in Devices
               /\ [M(y) EXCEPT !.setupCallback = "none"]
                    = M([y EXCEPT !.setupCallback = "none"])
    BY <1>1 DEF Devices, Callbacks
  <2>2. ASSUME NEW n \in 0..127, NEW s \in DeviceStates
        PROVE  LET A(y) == [y EXCEPT !.hw.addr = n, !.hw.enabled = TRUE, !.usbState = s]
               IN  A(x) \in Devices /\ A(M(x)) = M(A(x))
    <3>1. [[x.hw EXCEPT !.txComplete = v] EXCEPT !.addr = n, !.enabled = TRUE]
            = [[x.hw EXCEPT !.addr = n, !.enabled = TRUE] EXCEPT !.txComplete = v]
      BY <1>1 DEF Registers
    <3>2. [x.hw EXCEPT !.addr = n, !.enabled = TRUE] \in Registers
      <4>1. [x.hw EXCEPT !.addr = n] \in Registers
        BY <1>1 DEF Registers
      <4>2. ASSUME NEW g \in Registers PROVE [g EXCEPT !.enabled = TRUE] \in Registers
        BY DEF Registers
      <4> QED BY <4>1, <4>2
    <3> QED BY <1>1, <3>1, <3>2 DEF Devices
  <2> DEFINE A(y, n, s) == [y EXCEPT !.hw.addr = n, !.hw.enabled = TRUE, !.usbState = s]
  <2>3. ASSUME NEW y \in Devices
        PROVE  AddressCallback(y) =
                 IF y.usbState # "addressing" THEN y
                 ELSE IF IsSetAddress(y.packet) /\ y.packet.value < 256
                 THEN A(y, y.packet.value % 128, "addressed") ELSE A(y, 0, "waiting")
    BY DEF AddressCallback, Address, IsSetAddress
  <2>4. x.packet.value % 128 \in 0..127 /\ 0 \in 0..127
    <3>1. x.packet.value \in Nat
      BY Words DEF Devices, SetupPackets
    <3> QED BY <3>1
  <2>5. /\ M(x) \in Devices /\ M(x).usbState = x.usbState /\ M(x).packet = x.packet
        /\ \A n \in 0..127, s \in DeviceStates :
             A(x, n, s) \in Devices /\ A(M(x), n, s) = M(A(x, n, s))
        /\ "addressed" \in DeviceStates /\ "waiting" \in DeviceStates
    BY <1>1, <1>2, <2>2 DEF DeviceStates
  <2> HIDE DEF A, M
  <2>6. AddressCallback(x) \in Devices /\ AddressCallback(M(x)) = M(AddressCallback(x))
    BY <2>3, <2>4, <2>5
  <2> QED BY <1>1, <2>1, <2>6 DEF RunCallback
<1>7. CASE d.usbCtrlState = "dataTX"
  <2>1. /\ M(d).usbCtrlState = "dataTX" /\ WriteEP(M(d)) = M(WriteEP(d))
        /\ M(WriteEP(d)).in = WriteEP(d).in /\ "statusRX" \in CtrlStates
    BY <1>1, <1>4, <1>5, <1>7 DEF CtrlStates
  <2>4. [M(WriteEP(d)) EXCEPT !.usbCtrlState = "statusRX"]
          = M([WriteEP(d) EXCEPT !.usbCtrlState = "statusRX"])
    BY <1>3, <1>5, <2>1
  <2> HIDE DEF M
  <2>2. HandleControllerInPacket(d) =
          IF WriteEP(d).in.transferCount = 0
          THEN [WriteEP(d) EXCEPT !.usbCtrlState = "statusRX"] ELSE WriteEP(d)
    BY <1>7 DEF HandleControllerInPacket
  <2>3. HandleControllerInPacket(M(d)) =
          IF WriteEP(d).in.transferCount = 0
          THEN [M(WriteEP(d)) EXCEPT !.usbCtrlState = "statusRX"] ELSE M(WriteEP(d))
    BY <2>1 DEF HandleControllerInPacket
  <2>5. HandleControllerInPacket(M(d)) = M(HandleControllerInPacket(d))
    BY <2>2, <2>3, <2>4
  <2> QED BY <2>5 DEF M
<1>8. CASE d.usbCtrlState # "dataTX"
  BY <1>1, <1>3, <1>5, <1>6, <1>8 DEF HandleControllerInPacket, CtrlStates
<1> QED BY <1>7, <1>8

\* The host asks, when nothing is under way or by giving up what it may.
LEMMA AskFollows ==
  ASSUME Patient, host \in Hosts, NEW d, NEW o, Following(d, host),
         NEW r \in Requests, HostAsks(r), d.hw.addr = host.addr,
         d.hw.rxPacket = NoPacket, SameButEP0(d, o),
         o.hw.rxPacket = [kind |-> "setup", data |-> r, count |-> 8],
         o.hw.tx = "nack", o.hw.txComplete => d.hw.txComplete /\ ReadsThrough
  PROVE  Following(o, host')
<1> DEFINE h == host
           k == host'
<1>1. /\ h.phase = "idle" \/ h.req \in Abandonable
      /\ k.phase = FirstPhase(r) /\ k.req = r /\ k.got = 0 /\ k.addr = h.addr
      /\ k.cfg = IF IsSetConfiguration(r) THEN 0 ELSE h.cfg
  BY DEF HostAsks, Hosts
<1>2. /\ o.hw.rxPacket.kind = "setup" /\ o.hw.rxPacket.data = r
      /\ o.hw.rxPacket.count = 8 /\ NoPacket.kind = "none"
  BY DEF NoPacket
<1>3. /\ IsSetAddress(r) => h.addr = 0
      /\ IsSetConfiguration(r) => h.addr # 0
  BY DEF HostAsks, InOrder, IsSetAddress, IsSetConfiguration
<1> HIDE DEF h, k
<1>4. Following(d, h) /\ d.hw.rxPacket.kind = "none" /\ d.hw.addr = h.addr
  BY <1>2 DEF h
<1>5. /\ d.usbCtrlState # "dataRX" /\ ~d.in.isMultiPart
      /\ ~(d.usbCtrlState = "dataTX" /\ o.hw.txComplete)
  BY <1>1, <1>4
     DEF Following, Receiving, Transferring, Writing, Finishing, Refused, Armed,
         Acking, Patient
<1>6. /\ k.phase \in {"statusIn", "dataIn", "dataOut"}
      /\ k.phase \in {"dataIn", "dataOut"} => r.length # 0
  <2>1. r.dir \in {"in", "out"}
    BY HostAssumption DEF HostAssumption, SetupPackets
  <2> QED BY <1>1, <2>1 DEF FirstPhase
<1>7. Receiving(o, k)
  BY <1>1, <1>2, <1>4, <1>5, <1>6
     DEF Following, Receiving, SameButEP0, SameAddress
<1>8. Transferring(o, k)
  BY <1>1, <1>2, <1>5, <1>6 DEF Transferring, SameButEP0
<1>9. ~Ready(o, k)
  BY <1>2 DEF Ready
<1>10. d.usbState = "addressing" => d.packet.value = 0 /\ h.addr = 0
  <2>1. ASSUME d.usbState = "addressing", ~d.hw.txComplete PROVE FALSE
    BY <1>1, <1>4, <2>1 DEF Following, Addressed, Ready, Patient
  <2> QED BY <1>4, <2>1 DEF Following, Addressed
<1>11. Addressed(o, k)
  BY <1>1, <1>2, <1>3, <1>4, <1>9, <1>10
     DEF Following, Addressed, SameButEP0, SameAddress
<1>12. ConfiguredTo(o, k)
  BY <1>1, <1>3, <1>4, <1>9
     DEF Following, ConfiguredTo, Chosen, Up, SameButEP0, SameConfig
<1> QED BY <1>7, <1>8, <1>11, <1>12 DEF Following, k

\* The host takes a packet of a read, or the acknowledgement of its request.
LEMMA TakenFollows ==
  ASSUME Mannerly, host \in Hosts, NEW d, Sound(d), NEW o,
         Following(d, host), d.hw.tx = "valid", HostTakes(d.hw.txData.len),
         SameButEP0(d, o), o.hw.tx = "nack", o.hw.txComplete,
         o.hw.rx = d.hw.rx, o.hw.rxPacket = d.hw.rxPacket
  PROVE  /\ Following(o, host') /\ ~d.hw.txComplete
         /\ d.hw.rxPacket = NoPacket
         /\ host.phase = "statusIn" => d.hw.txData.len = 0
<1> DEFINE h   == host
           k   == host'
           len == d.hw.txData.len
<1>1. /\ h.phase = "statusIn" => k = Acknowledged
      /\ h.phase = "dataIn" =>
           /\ k.got = h.got + len /\ k.req = h.req
           /\ k.addr = h.addr /\ k.cfg = h.cfg
           /\ k.phase = IF len < epBufferSize \/ h.got + len >= h.req.length
                        THEN "statusOut" ELSE "dataIn"
      /\ h.phase \in {"dataIn", "statusIn"}
  BY DEF HostTakes, Hosts
<1>2. h.phase = "statusIn" =>
        /\ k.phase = "idle" /\ k.req = ZeroPacket
        /\ k.addr = IF IsSetAddress(h.req) THEN h.req.value ELSE h.addr
        /\ k.cfg = IF IsSetConfiguration(h.req) THEN h.req.value ELSE h.cfg
  BY <1>1 DEF Acknowledged, Hosts
<1> HIDE DEF h, k
<1>3. Following(d, h) /\ h \in Hosts
  BY DEF h
<1>4. d.hw.rxPacket.kind = "none"
  <2>1. d.hw.rxPacket.kind \in {"none", "setup", "out"}
    BY Fields DEF Registers, RxPackets
  <2> QED BY <1>1, <1>3, <2>1
          DEF Following, Receiving, Transferring, Finishing, Refused, Armed
<1>5. /\ d.hw.rxPacket = NoPacket /\ d.hw.rx = "valid" /\ h.req \in Requests
      /\ d.hw.enabled /\ d.usbState \in Served
      /\ d.in.isMultiPart => h.phase = "dataIn" /\ h.req \notin Abandonable
  BY <1>1, <1>3, <1>4 DEF Following, Receiving, Transferring
<1>6. /\ d.usbState # "addressing" => d.hw.addr = h.addr
      /\ IsSetAddress(h.req) => h.addr = 0
      /\ d.usbState = "addressing" /\ ~d.hw.txComplete =>
           /\ d.hw.addr = 0 /\ d.setupCallback = "address" /\ d.packet = h.req
           /\ IsSetAddress(d.packet) /\ d.usbCtrlState \in {"statusTX", "statusRX"}
           /\ h.phase = "statusIn"
  BY <1>1, <1>3, <1>4 DEF Following, Addressed, Ready
<1>7. CASE h.phase = "statusIn"
  <2>1. Acking(d) /\ Ready(d, h)
    BY <1>3, <1>4, <1>7 DEF Following, Transferring, Finishing, Refused, Ready
  <2>2. ~d.hw.txComplete /\ d.usbCtrlState \in {"statusTX", "statusRX"} /\ len = 0
    BY <2>1 DEF Acking
  <2>3. /\ ~IsSetAddress(ZeroPacket) /\ ~IsSetConfiguration(ZeroPacket)
        /\ ~(IsSetAddress(h.req) /\ IsSetConfiguration(h.req))
    BY DEF IsSetAddress, IsSetConfiguration, ZeroPacket
  <2>4. Receiving(o, k) /\ Transferring(o, k) /\ ~Ready(o, k)
    BY <1>2, <1>4, <1>5, <1>7, <2>2
       DEF Receiving, Transferring, Ready, SameButEP0, SameAddress
  <2>5. Addressed(o, k)
    <3>1. CASE IsSetAddress(h.req)
      <4>1. d.usbState = "addressing"
        BY <1>3, <2>1, <3>1 DEF Following, Addressed
      <4>2. h.req.value < 128
        BY <1>5, <3>1 DEF Mannerly, WellFormed
      <4> QED BY <1>2, <1>4, <1>6, <1>7, <2>2, <2>3, <2>4, <3>1, <4>1, <4>2
              DEF Addressed, SameButEP0, SameAddress
    <3>2. CASE ~IsSetAddress(h.req)
      <4>1. d.usbState # "addressing"
        BY <1>6, <2>2, <3>2
      <4> QED BY <1>2, <1>6, <1>7, <2>3, <2>4, <3>2, <4>1
              DEF Addressed, SameButEP0, SameAddress
    <3> QED BY <3>1, <3>2
  <2>6. ConfiguredTo(o, k)
    BY <1>2, <1>3, <1>7, <2>1, <2>3, <2>4
       DEF Following, ConfiguredTo, Chosen, Up, SameButEP0, SameConfig
  <2> QED BY <1>5, <1>7, <2>2, <2>4, <2>5, <2>6 DEF Following, h, k
<1>8. CASE h.phase = "dataIn"
  <2>1. /\ Offered(d, h) /\ h.req.dir = "in" /\ h.req.length # 0
        /\ ~d.hw.txComplete
    BY <1>3, <1>4, <1>8 DEF Following, Transferring, Reading, Refused, Sent, Offered
  <2>2. IF d.in.transferCount = 0
        THEN len < epBufferSize \/ h.got + len >= h.req.length
        ELSE /\ ~(len < epBufferSize \/ h.got + len >= h.req.length)
             /\ \E size \in Extent(Asked(h.req)) \cap Nat :
                  h.got + len + d.in.transferCount = Least(size, h.req.length)
             /\ \/ h.got + len + d.in.transferCount = h.req.length
                \/ ~WholePackets(d.in.transferCount)
    BY <1>3, <2>1, OfferedTaken
  <2>3. /\ k.phase = IF d.in.transferCount = 0 THEN "statusOut" ELSE "dataIn"
        /\ ~IsSetAddress(h.req) /\ ~IsSetConfiguration(h.req)
    BY <1>1, <1>5, <1>8, <2>1, <2>2, DataStageRequest
  <2>4. d.in.transferCount # 0 /\ ReadsThrough => h.req \notin Abandonable
    <3>1. SUFFICES ASSUME d.in.transferCount # 0, h.req \in Abandonable, ReadsThrough
                   PROVE  FALSE
      OBVIOUS
    <3>2. h.req.length <= epBufferSize
      BY <2>1, <3>1 DEF ReadsThrough
    <3>3. len \in Nat /\ h.got \in Nat /\ h.req.length \in Nat /\ epBufferSize \in Nat
      BY <1>3, Fields, Words, PacketSize DEF Registers, Hosts, SetupPackets
    <3> HIDE DEF len
    <3> QED BY <2>2, <3>1, <3>2, <3>3
  <2>5. d.usbCtrlState = IF d.in.transferCount = 0 THEN "statusRX" ELSE "dataTX"
    BY <2>1 DEF Offered
  <2>6. d.usbState # "addressing"
    BY <1>6, <1>8, <2>1
  <2>7. Receiving(o, k)
    BY <1>1, <1>4, <1>5, <1>8, <2>3, <2>4, <2>5
       DEF Receiving, SameButEP0, SameAddress
  <2>8. Transferring(o, k)
    <3>1. CASE d.in.transferCount = 0
      <4>1. ~d.in.isMultiPart
        BY <2>1, <3>1 DEF Offered
      <4> QED BY <1>1, <1>4, <1>5, <1>8, <2>1, <2>3, <2>5, <3>1, <4>1
              DEF Transferring, SameButEP0
    <3>2. CASE d.in.transferCount # 0
      <4>1. Remaining(k, o.in.transferCount)
        BY <1>1, <1>8, <2>2, <3>2 DEF Remaining, SameButEP0
      <4>2. Sent(o, k)
        BY <1>1, <1>8, <2>1, <3>2, <4>1 DEF Sent, Offered, SameButEP0
      <4> QED BY <1>1, <1>4, <1>5, <1>8, <2>1, <2>3, <3>2, <4>2
              DEF Transferring, Reading, SameButEP0
    <3> QED BY <3>1, <3>2
  <2>9. ~Ready(o, k)
    BY <2>3 DEF Ready
  <2>10. Addressed(o, k)
    BY <1>1, <1>6, <1>8, <2>3, <2>6, <2>9 DEF Addressed, SameButEP0, SameAddress
  <2>11. ConfiguredTo(o, k)
    BY <1>1, <1>3, <1>8, <2>3, <2>9
       DEF Following, ConfiguredTo, Chosen, Up, SameButEP0, SameConfig
  <2> QED BY <1>5, <1>8, <2>1, <2>7, <2>8, <2>10, <2>11 DEF Following, h, k
<1> QED BY <1>1, <1>7, <1>8

\* The host takes the refusal of its request.
LEMMA RefusedFollows ==
  ASSUME host \in Hosts, NEW d, Sound(d), NEW o, Following(d, host),
         d.hw.tx = "stall", host.phase \in {"dataIn", "dataOut", "statusIn"},
         HostRefused, SameButEP0(d, o), o.hw.rx = d.hw.rx,
         o.hw.rxPacket = d.hw.rxPacket, o.hw.tx \in {"stall", "nack"}
  PROVE  Following(o, host') /\ d.usbCtrlState = "idle"
<1> DEFINE h == host
           k == host'
<1>1. /\ k.phase = "idle" /\ k.req = ZeroPacket /\ k.got = 0
      /\ k.addr = h.addr /\ k.cfg = h.cfg
  BY DEF HostRefused, Hosts
<1>2. /\ ~IsSetAddress(ZeroPacket) /\ ~IsSetConfiguration(ZeroPacket)
      /\ NoPacket.kind = "none"
  BY DEF IsSetAddress, IsSetConfiguration, ZeroPacket, NoPacket
<1> HIDE DEF h, k
<1>3. Following(d, h) /\ h.phase \in {"dataIn", "dataOut", "statusIn"}
  BY DEF h
<1>4. d.hw.rxPacket.kind \in {"none", "out"}
  <2>1. d.hw.rxPacket.kind \in {"none", "setup", "out"}
    BY Fields DEF Registers, RxPackets
  <2> QED BY <1>3, <2>1 DEF Following, Receiving
<1>5. d.usbCtrlState = "idle" /\ ~d.in.isMultiPart
  BY <1>3, <1>4
     DEF Following, Transferring, Reading, Writing, Finishing, Refused, Offered,
         Sent, Armed, Acking
<1>6. d.usbState # "addressing"
  BY <1>3, <1>5 DEF Following, Addressed
<1>7. ~Ready(o, k)
  BY <1>1 DEF Ready
<1>8. Receiving(o, k)
  BY <1>1, <1>2, <1>3, <1>4, <1>5
     DEF Following, Receiving, SameButEP0, SameAddress
<1>9. Transferring(o, k)
  BY <1>1, <1>5 DEF Transferring, SameButEP0
<1>10. Addressed(o, k)
  BY <1>1, <1>2, <1>3, <1>6, <1>7
     DEF Following, Addressed, SameButEP0, SameAddress
<1>11. ConfiguredTo(o, k)
  BY <1>1, <1>2, <1>3, <1>7
     DEF Following, ConfiguredTo, Chosen, Up, SameButEP0, SameConfig
<1> QED BY <1>5, <1>8, <1>9, <1>10, <1>11 DEF Following, k

\* The host sends a packet of a write.
LEMMA DataSentFollows ==
  ASSUME Mannerly, host \in Hosts, NEW d, Sound(d), NEW o, Following(d, host),
         d.hw.rxPacket = NoPacket, host.phase = "dataOut", NEW data,
         d.usbCtrlState = "dataRX" \/ Inert(data),
         SameButEP0(d, o), o.hw.tx = d.hw.tx, o.hw.txComplete = d.hw.txComplete,
         HostSends(Least(host.req.length - host.got, epBufferSize)),
         o.hw.rxPacket =
           [kind |-> "out", data |-> data,
            count |-> Least(host.req.length - host.got, epBufferSize)]
  PROVE  Following(o, host') /\ ~d.hw.txComplete
<1> DEFINE count == Least(host.req.length - host.got, epBufferSize)
           h == host
           k == host'
           p == [kind |-> "out", data |-> data, count |-> count]
<1>1. /\ k.got = h.got + count /\ k.req = h.req
      /\ k.addr = h.addr /\ k.cfg = h.cfg
      /\ k.phase = IF h.got + count = h.req.length THEN "statusIn" ELSE "dataOut"
  BY DEF HostSends, Hosts
<1>2. /\ p.kind = "out" /\ p.data = data /\ p.count = count
      /\ NoPacket.kind = "none" /\ NoPacket.count = 0
  BY DEF NoPacket
<1>3. h.got \in Nat /\ h.req.length \in Nat
  BY Words DEF Hosts, SetupPackets
<1>4. count = Least(h.req.length - h.got, epBufferSize) /\ o.hw.rxPacket = p
  OBVIOUS
<1> HIDE DEF h, k, p, count
<1>5. Following(d, h) /\ h.phase = "dataOut"
  BY DEF h
<1>6. /\ h.req.dir = "out" /\ h.got < h.req.length
      /\ Refused(d) \/ Armed(d, h)
      /\ h.req \in Requests /\ h.req.length # 0
      /\ ~d.in.isMultiPart /\ ~d.hw.txComplete
  BY <1>2, <1>5 DEF Following, Transferring, Writing, Refused, Armed
<1>7. /\ count \in Nat /\ k.got \in Nat /\ k.got <= h.req.length
  <2>1. count \in Nat /\ count <= h.req.length - h.got
    BY <1>3, <1>4, <1>6, PacketSize DEF Least
  <2> QED BY <1>1, <1>3, <2>1
<1>8. /\ k.phase = "dataOut" => k.got < k.req.length
      /\ k.phase = "statusIn" => k.got = k.req.length
      /\ k.phase \in {"dataOut", "statusIn"}
  BY <1>1, <1>3, <1>7
<1>9. Refused(o) \/ Armed(o, k)
  <2>1. CASE Refused(d)
    BY <2>1 DEF Refused, SameButEP0
  <2>2. CASE Armed(d, h)
    <3>1. d.out.transferCount = h.req.length - h.got + 0
      BY <1>2, <2>2 DEF Armed
    <3>2. d.out.transferCount = k.req.length - k.got + count
      BY <1>1, <1>3, <1>7, <3>1
    <3> QED BY <1>2, <1>4, <2>2, <3>2 DEF Armed, SameButEP0
  <2> QED BY <1>6, <2>1, <2>2
<1>10. Receiving(o, k)
  BY <1>2, <1>4, <1>5, <1>6, <1>8
     DEF Following, Receiving, SameButEP0, SameAddress
<1>11. Transferring(o, k)
  BY <1>1, <1>2, <1>4, <1>6, <1>8, <1>9
     DEF Transferring, Writing, Finishing, SameButEP0
<1>12. /\ ~IsSetAddress(h.req) /\ ~IsSetConfiguration(h.req) /\ ~Ready(o, k)
  BY <1>2, <1>4, <1>6, DataStageRequest DEF Ready
<1>13. d.usbState # "addressing"
  BY <1>2, <1>5, <1>6 DEF Following, Addressed, Ready
<1>14. Addressed(o, k)
  BY <1>1, <1>5, <1>12, <1>13 DEF Following, Addressed, SameButEP0, SameAddress
<1>15. ConfiguredTo(o, k)
  BY <1>1, <1>5, <1>12
     DEF Following, ConfiguredTo, Chosen, Up, SameButEP0, SameConfig
<1> QED BY <1>6, <1>10, <1>11, <1>14, <1>15 DEF Following, k

\* The host sends the status stage of a read, also of one it gives up.
LEMMA StatusSentFollows ==
  ASSUME Mannerly, host \in Hosts, NEW d, Sound(d), NEW o,
         Following(d, host), d.hw.rxPacket = NoPacket,
         host.phase = "statusOut"
           \/ (host.phase = "dataIn" /\ host.req \in Abandonable),
         host' = Acknowledged, SameButEP0(d, o),
         \/ /\ o.hw.rxPacket = [kind |-> "out", data |-> ZeroPacket, count |-> 0]
            /\ ReadsThrough
         \/ o.hw.rxPacket = NoPacket /\ o.hw.rx = "valid"
  PROVE  Following(o, host')
<1> DEFINE h == host
           k == host'
           p == [kind |-> "out", data |-> ZeroPacket, count |-> 0]
<1>1. /\ k.phase = "idle" /\ k.req = ZeroPacket
      /\ ~IsSetAddress(h.req) => k.addr = h.addr
      /\ ~IsSetConfiguration(h.req) => k.cfg = h.cfg
  BY DEF Acknowledged, Hosts
<1>2. /\ p.kind = "out" /\ p.data = ZeroPacket /\ Inert(ZeroPacket)
      /\ NoPacket.kind = "none"
      /\ ~IsSetAddress(ZeroPacket) /\ ~IsSetConfiguration(ZeroPacket)
  BY DEF NoPacket, Inert, IsSetAddress, IsSetConfiguration, ZeroPacket
<1>3. \/ o.hw.rxPacket = p /\ ReadsThrough
      \/ o.hw.rxPacket = NoPacket /\ o.hw.rx = "valid"
  OBVIOUS
<1> HIDE DEF h, k, p
<1>4. /\ Following(d, h) /\ h \in Hosts
      /\ h.phase = "statusOut" \/ (h.phase = "dataIn" /\ h.req \in Abandonable)
  BY DEF h
<1>5. /\ h.req \in Requests /\ h.req.length # 0 /\ ~d.in.isMultiPart
      /\ d.hw.enabled /\ d.usbState \in Served
  BY <1>4 DEF Following, Transferring, Receiving
<1>6. ~IsSetAddress(h.req) /\ ~IsSetConfiguration(h.req)
  BY <1>5, DataStageRequest
<1>7. d.usbState # "addressing"
  BY <1>2, <1>4, <1>6 DEF Following, Addressed, Ready
<1>8. d.usbCtrlState # "dataRX" /\ (ReadsThrough => d.usbCtrlState # "dataTX")
  <2>1. CASE h.phase = "statusOut"
    BY <1>4, <2>1 DEF Following, Receiving, Transferring
  <2>2. CASE h.phase = "dataIn" /\ h.req \in Abandonable
    <3>1. Reading(d, h) /\ d.usbCtrlState # "dataRX"
      BY <1>2, <1>4, <2>2 DEF Following, Receiving, Transferring
    <3>2. ReadsThrough => ~Sent(d, h)
      BY <1>4, <2>2 DEF Following, Receiving, Sent
    <3>3. Refused(d) => d.usbCtrlState # "dataTX"
      BY DEF Refused
    <3>4. ASSUME Offered(d, h), ReadsThrough PROVE d.usbCtrlState # "dataTX"
      <4>1. d.in.transferCount # 0 =>
              h.got + d.hw.txData.len < h.req.length
                /\ d.hw.txData.len >= epBufferSize
        <5>1. /\ d.hw.txData.len \in Nat /\ h.got \in Nat /\ h.req.length \in Nat
              /\ epBufferSize \in Nat
          BY <1>4, Fields, Words, PacketSize DEF Registers, Hosts, SetupPackets
        <5>2. d.in.transferCount # 0 =>
                ~(d.hw.txData.len < epBufferSize
                   \/ h.got + d.hw.txData.len >= h.req.length)
          BY <1>4, <3>4, OfferedTaken
        <5> QED BY <5>1, <5>2
      <4>2. h.req.length <= epBufferSize
        BY <2>2, <3>1, <3>4 DEF ReadsThrough, Reading
      <4>3. /\ d.hw.txData.len \in Nat /\ h.got \in Nat /\ h.req.length \in Nat
            /\ epBufferSize \in Nat
        BY <1>4, Fields, Words, PacketSize DEF Registers, Hosts, SetupPackets
      <4> QED BY <3>4, <4>1, <4>2, <4>3 DEF Offered
    <3> QED BY <3>1, <3>2, <3>3, <3>4 DEF Reading
  <2> QED BY <1>4, <2>1, <2>2
<1>9. Receiving(o, k)
  BY <1>1, <1>2, <1>3, <1>5, <1>8 DEF Receiving, SameButEP0, SameAddress
<1>10. Transferring(o, k)
  BY <1>1, <1>5 DEF Transferring, SameButEP0
<1>11. ~Ready(o, k)
  BY <1>1 DEF Ready
<1>12. Addressed(o, k)
  BY <1>1, <1>2, <1>4, <1>6, <1>7, <1>11
     DEF Following, Addressed, SameButEP0, SameAddress
<1>13. ConfiguredTo(o, k)
  BY <1>1, <1>2, <1>4, <1>6, <1>11
     DEF Following, ConfiguredTo, Chosen, Up, SameButEP0, SameConfig
<1> QED BY <1>9, <1>10, <1>12, <1>13 DEF Following, k

\* Between transfers a completion that stands for nothing changes nothing.
LEMMA SpuriousFollows ==
  ASSUME NEW d, NEW o, NEW h, Following(d, h), h.phase = "idle",
         d.usbState # "addressing", ReadsThrough => d.usbCtrlState # "dataTX",
         d.hw.rxPacket = NoPacket, SameButEP0(d, o), o.hw.tx = d.hw.tx,
         o.hw.rx = d.hw.rx, o.hw.rxPacket = d.hw.rxPacket
  PROVE  Following(o, h)
<1>1. ~Ready(o, h)
  BY DEF Ready
<1>2. Receiving(o, h)
  BY DEF Following, Receiving, SameButEP0, SameAddress, NoPacket
<1>3. Transferring(o, h)
  BY DEF Following, Transferring, SameButEP0
<1>4. Addressed(o, h)
  BY <1>1 DEF Following, Addressed, SameButEP0, SameAddress
<1>5. ConfiguredTo(o, h)
  BY <1>1 DEF Following, ConfiguredTo, Chosen, Up, SameButEP0, SameConfig
<1> QED BY <1>2, <1>3, <1>4, <1>5 DEF Following

-----------------------------------------------------------------------------
(* What the state machine makes of a device the host may have lost.        *)

LEMMA CallbackServed ==
  ASSUME NEW d, Sound(d), d.usbState \in Served
  PROVE  RunCallback(d).usbState \in Served
<1>1. ASSUME NEW v, NEW s \in Served, NEW b
      PROVE  [([Address(d, v) EXCEPT !.usbState = s])
               EXCEPT !.setupCallback = b].usbState \in Served
  <2> DEFINE g == [d.hw EXCEPT !.addr = v % 128, !.enabled = TRUE]
  <2>1. Address(d, v) = [d EXCEPT !.hw = g]
    BY DEF Address, Sound, Devices
  <2> HIDE DEF g
  <2> QED BY <2>1 DEF Sound, Devices
<1>2. [d EXCEPT !.setupCallback = "none"].usbState \in Served
  BY DEF Sound, Devices
<1> QED BY <1>1, <1>2 DEF RunCallback, AddressCallback, Served

LEMMA StandardServed ==
  ASSUME NEW d, Sound(d), d.usbState \in Served, NEW altOk
  PROVE  HandleStandardRequest(d, altOk).dev.usbState \in Served
<1>1. CASE IsSetAddress(d.packet)
  <2>1. HandleStandardRequest(d, altOk) = HandleSetAddress(d)
    BY <1>1 DEF HandleStandardRequest, IsSetAddress
  <2> QED BY <1>1, <2>1, SetAddressEffects DEF Effects, Served
<1>2. CASE IsSetConfiguration(d.packet)
  <2>1. HandleStandardRequest(d, altOk) = HandleSetConfiguration(d)
    BY <1>2 DEF HandleStandardRequest, IsSetConfiguration
  <2> QED BY <1>2, <2>1, SetConfigurationEffects DEF Effects, Served
<1>3. CASE ~IsSetAddress(d.packet) /\ ~IsSetConfiguration(d.packet)
  BY <1>3, OtherEffects DEF Effects
<1> QED BY <1>1, <1>2, <1>3

LEMMA SetupServed ==
  ASSUME NEW d, Sound(d), d.usbState \in Served, NEW rx \in RxPackets,
         NEW ans \in Answers
  PROVE  HandleSetupPacket(d, rx, ans).usbState \in Served
<1> DEFINE read     == ReadSetup(d, rx)
           fresh    == FreshReply(read)
           standard == HandleStandardRequest(fresh, ans.altOk)
           reply    == IF standard.response = "unhandled"
                          /\ read.activeConfig # 0
                       THEN ClassRequest(standard.dev, ans) ELSE standard
           o        == HandleSetupPacket(d, rx, ans)
<1>1. Sound(read) /\ Keeps(d, read) /\ Sound(fresh) /\ Keeps(d, fresh)
  BY SetupRead
<1> HIDE DEF read
<1>2. CASE read.out.transferCount # 0
  <2>1. o = StallEP(read)
    BY <1>2 DEF HandleSetupPacket, read
  <2> QED BY <1>1, <2>1, KeepsBuffers, KeepsTogether, 0 \in Nat
          DEF Keeps, SameAddress
<1>3. CASE read.out.transferCount = 0
  <2>1. fresh.usbState \in Served
    BY <1>1 DEF Keeps, SameAddress
  <2> HIDE DEF fresh
  <2>2. SoundReply(standard) /\ standard.dev.usbState \in Served
    BY <1>1, <2>1, HandleStandardRequestSound, StandardServed
  <2> HIDE DEF standard
  <2>3. SoundReply(reply) /\ reply.dev.usbState \in Served
    BY <2>2, ClassRequestSound, ClassRequestKeeps DEF SoundReply, Keeps, SameAddress
  <2> HIDE DEF reply
  <2>4. Keeps(reply.dev, CompleteSetupPacket(ArmReply(reply)))
    BY <2>3, ArmReplySound, ArmReplyKeeps, CompleteKeeps, KeepsTogether DEF SoundReply
  <2>5. o = CompleteSetupPacket(ArmReply(reply))
    BY <1>3 DEF HandleSetupPacket, read, fresh, standard, reply
  <2> QED BY <2>3, <2>4, <2>5 DEF Keeps, SameAddress
<1> QED BY <1>2, <1>3

\* The device stays in the states in which its endpoints are served, whatever
\* is received.
LEMMA ReceivedServed ==
  ASSUME NEW d, Sound(d), d.usbState \in Served, NEW rx \in RxPackets,
         NEW ans \in Answers
  PROVE  HandleControlPacketByState(d, rx, ans).usbState \in Served
<1> DEFINE read == ReadEP(d, rx.count)
           arm  == [read EXCEPT !.in.needsArming = TRUE]
           ack  == [arm EXCEPT !.usbCtrlState = "statusTX"]
           full == WriteEP(ack)
           idle == [d EXCEPT !.usbCtrlState = "idle"]
           o    == HandleControllerOutPacket(d, rx, ans)
<1>1. CASE d.usbCtrlState # "dataRX"
  <2>1. Sound(idle) /\ idle.usbState \in Served
    <3>1. Sound(idle)
      BY SetCtrlState DEF CtrlStates
    <3> QED BY <3>1 DEF Sound, Devices
  <2> HIDE DEF idle
  <2>2. Sound(RunCallback(idle)) /\ RunCallback(idle).usbState \in Served
    BY <2>1, RunCallbackSound, CallbackServed
  <2>3. o = HandleSetupPacket(RunCallback(idle), rx, ans)
    BY <1>1 DEF HandleControllerOutPacket, idle
  <2>4. o.usbState \in Served
    BY <2>2, <2>3, SetupServed
  <2> QED BY <2>4, SetupServed DEF HandleControlPacketByState
<1>2. CASE d.usbCtrlState = "dataRX"
  <2>1. Sound(read) /\ Keeps(d, read)
    BY Words, ReadEPSound, KeepsBuffers DEF RxPackets
  <2> HIDE DEF read
  <2>2. Sound(ack) /\ Keeps(read, ack)
    <3>1. Sound(arm)
      <4>1. [read.in EXCEPT !.needsArming = TRUE] \in EpIn
        BY <2>1, Fields DEF EpIn
      <4> QED BY <2>1, <4>1, SetIn
    <3>2. Sound(ack)
      <4> HIDE DEF arm
      <4> QED BY <3>1, SetCtrlState DEF CtrlStates
    <3> QED BY <2>1, <3>2 DEF Keeps, Untouched, SameConfig, SameAddress, Sound, Devices
  <2> HIDE DEF ack
  <2>3. Sound(full) /\ Keeps(d, full)
    BY <2>1, <2>2, WriteEPSound, KeepsWriteEP, KeepsTogether
  <2> HIDE DEF full
  <2>4. RunCallback(full).usbState \in Served
    BY <2>3, CallbackServed DEF Keeps, SameAddress
  <2>5. o \in {read, RunCallback(full)}
    BY <1>2 DEF HandleControllerOutPacket, read, full, ack, arm
  <2>6. HandleControlPacketByState(d, rx, ans) = o
    BY <1>2 DEF HandleControlPacketByState
  <2> QED BY <2>1, <2>4, <2>5, <2>6 DEF Keeps, SameAddress
<1> QED BY <1>1, <1>2

\* A packet sent leaves the receive half, and begins no write.
LEMMA SentState ==
  ASSUME NEW d, Sound(d)
  PROVE  LET o == HandleControllerInPacket(d)
         IN  /\ o.usbCtrlState # "dataRX" /\ o.hw.rx = d.hw.rx
             /\ d.usbState \in Served => o.usbState \in Served
<1> DEFINE e == [d EXCEPT !.usbCtrlState = "idle"]
           w == WriteEP(d)
           s == [w EXCEPT !.usbCtrlState = "statusRX"]
<1>1. /\ Sound(e) /\ e.usbCtrlState = "idle" /\ e.hw.rx = d.hw.rx
      /\ e.usbState = d.usbState
  <2>1. Sound(e)
    BY SetCtrlState DEF CtrlStates
  <2> QED BY <2>1, EntersState DEF Sound, Devices
<1>2. /\ RunCallback(e).usbCtrlState = "idle" /\ RunCallback(e).hw.rx = d.hw.rx
      /\ d.usbState \in Served => RunCallback(e).usbState \in Served
  <2> HIDE DEF e
  <2> QED BY <1>1, CallbackRuns, CallbackServed DEF SameReceiver
<1>3. /\ Sound(w) /\ w.usbCtrlState = d.usbCtrlState /\ w.hw.rx = d.hw.rx
      /\ w.usbState = d.usbState
  BY WriteEPSound, WriteEPWrites, KeepsWriteEP DEF SameReceiver, Keeps, SameAddress
<1>4. s.usbCtrlState = "statusRX" /\ s.hw.rx = w.hw.rx /\ s.usbState = w.usbState
  <2> HIDE DEF w
  <2> QED BY <1>3, EntersState DEF Sound, Devices
<1> HIDE DEF e, w, s
<1>5. HandleControllerInPacket(d)
        = IF d.usbCtrlState = "dataTX"
          THEN IF w.in.transferCount = 0 THEN s ELSE w
          ELSE RunCallback(e)
  BY DEF HandleControllerInPacket, e, w, s
<1> QED BY <1>2, <1>3, <1>4, <1>5

\* Endpoints that still run although no configuration does are none of the
\* host's business.
LEMMA EndpointsFollow ==
  ASSUME NEW d, Sound(d), NEW n, NEW h, Following(d, h), d.hw.eps = 0
  PROVE  Following([d EXCEPT !.hw.eps = n], h)
<1> DEFINE g == [d.hw EXCEPT !.eps = n]
           o == [d EXCEPT !.hw = g]
<1>1. o = [d EXCEPT !.hw.eps = n]
  BY DEF Sound, Devices
<1>2. /\ g.rxPacket = d.hw.rxPacket /\ g.addr = d.hw.addr /\ g.enabled = d.hw.enabled
      /\ g.tx = d.hw.tx /\ g.rx = d.hw.rx /\ g.txData = d.hw.txData
      /\ g.txComplete = d.hw.txComplete
  BY Fields DEF Registers
<1> HIDE DEF g
<1>3. /\ o.hw = g /\ o.in = d.in /\ o.out = d.out /\ o.packet = d.packet
      /\ o.usbCtrlState = d.usbCtrlState /\ o.usbState = d.usbState
      /\ o.activeConfig = d.activeConfig /\ o.setupCallback = d.setupCallback
  BY RegistersReplaced
<1> HIDE DEF o
<1>4. Receiving(o, h)
  BY <1>2, <1>3 DEF Following, Receiving
<1>5. Transferring(o, h)
  <2>1. /\ Refused(d) <=> Refused(o)
        /\ Acking(d) <=> Acking(o)
    BY <1>2, <1>3 DEF Refused, Acking
  <2>2. Armed(d, h) => Armed(o, h)
    BY <1>2, <1>3 DEF Armed
  <2>3. Offered(d, h) => Offered(o, h)
    BY <1>2, <1>3 DEF Offered
  <2>4. Sent(d, h) => Sent(o, h)
    BY <1>2, <1>3 DEF Sent
  <2> QED BY <1>2, <1>3, <2>1, <2>2, <2>3, <2>4
          DEF Following, Transferring, Reading, Writing, Finishing
<1>6. Addressed(o, h)
  BY <1>2, <1>3 DEF Following, Addressed, Ready
<1>7. ConfiguredTo(o, h)
  <2>1. ~Chosen(d)
    BY DEF Chosen, Up
  <2> QED BY <1>2, <1>3, <2>1 DEF Following, ConfiguredTo, Ready
<1> QED BY <1>1, <1>4, <1>5, <1>6, <1>7 DEF Following

-----------------------------------------------------------------------------
(* The steps of a chip, in the contract: what the host does to EP0, and    *)
(* what its handlers leave there.                                          *)

LEMMA AskShows ==
  ASSUME host \in Hosts, NEW r \in Requests, HostAsks(r),
         SameButEP0(dev, dev'), dev'.hw.tx = "nack"
  PROVE  Contract!Next
<1>1. /\ host.phase = "idle" \/ host.req \in Abandonable
      /\ host'.phase = FirstPhase(r) /\ host'.req = r /\ host'.got = 0
      /\ host'.addr = host.addr
  BY DEF HostAsks, Hosts
<1>2. host.phase # "gone" /\ AddressOf(dev, host) = host.addr
  BY DEF HostAsks, Reachable, AddressOf, Resetting
<1>3. host'.phase \in {"statusIn", "dataIn", "dataOut"}
  <2>1. r.dir \in {"in", "out"}
    BY HostAssumption DEF HostAssumption, SetupPackets
  <2> QED BY <1>1, <2>1 DEF FirstPhase
<1>4. Offer(dev', host') = Contract!Nothing
  BY NothingOffered
<1>5. /\ Running(dev', host') = Running(dev, host)
      /\ AddressOf(dev', host') = AddressOf(dev, host)
  BY <1>2, <1>3, EP0Frame
<1>6. Contract!Ask(r)
  BY <1>1, <1>2, <1>4, <1>5 DEF Contract!Ask, Contract!Active, FirstPhase
<1> QED BY <1>6 DEF Contract!Next, Contract!Host

LEMMA TakeShows ==
  ASSUME host \in Hosts, dev.hw.tx = "valid", HostTakes(dev.hw.txData.len),
         host.phase = "statusIn" => dev.hw.txData.len = 0,
         SameButEP0(dev, dev'), dev'.hw.tx = "nack"
  PROVE  Contract!Next
<1> DEFINE len == dev.hw.txData.len
<1>1. host.phase \in {"dataIn", "statusIn"}
  BY DEF HostTakes
<1>2. Offer(dev', host') = Contract!Nothing
  BY NothingOffered
<1>3. CASE host.phase = "dataIn"
  <2> DEFINE got == host.got + len
  <2>1. /\ host'.got = got /\ host'.req = host.req /\ host'.addr = host.addr
        /\ host'.phase = IF len < epBufferSize \/ got >= host.req.length
                         THEN "statusOut" ELSE host.phase
    BY <1>3 DEF HostTakes, Hosts
  <2>2. Running(dev', host') = Running(dev, host)
        /\ AddressOf(dev', host') = AddressOf(dev, host)
    BY <1>3, <2>1, EP0Frame
  <2>3. /\ Offer(dev, host) = <<"data", dev.hw.txData.obj, dev.hw.txData.off, len>>
        /\ Offer(dev, host) \notin {Contract!Nothing, Contract!Refusal}
        /\ Offer(dev, host)[4] = len
    BY <1>3 DEF Offer, Contract!Nothing, Contract!Refusal
  <2> HIDE DEF len
  <2>4. Contract!Take
    BY <1>2, <1>3, <2>1, <2>2, <2>3 DEF Contract!Take
  <2> QED BY <2>4 DEF Contract!Next, Contract!Host
<1>4. CASE host.phase = "statusIn"
  <2>1. host' = Acknowledged
    BY <1>4 DEF HostTakes
  <2>2. /\ host'.phase = "idle" /\ host'.req = ZeroPacket /\ host'.got = 0
        /\ host'.addr = IF IsSetAddress(host.req) THEN host.req.value ELSE host.addr
    BY <2>1 DEF Acknowledged, Hosts
  <2>3. Running(dev', host') = Running(dev, host)
        /\ AddressOf(dev', host') = AddressOf(dev, host)
    BY <1>4, <2>2, EP0Frame
  <2>4. Offer(dev, host) = Contract!Ack
    BY <1>4 DEF Offer, Contract!Ack
  <2>5. Contract!TakeStatus
    BY <1>2, <1>4, <2>2, <2>3, <2>4
       DEF Contract!TakeStatus, Contract!Finish, Contract!SetsAddress, IsSetAddress
  <2> QED BY <2>5 DEF Contract!Next, Contract!Host
<1> QED BY <1>1, <1>3, <1>4

LEMMA RefusalShows ==
  ASSUME host \in Hosts, dev.hw.tx = "stall",
         host.phase \in {"dataIn", "dataOut", "statusIn"}, HostRefused,
         SameButEP0(dev, dev')
  PROVE  Contract!Next
<1>1. /\ host'.phase = "idle" /\ host'.req = ZeroPacket /\ host'.got = 0
      /\ host'.addr = host.addr
  BY DEF HostRefused, Hosts
<1>2. /\ Offer(dev, host) = Contract!Refusal
      /\ Offer(dev', host') = Contract!Nothing
  BY <1>1, Refusing, NothingOffered
<1>3. Running(dev', host') = Running(dev, host)
      /\ AddressOf(dev', host') = AddressOf(dev, host)
  BY <1>1, EP0Frame
<1>4. Contract!TakeRefusal
  BY <1>1, <1>2, <1>3 DEF Contract!TakeRefusal, Contract!Finish
<1> QED BY <1>4 DEF Contract!Next, Contract!Host

LEMMA SendShows ==
  ASSUME host \in Hosts, host.phase = "dataOut",
         HostSends(Least(host.req.length - host.got, epBufferSize)),
         SameButEP0(dev, dev'), dev'.hw.tx = dev.hw.tx,
         dev.hw.tx \in {"stall", "nack"}
  PROVE  Contract!Next
<1> DEFINE count == Least(host.req.length - host.got, epBufferSize)
<1>1. /\ host'.got = host.got + count /\ host'.req = host.req
      /\ host'.addr = host.addr
      /\ host'.phase = IF host.got + count = host.req.length THEN "statusIn"
                       ELSE host.phase
  BY DEF HostSends, Hosts
<1>2. count = Contract!Lesser(epBufferSize, host.req.length - host.got)
  <2>1. host.req.length - host.got \in Int /\ epBufferSize \in Int
    BY PacketSize, Words DEF Hosts, SetupPackets
  <2> QED BY <2>1 DEF Least, Contract!Lesser
<1> HIDE DEF count
<1>3. Offer(dev', host') = Offer(dev, host)
  BY <1>1, Refusing, NothingOffered
<1>4. Running(dev', host') = Running(dev, host)
      /\ AddressOf(dev', host') = AddressOf(dev, host)
  BY <1>1, EP0Frame
<1>5. Contract!Send
  BY <1>1, <1>2, <1>3, <1>4 DEF Contract!Send
<1> QED BY <1>5 DEF Contract!Next, Contract!Host

LEMMA StatusShows ==
  ASSUME host \in Hosts, host' = Acknowledged, ~IsSetAddress(host.req),
         host.phase = "statusOut"
           \/ (host.phase = "dataIn" /\ host.req \in Abandonable),
         SameButEP0(dev, dev')
  PROVE  Contract!Next
<1>1. /\ host'.phase = "idle" /\ host'.req = ZeroPacket /\ host'.got = 0
      /\ host'.addr = host.addr
  BY DEF Acknowledged, Hosts
<1>2. Offer(dev', host') = Contract!Nothing
  BY <1>1, NothingOffered
<1>3. Running(dev', host') = Running(dev, host)
      /\ AddressOf(dev', host') = AddressOf(dev, host)
  BY <1>1, EP0Frame
<1>4. Contract!SendStatus
  BY <1>1, <1>2, <1>3 DEF Contract!SendStatus, Contract!Finish
<1> QED BY <1>4 DEF Contract!Next, Contract!Host

\* While the device counts as reset EP0 serves nobody.
LEMMA UnseenShows ==
  ASSUME SameTransfer(host, host'), host.phase \in {"idle", "gone"},
         Resetting(dev, host), Resetting(dev', host')
  PROVE  UNCHANGED Contract!vars
<1>1. host'.phase \in {"idle", "gone"}
  BY DEF SameTransfer
<1> QED BY <1>1, Unseen, ContractStutters

\* A request that has been read is accepted, refused or answered with the first
\* bytes of its object; or its data is awaited.
LEMMA RequestShows ==
  ASSUME host \in Hosts, host.req \in Requests, WellFormed(host.req),
         host.phase = FirstPhase(host.req), host.got = 0, dev.hw.tx = "nack",
         host' = host, NEW o, Outcome(host.req, "nack", o),
         dev'.hw.tx = o.hw.tx, dev'.hw.txData = o.hw.txData,
         AddressOf(dev', host) = AddressOf(dev, host),
         ~IsSetConfiguration(host.req) => Running(dev', host) = Running(dev, host),
         IsSetConfiguration(host.req) =>
           IF o.hw.tx = "valid" THEN Running(dev', host) = host.req.value % 256
           ELSE Running(dev', host) \in {Running(dev, host), 0}
  PROVE  [Contract!Next]_(Contract!vars)
<1> DEFINE p == host.req
<1>1. Offer(dev, host) = Contract!Nothing
  BY NothingOffered
<1>2. /\ p.length \in Nat /\ p.dir \in {"in", "out"}
      /\ p.length = 0 => host.phase = "statusIn"
      /\ p.length # 0 /\ p.dir = "in" => host.phase = "dataIn"
      /\ p.length # 0 /\ p.dir = "out" => host.phase = "dataOut"
  BY Words DEF Hosts, SetupPackets, FirstPhase
<1>3. IsSetConfiguration(p) <=> Contract!Configures(p)
  BY DEF IsSetConfiguration, Contract!Configures
<1>4. IsSetConfiguration(p) => p.length = 0
  BY DEF WellFormed
<1>5. CASE o.hw.tx = "stall"
  <2>1. Offer(dev', host) = Contract!Refusal
    BY <1>2, <1>5, Refusing
  <2>2. Contract!Refuse
    BY <1>1, <1>2, <1>3, <1>5, <2>1 DEF Contract!Refuse
  <2> QED BY <2>2 DEF Contract!Next, Contract!Device
<1>6. CASE p.length = 0 /\ o.hw.tx = "valid" /\ o.hw.txData.len = 0
  <2>1. Offer(dev', host) = Contract!Ack
    BY <1>2, <1>6 DEF Offer, Contract!Ack
  <2>2. Contract!Accept
    BY <1>1, <1>2, <1>3, <1>6, <2>1 DEF Contract!Accept
  <2> QED BY <2>2 DEF Contract!Next, Contract!Device
<1>7. CASE p.length # 0 /\ o.hw.tx = "nack"
  <2>1. Offer(dev', host) = Contract!Nothing
    BY <1>7, NothingOffered
  <2> QED BY <1>1, <1>4, <1>7, <2>1, SameTransferItself, ContractStutters
<1>8. ASSUME p.length # 0, p.dir = "in",
             NEW size \in Extent(Asked(p)) \cap Nat,
             Begins(o, Asked(p), Least(size, p.length))
      PROVE  Contract!Next
  <2> DEFINE n == Least(size, p.length)
  <2>1. /\ n \in Nat /\ n = Contract!Lesser(p.length, size)
        /\ Least(n, epBufferSize) = Contract!Lesser(epBufferSize, n)
    BY <1>2, PacketSize DEF Least, Contract!Lesser
  <2> HIDE DEF n
  <2>2. /\ o.hw.tx = "valid" /\ o.hw.txData.len = Least(n, epBufferSize)
        /\ o.hw.txData.obj = Asked(p) /\ o.hw.txData.off = 0
    BY <1>8 DEF Begins, n
  <2>3. Offer(dev', host) =
          Contract!Data(Asked(p), host.got, Contract!Lesser(epBufferSize, n))
    BY <1>2, <1>8, <2>1, <2>2 DEF Offer, Contract!Data
  <2>4. n - host.got = n /\ n >= 0
    BY <2>1
  <2>5. Contract!OfferData
    BY <1>1, <1>2, <1>4, <1>8, <2>1, <2>3, <2>4 DEF Contract!OfferData
  <2> QED BY <2>5 DEF Contract!Next, Contract!Device
<1> QED BY <1>5, <1>6, <1>7, <1>8 DEF Outcome

\* A packet that has been sent is followed by the next one of the answer.
LEMMA NextDataShows ==
  ASSUME host \in Hosts, host.phase = "dataIn", host.req \in Requests,
         host.req.length # 0, Offer(dev, host) = Contract!Nothing, host' = host,
         NEW o, Sound(o), Offered(o, host),
         dev'.hw.tx = o.hw.tx, dev'.hw.txData = o.hw.txData,
         AddressOf(dev', host) = AddressOf(dev, host),
         Running(dev', host) = Running(dev, host)
  PROVE  Contract!Next
<1> DEFINE len == o.hw.txData.len
           n   == len + o.in.transferCount
<1>1. PICK size \in Extent(Asked(host.req)) \cap Nat :
        host.got + n = Least(size, host.req.length)
  BY DEF Offered, Remaining
<1>2. /\ len = Least(n, epBufferSize)
      /\ o.hw.tx = "valid" /\ o.hw.txData.obj = Asked(host.req)
      /\ o.hw.txData.off = host.got
  BY DEF Offered
<1>3. n \in Nat /\ host.got \in Nat
  <2>1. len \in Nat /\ o.in.transferCount \in Nat
    BY Fields, Words DEF Registers, EpIn
  <2> QED BY <2>1 DEF Hosts
<1> HIDE DEF n
<1>4. /\ Contract!Lesser(host.req.length, size) - host.got = n
      /\ len = Contract!Lesser(epBufferSize, n)
  <2>1. size \in Int /\ host.req.length \in Int
    BY <1>1, Words DEF Hosts, SetupPackets
  <2> QED BY <1>1, <1>2, <1>3, <2>1, PacketSize DEF Least, Contract!Lesser
<1> HIDE DEF len
<1>5. Offer(dev', host) =
        Contract!Data(Asked(host.req), host.got, Contract!Lesser(epBufferSize, n))
  BY <1>2, <1>4 DEF Offer, Contract!Data, len
<1>6. Contract!OfferData
  BY <1>1, <1>3, <1>4, <1>5 DEF Contract!OfferData
<1> QED BY <1>6 DEF Contract!Next, Contract!Device

\* Nothing shows of a packet that has been served but the address.
LEMMA AddressShows ==
  ASSUME host' = host, Offer(dev', host) = Offer(dev, host),
         Running(dev', host) = Running(dev, host),
         AddressOf(dev', host) \in {AddressOf(dev, host), host.addr}
  PROVE  [Contract!Next]_(Contract!vars)
<1>1. CASE AddressOf(dev', host) = AddressOf(dev, host)
  BY <1>1, SameTransferItself, ContractStutters
<1>2. CASE AddressOf(dev', host) # AddressOf(dev, host)
  <2>1. Contract!TakeAddress
    BY <1>2 DEF Contract!TakeAddress
  <2> QED BY <2>1 DEF Contract!Next, Contract!Device
<1> QED BY <1>1, <1>2

\* The last packet of a write has been read, and is acknowledged.
LEMMA WriteShows ==
  ASSUME host' = host, host.phase = "statusIn", ~IsSetConfiguration(host.req),
         Offer(dev, host) = Contract!Nothing, Offer(dev', host) = Contract!Ack,
         Running(dev', host) = Running(dev, host),
         AddressOf(dev', host) = AddressOf(dev, host)
  PROVE  Contract!Next
<1>1. ~Contract!Configures(host.req)
  BY DEF IsSetConfiguration, Contract!Configures
<1>2. Contract!Accept
  BY <1>1 DEF Contract!Accept
<1> QED BY <1>2 DEF Contract!Next, Contract!Device

\* A flag of EP0 is none of the contract's.
LEMMA FlagShowsNothing ==
  ASSUME SameButEP0(dev, dev'), dev'.hw.tx = dev.hw.tx, host' = host
  PROVE  UNCHANGED Contract!vars
<1>1. /\ Offer(dev', host) = Offer(dev, host)
      /\ Running(dev', host) = Running(dev, host)
      /\ AddressOf(dev', host) = AddressOf(dev, host)
  BY DEF SameButEP0, SameConfig, SameAddress, Offer, Running, AddressOf, Resetting
<1> QED BY <1>1, SameTransferItself, ContractStutters

-----------------------------------------------------------------------------
(* What the contract promises, of every chip that keeps it.                *)

Pipe == INSTANCE ControlTransfer_proofs WITH
  Size <- epBufferSize, NoRequest <- ZeroPacket,
  Source <- [r \in Requests |-> Asked(r)],
  Extents <- [r \in Requests |-> Extent(Asked(r))],
  phase <- host.phase, request <- host.req, moved <- host.got,
  promised <- host.addr, offer <- Offer(dev, host),
  running <- Running(dev, host), address <- AddressOf(dev, host)

\* A chip that implements the contract never moves more bytes than the host
\* asked for (src/device.cxx:320): the contract's theorem, of this instance.
LEMMA PipeNeverOverruns == ImplementsControlTransfer => []Contract!WithinRequest
<1>1. Pipe!Meaningful
  <2>1. epBufferSize \in Nat
    BY PacketSize
  <2>2. ASSUME NEW r \in Requests
        PROVE  r.length \in Nat /\ r.dir \in {"in", "out"}
    BY HostAssumption, Words DEF SetupPackets
  <2>3. ASSUME NEW r \in Requests
        PROVE  [q \in Requests |-> Extent(Asked(q))][r] \subseteq Nat
    BY ExtentsAreLengths
  <2> QED BY <2>1, <2>2, <2>3 DEF Pipe!Meaningful
<1>2. Contract!Init => Pipe!Init
  BY DEF Contract!Init, Pipe!Init, Contract!Nothing, Pipe!Nothing
<1>3. [Contract!Next]_(Contract!vars) => [Pipe!Next]_(Pipe!vars)
  BY DEF Contract!Next, Pipe!Next, Contract!Host, Pipe!Host, Contract!Device,
         Pipe!Device, Contract!Ask, Pipe!Ask, Contract!Take, Pipe!Take,
         Contract!Send, Pipe!Send, Contract!TakeStatus, Pipe!TakeStatus,
         Contract!SendStatus, Pipe!SendStatus, Contract!TakeRefusal,
         Pipe!TakeRefusal, Contract!Reset, Pipe!Reset, Contract!OfferData,
         Pipe!OfferData, Contract!Accept, Pipe!Accept, Contract!Refuse,
         Pipe!Refuse, Contract!TakeAddress, Pipe!TakeAddress, Contract!Finish,
         Pipe!Finish, Contract!Active, Pipe!Active, Contract!SetsAddress,
         Pipe!SetsAddress, Contract!Configures, Pipe!Configures,
         Contract!Lesser, Pipe!Lesser, Contract!Nothing, Pipe!Nothing,
         Contract!Refusal, Pipe!Refusal, Contract!Ack, Pipe!Ack,
         Contract!Data, Pipe!Data, Contract!vars, Pipe!vars
<1>4. Pipe!WithinRequest => Contract!WithinRequest
  BY DEF Contract!WithinRequest, Pipe!WithinRequest, Contract!Active,
         Pipe!Active, Contract!Nothing, Pipe!Nothing, Contract!Refusal,
         Pipe!Refusal, Contract!Ack, Pipe!Ack
<1>5. Pipe!Spec => []Pipe!WithinRequest
  BY <1>1, Pipe!TransfersFit
<1> QED BY <1>2, <1>3, <1>4, <1>5, PTL
        DEF ImplementsControlTransfer, Contract!Spec, Pipe!Spec

=============================================================================
