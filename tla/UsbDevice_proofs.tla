--------------------------- MODULE UsbDevice_proofs ---------------------------
(***************************************************************************)
(* What the operators of UsbDevice make of a device: each leaves a device  *)
(* of the right type, in which the endpoints that are enabled are those of *)
(* the active configuration and its handlers are initialised.              *)
(*                                                                         *)
(* The provers take one field of a large record at a time, so the lemmas   *)
(* start with what the update of a single field does.                      *)
(***************************************************************************)
EXTENDS UsbDevice, TLAPS

\* The registry row the endpoints' interrupts are served from is the right one.
Registry(d) ==
  d.hw.eps # 0 /\ "ctr" \in d.hw.itrEnable =>
    d.activeConfig = d.hw.eps /\ d.hw.eps \in d.handlersUp

Sound(d) == d \in Devices /\ Registry(d)

\* The registers g enable no endpoint and no interrupt that h does not.
NoMore(h, g) ==
  /\ g \in Registers
  /\ \/ g.eps = 0
     \/ g.eps = h.eps /\ ("ctr" \in g.itrEnable => "ctr" \in h.itrEnable)

-----------------------------------------------------------------------------
(* Updates of one field.                                                   *)

LEMMA Fields ==
  ASSUME NEW d, Sound(d)
  PROVE  /\ d.usbState \in DeviceStates /\ d.usbCtrlState \in CtrlStates
         /\ d.activeConfig \in 0..configsCount
         /\ d.setupCallback \in Callbacks /\ d.packet \in SetupPackets
         /\ d.handlersUp \in SUBSET (1..configsCount)
         /\ d.in \in EpIn /\ d.out \in EpOut /\ d.hw \in Registers
BY DEF Sound, Devices

LEMMA SetUsbState ==
  ASSUME NEW d, Sound(d), NEW v \in DeviceStates
  PROVE  Sound([d EXCEPT !.usbState = v])
BY DEF Sound, Registry, Devices

LEMMA SetCtrlState ==
  ASSUME NEW d, Sound(d), NEW v \in CtrlStates
  PROVE  Sound([d EXCEPT !.usbCtrlState = v])
BY DEF Sound, Registry, Devices

LEMMA SetCallback ==
  ASSUME NEW d, Sound(d), NEW v \in Callbacks
  PROVE  Sound([d EXCEPT !.setupCallback = v])
BY DEF Sound, Registry, Devices

LEMMA SetPacket ==
  ASSUME NEW d, Sound(d), NEW v \in SetupPackets
  PROVE  Sound([d EXCEPT !.packet = v])
BY DEF Sound, Registry, Devices

LEMMA SetIn ==
  ASSUME NEW d, Sound(d), NEW v \in EpIn
  PROVE  Sound([d EXCEPT !.in = v])
BY DEF Sound, Registry, Devices

LEMMA SetOut ==
  ASSUME NEW d, Sound(d), NEW v \in EpOut
  PROVE  Sound([d EXCEPT !.out = v])
BY DEF Sound, Registry, Devices

LEMMA SetHw ==
  ASSUME NEW d, Sound(d), NEW g, NoMore(d.hw, g)
  PROVE  Sound([d EXCEPT !.hw = g])
BY DEF Sound, Registry, Devices, NoMore

LEMMA NoMoreItself ==
  ASSUME NEW h \in Registers
  PROVE  NoMore(h, h)
BY DEF NoMore

LEMMA SetTx ==
  ASSUME NEW h, NEW g, NoMore(h, g),
         NEW v \in {"disabled", "nack", "valid", "stall"}
  PROVE  NoMore(h, [g EXCEPT !.tx = v])
BY DEF NoMore, Registers

LEMMA SetTxData ==
  ASSUME NEW h, NEW g, NoMore(h, g),
         NEW v \in [obj : Objects, off : Nat, len : Word]
  PROVE  NoMore(h, [g EXCEPT !.txData = v])
BY DEF NoMore, Registers

LEMMA SetTxComplete ==
  ASSUME NEW h, NEW g, NoMore(h, g), NEW v \in BOOLEAN
  PROVE  NoMore(h, [g EXCEPT !.txComplete = v])
BY DEF NoMore, Registers

LEMMA SetRx ==
  ASSUME NEW h, NEW g, NoMore(h, g),
         NEW v \in {"disabled", "nack", "valid"}
  PROVE  NoMore(h, [g EXCEPT !.rx = v])
BY DEF NoMore, Registers

LEMMA SetRxPacket ==
  ASSUME NEW h, NEW g, NoMore(h, g), NEW v \in RxPackets
  PROVE  NoMore(h, [g EXCEPT !.rxPacket = v])
BY DEF NoMore, Registers

LEMMA SetAddr ==
  ASSUME NEW h, NEW g, NoMore(h, g), NEW v \in 0..127
  PROVE  NoMore(h, [g EXCEPT !.addr = v])
BY DEF NoMore, Registers

LEMMA SetEnabled ==
  ASSUME NEW h, NEW g, NoMore(h, g), NEW v \in BOOLEAN
  PROVE  NoMore(h, [g EXCEPT !.enabled = v])
BY DEF NoMore, Registers

LEMMA SetEpComplete ==
  ASSUME NEW h, NEW g, NoMore(h, g), NEW v \in BOOLEAN
  PROVE  NoMore(h, [g EXCEPT !.epComplete = v])
BY DEF NoMore, Registers

LEMMA SetForceSuspend ==
  ASSUME NEW h, NEW g, NoMore(h, g), NEW v \in BOOLEAN
  PROVE  NoMore(h, [g EXCEPT !.forceSuspend = v])
BY DEF NoMore, Registers

LEMMA SetStatus ==
  ASSUME NEW h, NEW g, NoMore(h, g), NEW v \in SUBSET Interrupts
  PROVE  NoMore(h, [g EXCEPT !.status = v])
BY DEF NoMore, Registers

LEMMA SetItrEnable ==
  ASSUME NEW h, NEW g, NoMore(h, g), NEW v \in SUBSET Interrupts,
         "ctr" \in v => g.eps = 0 \/ "ctr" \in g.itrEnable
  PROVE  NoMore(h, [g EXCEPT !.itrEnable = v])
BY DEF NoMore, Registers

LEMMA DisableEps ==
  ASSUME NEW h, NEW g \in Registers
  PROVE  /\ NoMore(h, [g EXCEPT !.eps = 0])
         /\ [g EXCEPT !.eps = 0].eps = 0
<1>1. 0 \in 0..configsCount
  BY BuildOptions DEF BuildOptions
<1>2. [g EXCEPT !.eps = 0] \in Registers
  BY <1>1 DEF Registers
<1>3. [g EXCEPT !.eps = 0].eps = 0
  BY DEF Registers
<1> QED BY <1>2, <1>3 DEF NoMore

-----------------------------------------------------------------------------
(* EP0's packet buffers.                                                   *)

LEMMA Words ==
  /\ UINT16_MAX \in Nat
  /\ \A w \in Word : w \in Nat /\ w <= UINT16_MAX
  /\ \A w \in Nat : w <= UINT16_MAX => w \in Word
<1>1. UINT16_MAX \in Nat
  BY DEF UINT16_MAX
<1> QED BY <1>1 DEF Word

LEMMA Bytes ==
  /\ \A n \in Nat : n < 256 => n \in Byte
  /\ \A n \in Byte : n \in Nat
BY DEF Byte

LEMMA LeastIsLeast ==
  ASSUME NEW a \in Nat, NEW b \in Nat
  PROVE  Least(a, b) \in Nat /\ Least(a, b) <= a /\ Least(a, b) <= b
BY DEF Least

LEMMA LeastWord ==
  ASSUME NEW a \in Nat, NEW b \in Word
  PROVE  /\ Least(a, b) \in Word /\ Least(b, a) \in Word
         /\ b - Least(a, b) \in Word /\ b - Least(b, a) \in Word
<1>1. UINT16_MAX \in Nat /\ b \in Nat /\ b <= UINT16_MAX
  BY Words
<1>2. /\ Least(a, b) \in Nat /\ Least(a, b) <= b
      /\ Least(b, a) \in Nat /\ Least(b, a) <= b
  BY <1>1, LeastIsLeast
<1>3. /\ Least(a, b) <= UINT16_MAX /\ Least(b, a) <= UINT16_MAX
      /\ b - Least(a, b) \in Nat /\ b - Least(a, b) <= UINT16_MAX
      /\ b - Least(b, a) \in Nat /\ b - Least(b, a) <= UINT16_MAX
  BY <1>1, <1>2
<1> QED BY <1>2, <1>3, Words

LEMMA ByteOf ==
  ASSUME NEW w \in Word
  PROVE  /\ w % 256 \in 0..255 /\ w \div 256 \in 0..255
         /\ w % 256 \in Byte
<1>1. w \in Nat /\ w <= 65535
  BY Words DEF UINT16_MAX
<1>2. w % 256 \in 0..255
  BY <1>1
<1>3. w \div 256 \in 0..255
  BY <1>1
<1> QED BY <1>2, <1>3 DEF Byte

LEMMA Merge16Typed ==
  ASSUME NEW old \in Word, NEW new \in Word, NEW n \in Int
  PROVE  Merge16(old, new, n) \in Word
<1>1. 256 * (old \div 256) + (new % 256) \in Word
  <2>1. old \div 256 \in 0..255 /\ new % 256 \in 0..255
    BY ByteOf
  <2>2. ASSUME NEW i \in 0..255, NEW j \in 0..255
        PROVE  256 * i + j \in Nat /\ 256 * i + j <= 65535
    OBVIOUS
  <2> QED BY <2>1, <2>2, Words DEF UINT16_MAX
<1> QED BY <1>1 DEF Merge16

LEMMA OverlayTyped ==
  ASSUME NEW old \in SetupPackets, NEW new \in SetupPackets, NEW n \in Int
  PROVE  Overlay(old, new, n) \in SetupPackets
<1>1. /\ old.value \in Word /\ new.value \in Word
      /\ old.index \in Word /\ new.index \in Word
      /\ old.length \in Word /\ new.length \in Word
  BY DEF SetupPackets
<1>2. /\ Merge16(old.value, new.value, n - 2) \in Word
      /\ Merge16(old.index, new.index, n - 4) \in Word
      /\ Merge16(old.length, new.length, n - 6) \in Word
  <2>1. n - 2 \in Int /\ n - 4 \in Int /\ n - 6 \in Int
    OBVIOUS
  <2> QED BY <1>1, <2>1, Merge16Typed
<1> QED BY <1>2 DEF Overlay, SetupPackets

LEMMA PacketsTyped == ZeroPacket \in SetupPackets /\ NoPacket \in RxPackets
<1>1. ZeroPacket \in SetupPackets
  BY Words DEF ZeroPacket, SetupPackets
<1> QED BY <1>1, Words DEF NoPacket, RxPackets

LEMMA ReadEPSound ==
  ASSUME NEW d, Sound(d), NEW n \in Nat
  PROVE  Sound(ReadEP(d, n))
<1> DEFINE o == [d.out EXCEPT !.transferCount = @ - Least(n, @)]
           e == [d EXCEPT !.out = o]
           h == [d.hw EXCEPT !.rx = "valid"]
<1>1. o \in EpOut
  BY Fields, LeastWord DEF EpOut
<1>2. Sound(e) /\ e.hw = d.hw
  BY <1>1, SetOut DEF Sound, Devices
<1>3. NoMore(d.hw, h)
  BY Fields, NoMoreItself, SetRx
<1>4. Sound([e EXCEPT !.hw = h])
  BY <1>2, <1>3, SetHw
<1>5. [e EXCEPT !.hw = h] = ReadEP(d, n)
  BY <1>2 DEF ReadEP
<1> QED BY <1>4, <1>5

LEMMA SourceTyped ==
  ASSUME NEW in \in EpIn
  PROVE  WriteSource(in) \in Buffers
BY DEF WriteSource, EpIn, Buffers

LEMMA WriteEPSound ==
  ASSUME NEW d, Sound(d)
  PROVE  Sound(WriteEP(d))
<1> DEFINE count  == Least(d.in.transferCount, epBufferSize)
           left   == d.in.transferCount - count
           source == WriteSource(d.in)
           i1 == [d.in EXCEPT !.transferCount = left]
           i2 == [i1 EXCEPT !.memBuffer = [source EXCEPT !.off = @ + count]]
           i3 == [i2 EXCEPT !.isMultiPart = d.in.isMultiPart /\ left # 0]
           h1 == [d.hw EXCEPT !.tx = "valid"]
           h2 == [h1 EXCEPT !.txData =
                    [obj |-> source.obj, off |-> source.off, len |-> count]]
           e  == [d EXCEPT !.in = i3]
<1>1. d.in \in EpIn /\ d.in.transferCount \in Word /\ epBufferSize \in Nat
  BY Fields, BuildOptions DEF EpIn, BuildOptions
<1>2. count \in Word /\ left \in Word
  BY <1>1, LeastWord
<1>3. source \in Buffers
  BY <1>1, SourceTyped
<1> HIDE DEF count, left, source
<1>4. [source EXCEPT !.off = @ + count] \in Buffers
  <2>1. source.off + count \in Nat
    BY <1>2, <1>3, Words DEF Buffers
  <2> QED BY <1>3, <2>1 DEF Buffers
<1>5. i1 \in EpIn
  BY <1>1, <1>2 DEF EpIn
<1>6. i2 \in EpIn
  BY <1>4, <1>5 DEF EpIn
<1>7. i3 \in EpIn
  <2>1. (d.in.isMultiPart /\ left # 0) \in BOOLEAN
    OBVIOUS
  <2> QED BY <1>6, <2>1 DEF EpIn
<1>8. Sound(e) /\ e.hw = d.hw
  BY <1>7, SetIn DEF Sound, Devices
<1>9. NoMore(d.hw, h1)
  BY Fields, NoMoreItself, SetTx
<1>10. [obj |-> source.obj, off |-> source.off, len |-> count]
         \in [obj : Objects, off : Nat, len : Word]
  BY <1>2, <1>3 DEF Buffers
<1>11. NoMore(d.hw, h2)
  BY <1>9, <1>10, SetTxData
<1>12. Sound([e EXCEPT !.hw = h2])
  BY <1>8, <1>11, SetHw
<1>13. [e EXCEPT !.hw = h2] = WriteEP(d)
  BY <1>8 DEF WriteEP, count, left, source
<1> QED BY <1>12, <1>13

LEMMA StallEPSound ==
  ASSUME NEW d, Sound(d)
  PROVE  Sound(StallEP(d))
<1>1. NoMore(d.hw, [d.hw EXCEPT !.tx = "stall"])
  BY Fields, NoMoreItself, SetTx
<1> QED BY <1>1, SetHw DEF StallEP

LEMMA AddressSound ==
  ASSUME NEW d, Sound(d), NEW v \in Word
  PROVE  Sound(Address(d, v))
<1> DEFINE h == [d.hw EXCEPT !.addr = v % 128]
<1>1. v % 128 \in 0..127
  <2>1. v \in Nat
    BY Words
  <2> QED BY <2>1, SMTT(40)
<1>2. NoMore(d.hw, h)
  BY <1>1, Fields, NoMoreItself, SetAddr
<1>3. NoMore(d.hw, [h EXCEPT !.enabled = TRUE])
  BY <1>2, SetEnabled
<1>4. Sound([d EXCEPT !.hw = [h EXCEPT !.enabled = TRUE]])
  BY <1>3, SetHw
<1> QED BY <1>4 DEF Address

LEMMA ResetEPsSound ==
  ASSUME NEW d, Sound(d), NEW what
  PROVE  Sound(ResetEPs(d, what)) /\ ResetEPs(d, what).hw.eps = 0
<1> DEFINE h1   == [d.hw EXCEPT !.eps = 0]
           h2   == [h1 EXCEPT !.epComplete = FALSE]
           user == [d EXCEPT !.hw = h2]
<1>1. NoMore(d.hw, h2) /\ h2.eps = 0
  <2>1. NoMore(d.hw, h1) /\ h1.eps = 0
    BY Fields, DisableEps
  <2>2. NoMore(d.hw, h2)
    BY <2>1, SetEpComplete
  <2>3. h2.eps = 0
    BY <2>1 DEF NoMore, Registers
  <2> QED BY <2>2, <2>3
<1>2. Sound(user) /\ user.hw = h2 /\ user.in = d.in
  BY <1>1, SetHw DEF Sound, Devices
<1> HIDE DEF h2
<1>3. CASE what = "user"
  <2>1. ResetEPs(d, what) = user
    BY <1>3 DEF ResetEPs, h2
  <2> QED BY <1>1, <1>2, <2>1
<1>4. CASE what # "user"
  <2> DEFINE i1 == [d.in EXCEPT !.needsArming = FALSE]
             i2 == [i1 EXCEPT !.stall = FALSE]
             i3 == [i2 EXCEPT !.isMultiPart = FALSE]
             i4 == [i3 EXCEPT !.transferCount = 0]
             o  == [needsArming |-> FALSE, stall |-> FALSE,
                    transferCount |-> 0]
             g1 == [h2 EXCEPT !.tx = "disabled"]
             g2 == [g1 EXCEPT !.txComplete = FALSE]
             g3 == [g2 EXCEPT !.rx = "disabled"]
             g4 == [g3 EXCEPT !.rxPacket = NoPacket]
             e1 == [user EXCEPT !.in = i4]
             e2 == [e1 EXCEPT !.out = o]
             e3 == [e2 EXCEPT !.hw = g4]
  <2>1. i4 \in EpIn
    <3>1. i2 \in EpIn
      BY Fields DEF EpIn
    <3> HIDE DEF i2
    <3>2. i3 \in EpIn
      BY <3>1 DEF EpIn
    <3> HIDE DEF i3
    <3> QED BY <3>2, Words DEF EpIn
  <2>2. o \in EpOut
    BY Words DEF EpOut
  <2>3. NoMore(h2, g4) /\ g4.eps = 0
    <3>1. NoMore(h2, g2)
      <4>1. NoMore(h2, g1)
        BY <1>1, NoMoreItself, SetTx DEF NoMore
      <4> HIDE DEF g1
      <4> QED BY <4>1, SetTxComplete
    <3>2. NoMore(h2, g4)
      BY <3>1, PacketsTyped, SetRx, SetRxPacket
    <3> QED BY <1>1, <3>2 DEF NoMore
  <2> HIDE DEF i4, o, g4
  <2>4. Sound(e1) /\ e1.hw = h2
    BY <1>2, <2>1, SetIn DEF Sound, Devices
  <2>5. Sound(e2) /\ e2.hw = h2
    BY <2>2, <2>4, SetOut DEF Sound, Devices
  <2>6. Sound(e3) /\ e3.hw = g4
    <3> HIDE DEF e2
    <3>1. Sound(e3)
      BY <2>3, <2>5, SetHw
    <3>2. e3.hw = g4
      BY <2>5 DEF Sound, Devices
    <3> QED BY <3>1, <3>2
  <2>7. ResetEPs(d, what) = e3
    BY <1>2, <1>4 DEF ResetEPs, h2, i4, o, g4
  <2> QED BY <2>3, <2>6, <2>7
<1> QED BY <1>3, <1>4

-----------------------------------------------------------------------------
(* The handler registry and the setup callback.                            *)

\* No interrupt of a user endpoint can be raised.
Quiet(d) == d.hw.eps = 0 \/ "ctr" \notin d.hw.itrEnable

LEMMA InitHandlersSound ==
  ASSUME NEW d, Sound(d)
  PROVE  Sound(InitHandlers(d))
<1>1. d.handlersUp \cup ({d.activeConfig} \ {0}) \in SUBSET (1..configsCount)
  BY Fields, BuildOptions DEF BuildOptions
<1> QED BY <1>1 DEF InitHandlers, Sound, Registry, Devices

LEMMA DeinitHandlersSound ==
  ASSUME NEW d, Sound(d), Quiet(d)
  PROVE  /\ Sound(DeinitHandlers(d)) /\ Quiet(DeinitHandlers(d))
         /\ DeinitHandlers(d).hw = d.hw
BY DEF DeinitHandlers, Sound, Quiet, Registry, Devices

LEMMA SetActiveConfig ==
  ASSUME NEW d, Sound(d), Quiet(d), NEW c \in 0..configsCount
  PROVE  /\ Sound([d EXCEPT !.activeConfig = c])
         /\ [d EXCEPT !.activeConfig = c].hw = d.hw
BY DEF Sound, Quiet, Registry, Devices

\* Endpoints and handlers brought up for the configuration just chosen.
LEMMA ArmedSound ==
  ASSUME NEW d, Sound(d), NEW c \in 1..configsCount, d.activeConfig = c
  PROVE  Sound(InitHandlers([d EXCEPT !.hw.eps = c]))
<1> DEFINE h == [d.hw EXCEPT !.eps = c]
           a == [d EXCEPT !.hw = h]
           e == InitHandlers(a)
<1>1. h \in Registers /\ h.eps = c /\ c # 0
  <2>1. c \in 0..configsCount /\ c # 0
    BY BuildOptions DEF BuildOptions
  <2> QED BY <2>1, Fields DEF Registers
<1> HIDE DEF h
<1>2. a \in Devices /\ a.hw = h /\ a.activeConfig = c
      /\ a.handlersUp = d.handlersUp
  BY <1>1 DEF Sound, Devices
<1> HIDE DEF a
<1>3. a.handlersUp \cup ({c} \ {0}) \in SUBSET (1..configsCount)
  BY <1>2, Fields
<1>4. e \in Devices /\ e.hw = h /\ e.activeConfig = c
      /\ e.handlersUp = a.handlersUp \cup ({c} \ {0})
  BY <1>2, <1>3 DEF InitHandlers, Devices
<1>5. Sound(e)
  BY <1>1, <1>4 DEF Sound, Registry
<1> QED BY <1>5 DEF a, h

LEMMA SetMode ==
  ASSUME NEW d, Sound(d), NEW c \in 1..configsCount,
         NEW i \in 0..interfaceCount - 1, NEW v \in Byte
  PROVE  Sound([d EXCEPT !.alternateModes[c][i] = v])
<1> DEFINE m == [d.alternateModes EXCEPT ![c] = [@ EXCEPT ![i] = v]]
<1>1. m \in [1..configsCount -> [0..interfaceCount - 1 -> Byte]]
  BY DEF Sound, Devices
<1>2. Sound([d EXCEPT !.alternateModes = m])
  BY <1>1 DEF Sound, Registry, Devices
<1> QED BY <1>2

LEMMA AddressCallbackSound ==
  ASSUME NEW d, Sound(d)
  PROVE  Sound(AddressCallback(d))
<1>1. Sound(Address(d, d.packet.value)) /\ Sound(Address(d, 0))
  <2>1. d.packet.value \in Word /\ 0 \in Word
    BY Fields, Words DEF SetupPackets
  <2> QED BY <2>1, AddressSound
<1>2. /\ Sound([Address(d, d.packet.value) EXCEPT !.usbState = "addressed"])
      /\ Sound([Address(d, 0) EXCEPT !.usbState = "waiting"])
  BY <1>1, SetUsbState DEF DeviceStates
<1> QED BY <1>2 DEF AddressCallback

LEMMA RunCallbackSound ==
  ASSUME NEW d, Sound(d)
  PROVE  Sound(RunCallback(d))
<1>1. Sound(IF d.setupCallback = "address" THEN AddressCallback(d) ELSE d)
  BY AddressCallbackSound
<1> QED BY <1>1, SetCallback DEF RunCallback, Callbacks

-----------------------------------------------------------------------------
(* Standard requests.                                                      *)

SoundReply(r) ==
  /\ Sound(r.dev) /\ r.response \in Responses
  /\ r.data \in Objects /\ r.size \in Word

LEMMA ReplySound ==
  ASSUME NEW d, Sound(d), NEW response \in Responses, NEW data \in Objects,
         NEW size \in Word
  PROVE  SoundReply(Reply(d, response, data, size))
BY DEF SoundReply, Reply

LEMMA VerdictsSound ==
  ASSUME NEW d, Sound(d)
  PROVE  SoundReply(Stalled(d)) /\ SoundReply(Unhandled(d))
         /\ SoundReply(Acked(d))
<1>1. NullPtr \in Objects /\ 0 \in Word
  BY Words DEF NullPtr, Objects, Byte
<1> QED BY <1>1, ReplySound DEF Stalled, Unhandled, Acked, Responses

LEMMA MultiPartSound ==
  ASSUME NEW d, Sound(d), NEW table \in Objects, NEW size \in Word
  PROVE  SoundReply(MultiPart(d, table, size))
<1> DEFINE i1 == [d.in EXCEPT !.isMultiPart = TRUE]
           i2 == [i1 EXCEPT !.partsData = table]
<1>1. i2 \in EpIn
  BY Fields DEF EpIn
<1>2. Sound([d EXCEPT !.in = i2])
  BY <1>1, SetIn
<1>3. NullPtr \in Objects
  BY DEF NullPtr, Objects, Byte
<1> QED BY <1>2, <1>3, ReplySound DEF MultiPart, Responses

LEMMA ObjectsNamed ==
  ASSUME NEW i \in Byte
  PROVE  /\ <<"deviceDescriptor", 0>> \in Objects /\ <<"langID", 0>> \in Objects
         /\ <<"statusResponse", 0>> \in Objects
         /\ <<"activeConfig", 0>> \in Objects
         /\ <<"configDescriptor", i>> \in Objects
         /\ <<"interfaceDescriptor", i>> \in Objects
         /\ <<"endpointDescriptor", i>> \in Objects
         /\ <<"string", i>> \in Objects /\ <<"alternateMode", i>> \in Objects
<1>1. 0 \in Byte
  BY DEF Byte
<1> QED BY <1>1 DEF Objects

LEMMA HandleGetDescriptorSound ==
  ASSUME NEW d, Sound(d)
  PROVE  SoundReply(HandleGetDescriptor(d))
<1> DEFINE index == d.packet.value % 256
<1>1. index \in Byte /\ index \in Nat
  <2>1. d.packet.value \in Word
    BY Fields DEF SetupPackets
  <2> QED BY <2>1, ByteOf
<1> HIDE DEF index
<1>2. /\ index < configsCount => ConfigLength[index] \in Word
      /\ index \in 1..stringCount => StringLength[index] \in Word
  BY <1>1, BuildOptions DEF BuildOptions
<1>3. 4 \in Word /\ 7 \in Word /\ 9 \in Word /\ 18 \in Word
  BY Words DEF UINT16_MAX
<1>4. SoundReply(Reply(d, "data", <<"deviceDescriptor", 0>>, 18))
  BY <1>1, <1>3, ObjectsNamed, ReplySound DEF Responses
<1>5. index < configsCount =>
        SoundReply(MultiPart(d, <<"configDescriptor", index>>,
                             ConfigLength[index]))
  BY <1>1, <1>2, ObjectsNamed, MultiPartSound
<1>6. SoundReply(Reply(d, "data", <<"interfaceDescriptor", index>>, 9))
  BY <1>1, <1>3, ObjectsNamed, ReplySound DEF Responses
<1>7. SoundReply(Reply(d, "data", <<"endpointDescriptor", index>>, 7))
  BY <1>1, <1>3, ObjectsNamed, ReplySound DEF Responses
<1>8. SoundReply(Reply(d, "data", <<"langID", 0>>, 4))
  BY <1>1, <1>3, ObjectsNamed, ReplySound DEF Responses
<1>9. index \in 1..stringCount =>
        SoundReply(MultiPart(d, <<"string", index>>, StringLength[index]))
  BY <1>1, <1>2, ObjectsNamed, MultiPartSound
<1>10. SoundReply(Stalled(d)) /\ SoundReply(Unhandled(d))
  BY VerdictsSound
<1> QED BY <1>4, <1>5, <1>6, <1>7, <1>8, <1>9, <1>10, Zenon
        DEF HandleGetDescriptor, index

LEMMA HandleGetStatusSound ==
  ASSUME NEW d, Sound(d)
  PROVE  SoundReply(HandleGetStatus(d))
<1>1. SoundReply(Reply(d, "data", <<"statusResponse", 0>>, 2))
  <2>1. 2 \in Word /\ 0 \in Byte
    BY Words DEF UINT16_MAX, Byte
  <2> QED BY <2>1, ObjectsNamed, ReplySound DEF Responses
<1> QED BY <1>1, VerdictsSound DEF HandleGetStatus

LEMMA HandleGetConfigurationSound ==
  ASSUME NEW d, Sound(d)
  PROVE  SoundReply(HandleGetConfiguration(d))
<1>1. SoundReply(Reply(d, "data", <<"activeConfig", 0>>, 1))
  <2>1. 1 \in Word /\ 0 \in Byte
    BY Words DEF UINT16_MAX, Byte
  <2> QED BY <2>1, ObjectsNamed, ReplySound DEF Responses
<1> QED BY <1>1, VerdictsSound DEF HandleGetConfiguration

LEMMA HandleGetInterfaceSound ==
  ASSUME NEW d, Sound(d)
  PROVE  SoundReply(HandleGetInterface(d))
<1>1. d.packet.index < interfaceCount =>
        SoundReply(Reply(d, "data", <<"alternateMode", d.packet.index>>, 1))
  <2> SUFFICES ASSUME d.packet.index < interfaceCount
               PROVE  SoundReply(Reply(d, "data",
                        <<"alternateMode", d.packet.index>>, 1))
    OBVIOUS
  <2>1. d.packet.index \in Nat
    BY Fields, Words DEF SetupPackets
  <2>2. d.packet.index \in Byte
    <3>1. interfaceCount \in Nat /\ interfaceCount <= 32
      BY BuildOptions DEF BuildOptions
    <3> QED BY <2>1, <3>1, Bytes
  <2>3. 1 \in Word
    BY Words DEF UINT16_MAX
  <2> QED BY <2>2, <2>3, ObjectsNamed, ReplySound DEF Responses
<1> QED BY <1>1, VerdictsSound DEF HandleGetInterface

LEMMA HandleSetAddressSound ==
  ASSUME NEW d, Sound(d)
  PROVE  SoundReply(HandleSetAddress(d))
<1> DEFINE e == [d EXCEPT !.usbState = "addressing"]
           f == [e EXCEPT !.setupCallback = "address"]
<1>1. Sound(f)
  BY SetUsbState, SetCallback DEF DeviceStates, Callbacks
<1> QED BY <1>1, VerdictsSound DEF HandleSetAddress

LEMMA HandleSetConfigurationSound ==
  ASSUME NEW d, Sound(d)
  PROVE  SoundReply(HandleSetConfiguration(d))
<1> DEFINE config == d.packet.value % 256
           torn   == DeinitHandlers(ResetEPs(d, "user"))
           chosen == [torn EXCEPT !.activeConfig = config]
           armed  == [chosen EXCEPT !.hw.eps = config]
<1>1. config \in Nat
  <2>1. d.packet.value \in Word
    BY Fields DEF SetupPackets
  <2> QED BY <2>1, ByteOf DEF Byte
<1>2. Sound(torn) /\ Quiet(torn)
  BY ResetEPsSound, DeinitHandlersSound DEF Quiet
<1> HIDE DEF config, torn
<1>3. CASE ~(d.packet.dir = "out" /\ d.packet.recipient = "device")
  BY <1>3, VerdictsSound DEF HandleSetConfiguration
<1>4. CASE d.packet.dir = "out" /\ d.packet.recipient = "device"
  <2>1. CASE config > configsCount
    <3>1. config # 0
      BY <1>1, <2>1, BuildOptions DEF BuildOptions
    <3>2. HandleSetConfiguration(d) = Stalled(torn)
      BY <1>4, <2>1, <3>1 DEF HandleSetConfiguration, config, torn
    <3> QED BY <1>2, <3>2, VerdictsSound
  <2>2. CASE ~(config > configsCount)
    <3>1. config \in 0..configsCount
      BY <1>1, <2>2, BuildOptions DEF BuildOptions
    <3>2. Sound(chosen) /\ chosen.hw = torn.hw /\ chosen.activeConfig = config
      BY <1>2, <3>1, SetActiveConfig DEF Sound, Devices
    <3> HIDE DEF chosen
    <3>3. CASE config = 0
      <4>1. HandleSetConfiguration(d) =
              Acked([chosen EXCEPT !.usbState = "addressed"])
        BY <1>4, <2>2, <3>3 DEF HandleSetConfiguration, config, torn, chosen
      <4>2. Sound([chosen EXCEPT !.usbState = "addressed"])
        BY <3>2, SetUsbState DEF DeviceStates
      <4> QED BY <4>1, <4>2, VerdictsSound
    <3>4. CASE config # 0
      <4>1. HandleSetConfiguration(d) = Acked(InitHandlers(armed))
        BY <1>4, <2>2, <3>4 DEF HandleSetConfiguration, config, torn, chosen
      <4>2. Sound(InitHandlers(armed))
        BY <3>1, <3>2, <3>4, ArmedSound
      <4> QED BY <4>1, <4>2, VerdictsSound
    <3> QED BY <3>3, <3>4
  <2> QED BY <2>1, <2>2
<1> QED BY <1>3, <1>4

LEMMA HandleSetInterfaceSound ==
  ASSUME NEW d, Sound(d), NEW altOk
  PROVE  SoundReply(HandleSetInterface(d, altOk))
<1> DEFINE p    == d.packet
           mode == [d EXCEPT !.alternateModes[d.activeConfig][p.index] = p.value]
<1>1. p.index \in Nat /\ p.value \in Nat
  BY Fields, Words DEF SetupPackets
<1>2. CASE p.index < interfaceCount /\ p.value < 256 /\ d.activeConfig # 0
  <2>1. Sound(mode)
    <3>1. /\ d.activeConfig \in 1..configsCount
          /\ p.index \in 0..interfaceCount - 1 /\ p.value \in Byte
      <4>1. configsCount \in Nat /\ interfaceCount \in Nat
        BY BuildOptions DEF BuildOptions
      <4>2. d.activeConfig \in 0..configsCount
        BY Fields
      <4> QED BY <1>1, <1>2, <4>1, <4>2, Bytes
    <3> QED BY <3>1, SetMode
  <2> QED BY <2>1, VerdictsSound DEF HandleSetInterface
<1>3. CASE ~(p.index < interfaceCount /\ p.value < 256 /\ d.activeConfig # 0)
  <2>1. HandleSetInterface(d, altOk) = Stalled(d)
    BY <1>3 DEF HandleSetInterface
  <2> QED BY <2>1, VerdictsSound
<1> QED BY <1>2, <1>3

LEMMA HandleStandardRequestSound ==
  ASSUME NEW d, Sound(d), NEW altOk
  PROVE  SoundReply(HandleStandardRequest(d, altOk))
<1>1. d.packet.request \in
        {"getStatus", "clearFeature", "setFeature", "setAddress",
         "getDescriptor", "setDescriptor", "getConfiguration",
         "setConfiguration", "getInterface", "setInterface", "syncFrame",
         "other"}
  BY Fields DEF SetupPackets
<1> QED BY <1>1, VerdictsSound, HandleGetDescriptorSound, HandleGetStatusSound,
           HandleSetAddressSound, HandleSetConfigurationSound,
           HandleGetConfigurationSound, HandleGetInterfaceSound,
           HandleSetInterfaceSound
        DEF HandleStandardRequest

-----------------------------------------------------------------------------
(* The EP0 state machine.                                                  *)

LEMMA ClassRequestSound ==
  ASSUME NEW d, Sound(d), NEW ans \in Answers
  PROVE  SoundReply(ClassRequest(d, ans))
<1> DEFINE arms == ans.arm /\ d.packet.length # 0
           cb   == IF ans.callback THEN "class" ELSE d.setupCallback
           o1   == [d.out EXCEPT !.needsArming = d.out.needsArming \/ arms]
           o2   == [o1 EXCEPT !.transferCount = IF arms THEN d.packet.length
                                                ELSE d.out.transferCount]
           e1   == [d EXCEPT !.setupCallback = cb]
           e2   == [e1 EXCEPT !.out = o2]
<1>1. /\ ans.response \in Responses /\ ans.data \in Objects
      /\ ans.size \in Word
  BY DEF Answers
<1>2. cb \in Callbacks
  BY Fields DEF Callbacks
<1>3. o2 \in EpOut
  <2>1. (d.out.needsArming \/ arms) \in BOOLEAN
    OBVIOUS
  <2>2. (IF arms THEN d.packet.length ELSE d.out.transferCount) \in Word
    BY Fields DEF SetupPackets, EpOut
  <2> HIDE DEF arms
  <2>3. o1 \in EpOut
    BY <2>1, Fields DEF EpOut
  <2> HIDE DEF o1
  <2> QED BY <2>2, <2>3 DEF EpOut
<1> HIDE DEF cb, o2
<1>4. Sound(e1) /\ e1.out = d.out
  BY <1>2, SetCallback DEF Sound, Devices
<1>5. Sound(e2)
  BY <1>3, <1>4, SetOut
<1>6. ClassRequest(d, ans) = Reply(e2, ans.response, ans.data, ans.size)
  BY <1>4 DEF ClassRequest, cb, o2
<1> QED BY <1>1, <1>5, <1>6, ReplySound

LEMMA CompleteSetupPacketSound ==
  ASSUME NEW d, Sound(d)
  PROVE  Sound(CompleteSetupPacket(d))
<1> DEFINE sent == WriteEP([d EXCEPT !.usbCtrlState = "dataTX"])
<1>1. Sound(sent)
  BY SetCtrlState, WriteEPSound DEF CtrlStates
<1>2. Sound([sent EXCEPT !.usbCtrlState = "statusRX"])
  BY <1>1, SetCtrlState DEF CtrlStates
<1>3. Sound([d EXCEPT !.usbCtrlState = "dataRX"])
  BY SetCtrlState DEF CtrlStates
<1>4. Sound([StallEP(d) EXCEPT !.usbCtrlState = "idle"])
  BY StallEPSound, SetCtrlState DEF CtrlStates
<1>5. d.in.needsArming \in BOOLEAN /\ d.out.needsArming \in BOOLEAN
      /\ d.in.stall \in BOOLEAN
  BY Fields DEF EpIn, EpOut
<1> HIDE DEF sent
<1>6. CASE d.in.needsArming
  <2>1. CompleteSetupPacket(d) =
          IF sent.in.transferCount = 0
          THEN [sent EXCEPT !.usbCtrlState = "statusRX"] ELSE sent
    BY <1>6 DEF CompleteSetupPacket, sent
  <2> QED BY <1>1, <1>2, <2>1
<1>7. CASE ~d.in.needsArming /\ d.out.needsArming
  BY <1>3, <1>7 DEF CompleteSetupPacket
<1>8. CASE ~d.in.needsArming /\ ~d.out.needsArming /\ d.in.stall
  BY <1>4, <1>8 DEF CompleteSetupPacket
<1>9. CASE ~d.in.needsArming /\ ~d.out.needsArming /\ ~d.in.stall
  BY <1>9 DEF CompleteSetupPacket
<1> QED BY <1>6, <1>7, <1>8, <1>9

LEMMA ArmReplySound ==
  ASSUME NEW reply, SoundReply(reply)
  PROVE  Sound(ArmReply(reply))
<1> DEFINE d      == reply.dev
           r      == reply.response
           count  == IF r = "zeroLength" THEN 0 ELSE reply.size
           whacko == r = "data" /\ reply.data = NullPtr /\ ~d.in.isMultiPart
           stalls == r \in {"stall", "unhandled"}
           arms   == /\ ~whacko
                     /\ \/ r = "data"
                        \/ r = "zeroLength" /\ ~d.out.needsArming
           i1 == [d.in EXCEPT !.stall = stalls]
           i2 == [i1 EXCEPT !.needsArming = arms]
           i3 == [i2 EXCEPT !.memBuffer = [obj |-> reply.data, off |-> 0]]
           i4 == [i3 EXCEPT !.transferCount = Least(count, d.packet.length)]
<1>1. Sound(d) /\ reply.data \in Objects /\ reply.size \in Word
  BY DEF SoundReply
<1>2. Least(count, d.packet.length) \in Word
  <2>1. count \in Nat /\ d.packet.length \in Word
    BY <1>1, Fields, Words DEF SetupPackets
  <2> QED BY <2>1, LeastWord
<1>3. [obj |-> reply.data, off |-> 0] \in Buffers
  BY <1>1 DEF Buffers
<1>4. stalls \in BOOLEAN /\ arms \in BOOLEAN
  OBVIOUS
<1>5. i2 \in EpIn
  <2> HIDE DEF stalls, arms
  <2> QED BY <1>1, <1>4, Fields DEF EpIn
<1>6. i4 \in EpIn
  <2> HIDE DEF i2
  <2>1. i3 \in EpIn
    BY <1>3, <1>5 DEF EpIn
  <2> HIDE DEF i3, count
  <2> QED BY <1>2, <2>1 DEF EpIn
<1>7. Sound([d EXCEPT !.in = i4])
  BY <1>1, <1>6, SetIn
<1>8. ArmReply(reply) = [d EXCEPT !.in = i4]
  BY DEF ArmReply
<1> QED BY <1>7, <1>8

LEMMA ReadSetupSound ==
  ASSUME NEW d, Sound(d), NEW rx \in RxPackets
  PROVE  Sound(ReadSetup(d, rx))
<1> DEFINE o  == [d.out EXCEPT !.transferCount = 8]
           p  == Overlay(d.packet, rx.data, Least(rx.count, 8))
           e1 == [d EXCEPT !.out = o]
           e2 == [e1 EXCEPT !.packet = p]
<1>1. rx.data \in SetupPackets /\ rx.count \in Nat
  BY Words DEF RxPackets
<1>2. Least(rx.count, 8) \in Int
  BY <1>1, LeastIsLeast
<1>3. p \in SetupPackets
  BY <1>1, <1>2, Fields, OverlayTyped
<1>4. o \in EpOut
  <2>1. 8 \in Word
    BY Words DEF UINT16_MAX
  <2> QED BY <2>1, Fields DEF EpOut
<1> HIDE DEF o, p
<1>5. Sound(e1)
  BY <1>4, SetOut
<1> HIDE DEF e1
<1>6. Sound(e2)
  BY <1>3, <1>5, SetPacket
<1>7. Sound(ReadEP(e2, rx.count))
  BY <1>1, <1>6, ReadEPSound
<1>8. ReadSetup(d, rx) = ReadEP(e2, rx.count)
  BY DEF ReadSetup, e1, o, p
<1> QED BY <1>7, <1>8

LEMMA FreshReplySound ==
  ASSUME NEW d, Sound(d)
  PROVE  Sound(FreshReply(d))
<1> DEFINE i1 == [d.in EXCEPT !.needsArming = FALSE]
           i2 == [i1 EXCEPT !.stall = FALSE]
           i3 == [i2 EXCEPT !.transferCount = 0]
           o  == [needsArming |-> FALSE, stall |-> FALSE, transferCount |-> 0]
           e1 == [d EXCEPT !.usbCtrlState = "wait"]
           e2 == [e1 EXCEPT !.in = i3]
           e3 == [e2 EXCEPT !.out = o]
<1>1. i3 \in EpIn
  <2>1. i2 \in EpIn
    BY Fields DEF EpIn
  <2> HIDE DEF i2
  <2> QED BY <2>1, Words DEF EpIn
<1>2. o \in EpOut
  BY Words DEF EpOut
<1> HIDE DEF i3, o
<1>3. Sound(e1)
  BY SetCtrlState DEF CtrlStates
<1> HIDE DEF e1
<1>4. Sound(e2)
  BY <1>1, <1>3, SetIn
<1> HIDE DEF e2
<1>5. Sound(e3)
  BY <1>2, <1>4, SetOut
<1>6. FreshReply(d) = e3
  <2>1. e1.in = d.in
    BY DEF e1, Sound, Devices
  <2> QED BY DEF FreshReply, e1, e2, i3, o
<1> QED BY <1>5, <1>6

LEMMA HandleSetupPacketSound ==
  ASSUME NEW d, Sound(d), NEW rx \in RxPackets, NEW ans \in Answers
  PROVE  Sound(HandleSetupPacket(d, rx, ans))
<1> DEFINE read     == ReadSetup(d, rx)
           standard == HandleStandardRequest(FreshReply(read), ans.altOk)
           reply    == IF standard.response = "unhandled"
                          /\ read.activeConfig # 0
                       THEN ClassRequest(standard.dev, ans) ELSE standard
<1>1. Sound(read)
  BY ReadSetupSound
<1> HIDE DEF read
<1>2. SoundReply(standard)
  BY <1>1, FreshReplySound, HandleStandardRequestSound
<1> HIDE DEF standard
<1>3. SoundReply(reply)
  BY <1>2, ClassRequestSound DEF SoundReply
<1> HIDE DEF reply
<1>4. Sound(StallEP(read)) /\ Sound(CompleteSetupPacket(ArmReply(reply)))
  BY <1>1, <1>3, StallEPSound, ArmReplySound, CompleteSetupPacketSound
<1> QED BY <1>4 DEF HandleSetupPacket, read, standard, reply

LEMMA HandleControllerOutPacketSound ==
  ASSUME NEW d, Sound(d), NEW rx \in RxPackets, NEW ans \in Answers
  PROVE  Sound(HandleControllerOutPacket(d, rx, ans))
<1> DEFINE read == ReadEP(d, rx.count)
           arm  == [read EXCEPT !.in.needsArming = TRUE]
           full == WriteEP([arm EXCEPT !.usbCtrlState = "statusTX"])
           idle == [d EXCEPT !.usbCtrlState = "idle"]
<1>1. Sound(read)
  BY Words, ReadEPSound DEF RxPackets
<1> HIDE DEF read
<1>2. Sound(arm)
  <2>1. [read.in EXCEPT !.needsArming = TRUE] \in EpIn
    BY <1>1, Fields DEF EpIn
  <2> QED BY <1>1, <2>1, SetIn
<1> HIDE DEF arm
<1>3. Sound(full)
  BY <1>2, SetCtrlState, WriteEPSound DEF CtrlStates
<1>4. Sound(RunCallback(full))
  <2> HIDE DEF full
  <2> QED BY <1>3, RunCallbackSound
<1>5. Sound(HandleSetupPacket(RunCallback(idle), rx, ans))
  BY SetCtrlState, RunCallbackSound, HandleSetupPacketSound DEF CtrlStates
<1> QED BY <1>1, <1>4, <1>5 DEF HandleControllerOutPacket, read, arm

LEMMA HandleControllerInPacketSound ==
  ASSUME NEW d, Sound(d)
  PROVE  Sound(HandleControllerInPacket(d))
<1> DEFINE sent == WriteEP(d)
<1>1. Sound(sent) /\ Sound([sent EXCEPT !.usbCtrlState = "statusRX"])
  BY WriteEPSound, SetCtrlState DEF CtrlStates
<1>2. Sound(RunCallback([d EXCEPT !.usbCtrlState = "idle"]))
  BY SetCtrlState, RunCallbackSound DEF CtrlStates
<1> QED BY <1>1, <1>2 DEF HandleControllerInPacket

LEMMA HandleControlPacketSound ==
  ASSUME NEW d, Sound(d), NEW rx \in RxPackets, NEW ans \in Answers
  PROVE  Sound(HandleControlPacket(d, rx, ans))
BY HandleSetupPacketSound, HandleControllerOutPacketSound
   DEF HandleControlPacket

LEMMA HandleControlPacketByStateSound ==
  ASSUME NEW d, Sound(d), NEW rx \in RxPackets, NEW ans \in Answers
  PROVE  Sound(HandleControlPacketByState(d, rx, ans))
BY HandleSetupPacketSound, HandleControllerOutPacketSound
   DEF HandleControlPacketByState

-----------------------------------------------------------------------------
(* What the operators leave alone.                                         *)

\* The interrupt's own business: no handler of the control machinery touches it.
Untouched(d, o) ==
  /\ o.usbSuspended = d.usbSuspended
  /\ o.hw.itrEnable = d.hw.itrEnable /\ o.hw.status = d.hw.status
  /\ o.hw.forceSuspend = d.hw.forceSuspend
  /\ o.hw.rxPacket = d.hw.rxPacket /\ o.hw.txComplete = d.hw.txComplete

SameConfig(d, o) ==
  /\ o.activeConfig = d.activeConfig /\ o.handlersUp = d.handlersUp
  /\ o.hw.eps = d.hw.eps

SameAddress(d, o) ==
  /\ o.hw.addr = d.hw.addr /\ o.hw.enabled = d.hw.enabled
  /\ o.usbState = d.usbState

Keeps(d, o) == Untouched(d, o) /\ SameConfig(d, o) /\ SameAddress(d, o)

LEMMA KeepsBuffers ==
  ASSUME NEW d, Sound(d), NEW n \in Nat
  PROVE  /\ Keeps(d, ReadEP(d, n)) /\ Keeps(d, StallEP(d))
         /\ Keeps(d, FreshReply(d))
BY DEF Keeps, Untouched, SameConfig, SameAddress, ReadEP, StallEP, FreshReply,
       Sound, Devices, Registers

LEMMA KeepsWriteEP ==
  ASSUME NEW d, Sound(d)
  PROVE  Keeps(d, WriteEP(d))
<1>1. PICK i, data :
        WriteEP(d) = [d EXCEPT !.in = i, !.hw.tx = "valid", !.hw.txData = data]
  <2> DEFINE count  == Least(d.in.transferCount, epBufferSize)
             left   == d.in.transferCount - count
             source == WriteSource(d.in)
             i    == [d.in EXCEPT !.transferCount = left,
                       !.memBuffer = [source EXCEPT !.off = @ + count],
                       !.isMultiPart = @ /\ left # 0]
             data == [obj |-> source.obj, off |-> source.off, len |-> count]
  <2>1. WriteEP(d) = [d EXCEPT !.in = i, !.hw.tx = "valid", !.hw.txData = data]
    BY DEF WriteEP
  <2> QED BY <2>1
<1> DEFINE h == [d.hw EXCEPT !.tx = "valid", !.txData = data]
<1>2. /\ h.addr = d.hw.addr /\ h.enabled = d.hw.enabled /\ h.eps = d.hw.eps
      /\ h.itrEnable = d.hw.itrEnable /\ h.status = d.hw.status
      /\ h.forceSuspend = d.hw.forceSuspend
      /\ h.rxPacket = d.hw.rxPacket /\ h.txComplete = d.hw.txComplete
  BY Fields DEF Registers
<1>3. WriteEP(d) = [d EXCEPT !.in = i, !.hw = h]
  BY <1>1
<1> HIDE DEF h
<1> QED BY <1>2, <1>3 DEF Keeps, Untouched, SameConfig, SameAddress, Sound, Devices

LEMMA KeepsTogether ==
  ASSUME NEW a, NEW b, NEW c, Keeps(a, b), Keeps(b, c)
  PROVE  Keeps(a, c)
BY DEF Keeps, Untouched, SameConfig, SameAddress

LEMMA AddressKeeps ==
  ASSUME NEW d, Sound(d), NEW v \in Word
  PROVE  Untouched(d, Address(d, v)) /\ SameConfig(d, Address(d, v))
<1> DEFINE h == [d.hw EXCEPT !.addr = v % 128, !.enabled = TRUE]
<1>1. /\ h.eps = d.hw.eps /\ h.itrEnable = d.hw.itrEnable
      /\ h.status = d.hw.status /\ h.forceSuspend = d.hw.forceSuspend
      /\ h.rxPacket = d.hw.rxPacket /\ h.txComplete = d.hw.txComplete
  BY Fields DEF Registers
<1>2. Address(d, v) = [d EXCEPT !.hw = h]
  BY DEF Address
<1> HIDE DEF h
<1> QED BY <1>1, <1>2 DEF Untouched, SameConfig, Sound, Devices

LEMMA CallbackKeeps ==
  ASSUME NEW d, Sound(d)
  PROVE  Untouched(d, RunCallback(d)) /\ SameConfig(d, RunCallback(d))
<1> DEFINE a == IF d.setupCallback = "address" THEN AddressCallback(d) ELSE d
<1>1. /\ Sound(Address(d, d.packet.value)) /\ Sound(Address(d, 0))
      /\ Untouched(d, Address(d, d.packet.value)) /\ Untouched(d, Address(d, 0))
      /\ SameConfig(d, Address(d, d.packet.value)) /\ SameConfig(d, Address(d, 0))
  <2>1. d.packet.value \in Word /\ 0 \in Word
    BY Fields, Words DEF SetupPackets
  <2> QED BY <2>1, AddressSound, AddressKeeps
<1>2. ASSUME NEW e, Sound(e), NEW s, Untouched(d, e), SameConfig(d, e)
      PROVE  /\ Untouched(d, [e EXCEPT !.usbState = s])
             /\ SameConfig(d, [e EXCEPT !.usbState = s])
  BY <1>2 DEF Untouched, SameConfig, Sound, Devices
<1>3. Untouched(d, d) /\ SameConfig(d, d)
  BY DEF Untouched, SameConfig
<1>4. Sound(a) /\ Untouched(d, a) /\ SameConfig(d, a)
  BY <1>1, <1>2, <1>3, AddressCallbackSound DEF AddressCallback
<1> HIDE DEF a
<1>5. /\ Untouched(d, [a EXCEPT !.setupCallback = "none"])
      /\ SameConfig(d, [a EXCEPT !.setupCallback = "none"])
  BY <1>4 DEF Untouched, SameConfig, Sound, Devices
<1> QED BY <1>5 DEF RunCallback, a

-----------------------------------------------------------------------------
(* What a request does to the configuration.                               *)

Chooses(p) == p.type = "standard" /\ p.request = "setConfiguration"

\* The request, if it chooses a configuration at all, chooses one there is.
ChoosesOne(p) == Chooses(p) => p.value % 256 \in 1..configsCount

\* A configuration whose handlers have been initialised is active.
Up(d) == d.activeConfig # 0 /\ d.activeConfig \in d.handlersUp

\* A new configuration has been brought up.
Chosen(d) == Up(d) /\ d.hw.eps = d.activeConfig

LEMMA VerdictsKeep ==
  ASSUME NEW d
  PROVE  Keeps(d, Stalled(d).dev) /\ Keeps(d, Unhandled(d).dev)
         /\ Keeps(d, Acked(d).dev)
BY DEF Keeps, Untouched, SameConfig, SameAddress, Stalled, Unhandled, Acked, Reply

LEMMA GetDescriptorKeeps ==
  ASSUME NEW d, Sound(d)
  PROVE  Keeps(d, HandleGetDescriptor(d).dev)
<1> DEFINE Kept(r) == Keeps(d, r.dev)
<1> DEFINE index == d.packet.value % 256
<1>1. ASSUME NEW r, NEW o, NEW n PROVE Kept(Reply(d, r, o, n))
  BY DEF Keeps, Untouched, SameConfig, SameAddress, Reply
<1>2. ASSUME NEW o, NEW n PROVE Kept(MultiPart(d, o, n))
  BY DEF Keeps, Untouched, SameConfig, SameAddress, MultiPart, Reply, Sound, Devices
<1>3. Kept(Stalled(d)) /\ Kept(Unhandled(d))
  BY VerdictsKeep
<1> HIDE DEF Kept
<1>4. Kept(Reply(d, "data", <<"deviceDescriptor", 0>>, 18))
  BY <1>1
<1>5. Kept(MultiPart(d, <<"configDescriptor", index>>, ConfigLength[index]))
  BY <1>2
<1>6. Kept(Reply(d, "data", <<"interfaceDescriptor", index>>, 9))
  BY <1>1
<1>7. Kept(Reply(d, "data", <<"endpointDescriptor", index>>, 7))
  BY <1>1
<1>8. Kept(Reply(d, "data", <<"langID", 0>>, 4))
  BY <1>1
<1>9. Kept(MultiPart(d, <<"string", index>>, StringLength[index]))
  BY <1>2
<1>10. Kept(HandleGetDescriptor(d))
  BY <1>3, <1>4, <1>5, <1>6, <1>7, <1>8, <1>9, Zenon DEF HandleGetDescriptor, index
<1> QED BY <1>10 DEF Kept

LEMMA SetConfigurationKeeps ==
  ASSUME NEW d, Sound(d)
  PROVE  LET o == HandleSetConfiguration(d).dev
         IN  /\ Untouched(d, o)
             /\ Chooses(d.packet) /\ ChoosesOne(d.packet)
                => SameConfig(d, o) \/ Chosen(o)
<1> DEFINE config == d.packet.value % 256
           torn   == DeinitHandlers(ResetEPs(d, "user"))
           chosen == [torn EXCEPT !.activeConfig = config]
           armed  == [chosen EXCEPT !.hw.eps = config]
           o      == HandleSetConfiguration(d).dev
<1>1. Sound(torn) /\ Untouched(d, torn)
  <2>1. Sound(torn)
    BY ResetEPsSound, DeinitHandlersSound DEF Quiet
  <2>2. Untouched(d, torn)
    BY DEF Untouched, DeinitHandlers, ResetEPs, Sound, Devices, Registers
  <2> QED BY <2>1, <2>2
<1> HIDE DEF config, torn
<1>2. CASE ~(d.packet.dir = "out" /\ d.packet.recipient = "device")
  BY <1>2, VerdictsKeep DEF HandleSetConfiguration, Keeps
<1>3. CASE /\ d.packet.dir = "out" /\ d.packet.recipient = "device"
           /\ config > configsCount
  <2>1. o = torn
    <3>1. config # 0
      BY <1>3, BuildOptions DEF BuildOptions
    <3> QED BY <1>3, <3>1 DEF HandleSetConfiguration, Stalled, Reply, config, torn
  <2>2. ~(Chooses(d.packet) /\ ChoosesOne(d.packet))
    BY <1>3, BuildOptions DEF ChoosesOne, config, BuildOptions
  <2> QED BY <1>1, <2>1, <2>2
<1>4. CASE /\ d.packet.dir = "out" /\ d.packet.recipient = "device"
           /\ ~(config > configsCount) /\ config = 0
  <2>1. o = [chosen EXCEPT !.usbState = "addressed"]
    BY <1>4 DEF HandleSetConfiguration, Acked, Reply, config, torn
  <2>2. Untouched(d, o)
    BY <1>1, <2>1 DEF Untouched, Sound, Devices
  <2>3. ~(Chooses(d.packet) /\ ChoosesOne(d.packet))
    BY <1>4 DEF ChoosesOne, config
  <2> QED BY <2>2, <2>3
<1>5. CASE /\ d.packet.dir = "out" /\ d.packet.recipient = "device"
           /\ ~(config > configsCount) /\ config # 0
  <2>1. o = InitHandlers(armed)
    BY <1>5 DEF HandleSetConfiguration, Acked, Reply, config, torn
  <2>2. Untouched(d, o)
    BY <1>1, <2>1 DEF Untouched, InitHandlers, Sound, Devices, Registers
  <2>3. o.activeConfig = config /\ config \in o.handlersUp /\ o.hw.eps = config
    BY <1>1, <1>5, <2>1 DEF InitHandlers, Sound, Devices, Registers
  <2> QED BY <1>5, <2>2, <2>3 DEF Chosen, Up
<1> QED BY <1>2, <1>3, <1>4, <1>5

LEMMA StandardKeeps ==
  ASSUME NEW d, Sound(d), NEW altOk
  PROVE  LET o == HandleStandardRequest(d, altOk).dev
         IN  /\ Untouched(d, o)
             /\ ~Chooses(d.packet) => SameConfig(d, o)
             /\ ChoosesOne(d.packet) => SameConfig(d, o) \/ Chosen(o)
<1> DEFINE o == HandleStandardRequest(d, altOk).dev
<1>1. CASE Chooses(d.packet)
  <2>1. HandleStandardRequest(d, altOk) = HandleSetConfiguration(d)
    BY <1>1 DEF Chooses, HandleStandardRequest
  <2> QED BY <1>1, <2>1, SetConfigurationKeeps
<1>2. CASE ~Chooses(d.packet)
  <2>1. Keeps(d, HandleGetDescriptor(d).dev)
    BY GetDescriptorKeeps
  <2>2. /\ Keeps(d, HandleGetStatus(d).dev)
        /\ Keeps(d, HandleGetConfiguration(d).dev)
        /\ Keeps(d, HandleGetInterface(d).dev)
    <3>1. ASSUME NEW r, NEW b, NEW n PROVE Keeps(d, Reply(d, r, b, n).dev)
      BY DEF Keeps, Untouched, SameConfig, SameAddress, Reply
    <3> QED BY <3>1, VerdictsKeep
            DEF HandleGetStatus, HandleGetConfiguration, HandleGetInterface
  <2>3. /\ Untouched(d, HandleSetAddress(d).dev)
        /\ SameConfig(d, HandleSetAddress(d).dev)
    BY DEF HandleSetAddress, Untouched, SameConfig, Acked, Stalled, Reply, Sound, Devices
  <2>4. Keeps(d, HandleSetInterface(d, altOk).dev)
    <3> DEFINE mode == [d EXCEPT !.alternateModes[d.activeConfig][d.packet.index]
                                   = d.packet.value]
    <3>1. Keeps(d, mode)
      BY DEF Keeps, Untouched, SameConfig, SameAddress, Sound, Devices
    <3>2. HandleSetInterface(d, altOk).dev \in {d, mode}
      BY DEF HandleSetInterface, Stalled, Acked, Reply
    <3>3. Keeps(d, d)
      BY DEF Keeps, Untouched, SameConfig, SameAddress
    <3> QED BY <3>1, <3>2, <3>3
  <2>5. Untouched(d, o) /\ SameConfig(d, o)
    <3>1. d.packet.request \in
            {"getStatus", "clearFeature", "setFeature", "setAddress",
             "getDescriptor", "setDescriptor", "getConfiguration",
             "setConfiguration", "getInterface", "setInterface", "syncFrame",
             "other"}
      BY Fields DEF SetupPackets
    <3> QED BY <1>2, <2>1, <2>2, <2>3, <2>4, <3>1, VerdictsKeep
            DEF Keeps, HandleStandardRequest, Chooses
  <2> QED BY <1>2, <2>5
<1> QED BY <1>1, <1>2

-----------------------------------------------------------------------------
(* What a control packet does to it.                                       *)

LEMMA ClassRequestKeeps ==
  ASSUME NEW d, Sound(d), NEW ans
  PROVE  Keeps(d, ClassRequest(d, ans).dev)
BY DEF ClassRequest, Reply, Keeps, Untouched, SameConfig, SameAddress, Sound, Devices

LEMMA ArmReplyKeeps ==
  ASSUME NEW reply, Sound(reply.dev)
  PROVE  Keeps(reply.dev, ArmReply(reply))
BY DEF ArmReply, Keeps, Untouched, SameConfig, SameAddress, Sound, Devices

LEMMA CompleteKeeps ==
  ASSUME NEW d, Sound(d)
  PROVE  Keeps(d, CompleteSetupPacket(d))
<1>1. ASSUME NEW e, Sound(e), NEW s PROVE Keeps(e, [e EXCEPT !.usbCtrlState = s])
  BY <1>1 DEF Keeps, Untouched, SameConfig, SameAddress, Sound, Devices
<1> DEFINE t == [d EXCEPT !.usbCtrlState = "dataTX"]
           w == WriteEP(t)
<1>2. Sound(t) /\ Keeps(d, t)
  BY <1>1, SetCtrlState DEF CtrlStates
<1> HIDE DEF t
<1>3. Sound(w) /\ Keeps(d, w)
  BY <1>2, WriteEPSound, KeepsWriteEP, KeepsTogether
<1> HIDE DEF w
<1>4. Keeps(d, [w EXCEPT !.usbCtrlState = "statusRX"])
  <2>1. Keeps(w, [w EXCEPT !.usbCtrlState = "statusRX"])
    BY <1>1, <1>3
  <2> QED BY <1>3, <2>1, KeepsTogether
<1>5. Keeps(d, [StallEP(d) EXCEPT !.usbCtrlState = "idle"])
  <2>1. Sound(StallEP(d)) /\ Keeps(d, StallEP(d))
    BY StallEPSound, KeepsBuffers, 0 \in Nat
  <2>2. Keeps(StallEP(d), [StallEP(d) EXCEPT !.usbCtrlState = "idle"])
    BY <1>1, <2>1
  <2> QED BY <2>1, <2>2, KeepsTogether
<1>6. Keeps(d, [d EXCEPT !.usbCtrlState = "dataRX"]) /\ Keeps(d, d)
  BY <1>1 DEF Keeps, Untouched, SameConfig, SameAddress
<1>7. d.in.needsArming \in BOOLEAN /\ d.out.needsArming \in BOOLEAN
      /\ d.in.stall \in BOOLEAN
  BY Fields DEF EpIn, EpOut
<1>8. CompleteSetupPacket(d) \in
        {w, [w EXCEPT !.usbCtrlState = "statusRX"], d,
         [d EXCEPT !.usbCtrlState = "dataRX"],
         [StallEP(d) EXCEPT !.usbCtrlState = "idle"]}
  BY <1>7 DEF CompleteSetupPacket, w, t
<1> QED BY <1>3, <1>4, <1>5, <1>6, <1>8

\* A packet of at least eight bytes is read as it was sent; no other is taken
\* for a request.
LEMMA ReadSetupReads ==
  ASSUME NEW d, Sound(d), NEW rx \in RxPackets
  PROVE  /\ Keeps(d, ReadSetup(d, rx))
         /\ ReadSetup(d, rx).out.transferCount = 0
              => ReadSetup(d, rx).packet = rx.data
<1> DEFINE o  == [d.out EXCEPT !.transferCount = 8]
           p  == Overlay(d.packet, rx.data, Least(rx.count, 8))
           e1 == [d EXCEPT !.out = o]
           e2 == [e1 EXCEPT !.packet = p]
<1>1. rx.data \in SetupPackets /\ rx.count \in Nat /\ d.packet \in SetupPackets
  BY Fields, Words DEF RxPackets
<1>2. p \in SetupPackets
  <2>1. Least(rx.count, 8) \in Int
    BY <1>1, LeastIsLeast
  <2> QED BY <1>1, <2>1, OverlayTyped
<1>3. o \in EpOut /\ o.transferCount = 8
  <2>1. 8 \in Word
    BY Words DEF UINT16_MAX
  <2> QED BY <2>1, Fields DEF EpOut
<1>4. rx.count >= 8 => p = rx.data
  <2> SUFFICES ASSUME rx.count >= 8 PROVE p = rx.data
    OBVIOUS
  <2>1. Least(rx.count, 8) = 8
    BY <1>1 DEF Least
  <2> QED BY <1>1, <2>1 DEF Overlay, Merge16, SetupPackets
<1> HIDE DEF o, p
<1>5. Sound(e2) /\ Keeps(d, e2) /\ e2.packet = p /\ e2.out = o
  <2>1. Sound(e2)
    BY <1>2, <1>3, SetOut, SetPacket
  <2>2. Keeps(d, e2) /\ e2.packet = p /\ e2.out = o
    BY DEF Keeps, Untouched, SameConfig, SameAddress, Sound, Devices
  <2> QED BY <2>1, <2>2
<1> HIDE DEF e2
<1>6. Keeps(d, ReadEP(e2, rx.count))
  BY <1>1, <1>5, KeepsBuffers, KeepsTogether
<1>7. ReadSetup(d, rx) = ReadEP(e2, rx.count)
  BY DEF ReadSetup, e2, e1, o, p
<1>8. /\ ReadEP(e2, rx.count).packet = p
      /\ ReadEP(e2, rx.count).out.transferCount = 8 - Least(rx.count, 8)
  BY <1>3, <1>5 DEF ReadEP, Sound, Devices, EpOut
<1>9. 8 - Least(rx.count, 8) = 0 => rx.count >= 8
  BY <1>1 DEF Least
<1> QED BY <1>4, <1>6, <1>7, <1>8, <1>9

LEMMA HandleSetupPacketKeeps ==
  ASSUME NEW d, Sound(d), NEW rx \in RxPackets, NEW ans \in Answers
  PROVE  LET o == HandleSetupPacket(d, rx, ans)
         IN  /\ Untouched(d, o)
             /\ ChoosesOne(rx.data) => SameConfig(d, o) \/ Chosen(o)
<1> DEFINE read     == ReadSetup(d, rx)
           fresh    == FreshReply(read)
           standard == HandleStandardRequest(fresh, ans.altOk)
           reply    == IF standard.response = "unhandled"
                          /\ read.activeConfig # 0
                       THEN ClassRequest(standard.dev, ans) ELSE standard
           o        == HandleSetupPacket(d, rx, ans)
<1>1. Sound(read) /\ Keeps(d, read)
      /\ (read.out.transferCount = 0 => read.packet = rx.data)
  BY ReadSetupSound, ReadSetupReads
<1> HIDE DEF read
<1>2. CASE read.out.transferCount # 0
  <2>1. o = StallEP(read)
    BY <1>2 DEF HandleSetupPacket, read
  <2>2. Keeps(d, o)
    BY <1>1, <2>1, KeepsBuffers, KeepsTogether, 0 \in Nat
  <2> QED BY <2>2 DEF Keeps
<1>3. CASE read.out.transferCount = 0
  <2>1. Sound(fresh) /\ Keeps(d, fresh) /\ fresh.packet = rx.data
    <3>1. Sound(fresh) /\ Keeps(read, fresh)
      BY <1>1, FreshReplySound, KeepsBuffers, 0 \in Nat
    <3>2. fresh.packet = read.packet
      BY <1>1 DEF FreshReply, Sound, Devices
    <3> QED BY <1>1, <1>3, <3>1, <3>2, KeepsTogether
  <2> HIDE DEF fresh
  <2>2. /\ SoundReply(standard) /\ Untouched(fresh, standard.dev)
        /\ ChoosesOne(rx.data) => SameConfig(fresh, standard.dev) \/ Chosen(standard.dev)
    BY <2>1, HandleStandardRequestSound, StandardKeeps
  <2> HIDE DEF standard
  <2>3. SoundReply(reply) /\ Keeps(standard.dev, reply.dev)
    BY <2>2, ClassRequestSound, ClassRequestKeeps
       DEF SoundReply, Keeps, Untouched, SameConfig, SameAddress
  <2> HIDE DEF reply
  <2>4. Keeps(reply.dev, CompleteSetupPacket(ArmReply(reply)))
    BY <2>3, ArmReplySound, ArmReplyKeeps, CompleteKeeps, KeepsTogether DEF SoundReply
  <2>5. o = CompleteSetupPacket(ArmReply(reply))
    BY <1>3 DEF HandleSetupPacket, read, fresh, standard, reply
  <2>6. Keeps(standard.dev, o)
    BY <2>3, <2>4, <2>5, KeepsTogether
  <2> QED BY <2>1, <2>2, <2>6
          DEF Keeps, Untouched, SameConfig, SameAddress, Chosen, Up
<1> QED BY <1>2, <1>3

LEMMA HandleControllerOutPacketKeeps ==
  ASSUME NEW d, Sound(d), NEW rx \in RxPackets, NEW ans \in Answers
  PROVE  LET o == HandleControllerOutPacket(d, rx, ans)
         IN  /\ Untouched(d, o)
             /\ ChoosesOne(rx.data) => SameConfig(d, o) \/ Chosen(o)
<1> DEFINE read == ReadEP(d, rx.count)
           arm  == [read EXCEPT !.in.needsArming = TRUE]
           ack  == [arm EXCEPT !.usbCtrlState = "statusTX"]
           full == WriteEP(ack)
           idle == [d EXCEPT !.usbCtrlState = "idle"]
           quit == RunCallback(idle)
           o    == HandleControllerOutPacket(d, rx, ans)
<1>1. CASE d.usbCtrlState # "dataRX"
  <2>1. Sound(idle) /\ Keeps(d, idle)
    <3>1. Sound(idle)
      BY SetCtrlState DEF CtrlStates
    <3> QED BY <3>1 DEF Keeps, Untouched, SameConfig, SameAddress, Sound, Devices
  <2> HIDE DEF idle
  <2>2. Sound(quit) /\ Untouched(idle, quit) /\ SameConfig(idle, quit)
    BY <2>1, RunCallbackSound, CallbackKeeps
  <2> HIDE DEF quit
  <2>3. o = HandleSetupPacket(quit, rx, ans)
    BY <1>1 DEF HandleControllerOutPacket, quit, idle
  <2>4. /\ Untouched(quit, o)
        /\ ChoosesOne(rx.data) => SameConfig(quit, o) \/ Chosen(o)
    BY <2>2, <2>3, HandleSetupPacketKeeps
  <2> QED BY <2>1, <2>2, <2>4 DEF Keeps, Untouched, SameConfig
<1>2. CASE d.usbCtrlState = "dataRX"
  <2>1. Sound(read) /\ Keeps(d, read)
    BY Words, ReadEPSound, KeepsBuffers DEF RxPackets
  <2> HIDE DEF read
  <2>2. Sound(ack) /\ Keeps(read, ack)
    <3>1. Sound(arm)
      <4>1. [read.in EXCEPT !.needsArming = TRUE] \in EpIn
        BY <2>1, Fields DEF EpIn
      <4> QED BY <2>1, <4>1, SetIn
    <3>2. Sound(ack)
      <4> HIDE DEF arm
      <4> QED BY <3>1, SetCtrlState DEF CtrlStates
    <3> QED BY <2>1, <3>2 DEF Keeps, Untouched, SameConfig, SameAddress, Sound, Devices
  <2> HIDE DEF ack
  <2>3. Sound(full) /\ Keeps(d, full)
    BY <2>1, <2>2, WriteEPSound, KeepsWriteEP, KeepsTogether
  <2> HIDE DEF full
  <2>4. Untouched(full, RunCallback(full)) /\ SameConfig(full, RunCallback(full))
    BY <2>3, CallbackKeeps
  <2>5. o \in {read, RunCallback(full)}
    BY <1>2 DEF HandleControllerOutPacket, read, full, ack, arm
  <2> QED BY <2>1, <2>3, <2>4, <2>5 DEF Keeps, Untouched, SameConfig
<1> QED BY <1>1, <1>2

LEMMA HandleControlPacketByStateKeeps ==
  ASSUME NEW d, Sound(d), NEW rx \in RxPackets, NEW ans \in Answers
  PROVE  LET o == HandleControlPacketByState(d, rx, ans)
         IN  /\ Untouched(d, o)
             /\ ChoosesOne(rx.data) => SameConfig(d, o) \/ Chosen(o)
BY HandleSetupPacketKeeps, HandleControllerOutPacketKeeps
   DEF HandleControlPacketByState

LEMMA HandleControllerInPacketKeeps ==
  ASSUME NEW d, Sound(d)
  PROVE  LET o == HandleControllerInPacket(d)
         IN  Untouched(d, o) /\ SameConfig(d, o)
<1> DEFINE sent == WriteEP(d)
           idle == [d EXCEPT !.usbCtrlState = "idle"]
<1>1. Sound(sent) /\ Keeps(d, sent)
  BY WriteEPSound, KeepsWriteEP
<1> HIDE DEF sent
<1>2. Keeps(d, [sent EXCEPT !.usbCtrlState = "statusRX"])
  BY <1>1 DEF Keeps, Untouched, SameConfig, SameAddress, Sound, Devices
<1>3. Sound(idle) /\ Keeps(d, idle)
  <2>1. Sound(idle)
    BY SetCtrlState DEF CtrlStates
  <2> QED BY <2>1 DEF Keeps, Untouched, SameConfig, SameAddress, Sound, Devices
<1> HIDE DEF idle
<1>4. Untouched(idle, RunCallback(idle)) /\ SameConfig(idle, RunCallback(idle))
  BY <1>3, CallbackKeeps
<1>5. HandleControllerInPacket(d) \in
        {sent, [sent EXCEPT !.usbCtrlState = "statusRX"], RunCallback(idle)}
  BY DEF HandleControllerInPacket, sent, idle
<1> QED BY <1>1, <1>2, <1>3, <1>4, <1>5 DEF Keeps, Untouched, SameConfig

-----------------------------------------------------------------------------
(* What the operators do to EP0.                                           *)

\* EP0's state but for its status in the direction of an answer.
SameReceiver(d, o) ==
  /\ o.packet = d.packet /\ o.usbCtrlState = d.usbCtrlState
  /\ o.out = d.out /\ o.hw.rx = d.hw.rx

SameSender(d, o) ==
  /\ o.in = d.in /\ o.hw.tx = d.hw.tx /\ o.hw.txData = d.hw.txData

LEMMA WriteEPWrites ==
  ASSUME NEW d, Sound(d)
  PROVE  LET o      == WriteEP(d)
             source == WriteSource(d.in)
             count  == Least(d.in.transferCount, epBufferSize)
             left   == d.in.transferCount - count
         IN  /\ SameReceiver(d, o) /\ o.setupCallback = d.setupCallback
             /\ o.hw.tx = "valid" /\ o.hw.txData.len = count
             /\ o.hw.txData.obj = source.obj /\ o.hw.txData.off = source.off
             /\ o.in.transferCount = left
             /\ o.in.memBuffer.obj = source.obj
             /\ o.in.memBuffer.off = source.off + count
             /\ o.in.isMultiPart = (d.in.isMultiPart /\ left # 0)
             /\ o.in.partsData = d.in.partsData
<1> DEFINE source == WriteSource(d.in)
           count  == Least(d.in.transferCount, epBufferSize)
           left   == d.in.transferCount - count
           buffer == [source EXCEPT !.off = source.off + count]
           i    == [d.in EXCEPT !.transferCount = left, !.memBuffer = buffer,
                                !.isMultiPart = d.in.isMultiPart /\ left # 0]
           data == [obj |-> source.obj, off |-> source.off, len |-> count]
           g    == [d.hw EXCEPT !.tx = "valid", !.txData = data]
           o    == WriteEP(d)
<1>1. d.in \in EpIn /\ d.hw \in Registers /\ source \in Buffers
  BY Fields, SourceTyped
<1>2. data.obj = source.obj /\ data.off = source.off /\ data.len = count
  OBVIOUS
<1>3. buffer.obj = source.obj /\ buffer.off = source.off + count
  BY <1>1 DEF Buffers
<1> HIDE DEF source, count, left, buffer, data
<1>4. /\ i.transferCount = left /\ i.memBuffer = buffer
      /\ i.isMultiPart = (d.in.isMultiPart /\ left # 0)
      /\ i.partsData = d.in.partsData
  BY <1>1 DEF EpIn
<1>5. g.tx = "valid" /\ g.txData = data /\ g.rx = d.hw.rx
  BY <1>1 DEF Registers
<1>6. o = [d EXCEPT !.in = i, !.hw = g]
  BY DEF WriteEP, source, count, left, buffer, data
<1> HIDE DEF i, g
<1>7. /\ o.in = i /\ o.hw = g /\ o.packet = d.packet /\ o.out = d.out
      /\ o.usbCtrlState = d.usbCtrlState /\ o.setupCallback = d.setupCallback
  BY <1>6 DEF Sound, Devices
<1> HIDE DEF o
<1> QED BY <1>2, <1>3, <1>4, <1>5, <1>7
        DEF SameReceiver, o, source, count, left

LEMMA ReadEPReads ==
  ASSUME NEW d, Sound(d), NEW n
  PROVE  LET o == ReadEP(d, n)
         IN  /\ SameSender(d, o) /\ o.setupCallback = d.setupCallback
             /\ o.packet = d.packet /\ o.usbCtrlState = d.usbCtrlState
             /\ o.hw.rx = "valid"
             /\ o.out.needsArming = d.out.needsArming
             /\ o.out.transferCount =
                  d.out.transferCount - Least(n, d.out.transferCount)
<1> DEFINE left == d.out.transferCount - Least(n, d.out.transferCount)
           b == [d.out EXCEPT !.transferCount = left]
           g == [d.hw EXCEPT !.rx = "valid"]
           o == ReadEP(d, n)
<1> HIDE DEF left
<1>1. b.transferCount = left /\ b.needsArming = d.out.needsArming
  BY Fields DEF EpOut
<1>2. g.rx = "valid" /\ g.tx = d.hw.tx /\ g.txData = d.hw.txData
  BY Fields DEF Registers
<1>3. o = [d EXCEPT !.out = b, !.hw = g]
  BY DEF ReadEP, left
<1> HIDE DEF b, g
<1>4. /\ o.in = d.in /\ o.hw = g /\ o.packet = d.packet /\ o.out = b
      /\ o.usbCtrlState = d.usbCtrlState /\ o.setupCallback = d.setupCallback
  BY <1>3 DEF Sound, Devices
<1> HIDE DEF o
<1> QED BY <1>1, <1>2, <1>4 DEF SameSender, o, left

LEMMA StallEPStalls ==
  ASSUME NEW d, Sound(d)
  PROVE  LET o == StallEP(d)
         IN  /\ SameReceiver(d, o) /\ o.setupCallback = d.setupCallback
             /\ o.in = d.in /\ o.hw.tx = "stall"
BY DEF StallEP, SameReceiver, Sound, Devices, Registers

\* A state of the control machinery is entered.
LEMMA EntersState ==
  ASSUME NEW d, Sound(d), NEW s
  PROVE  LET o == [d EXCEPT !.usbCtrlState = s]
         IN  /\ Keeps(d, o) /\ SameSender(d, o)
             /\ o.packet = d.packet /\ o.setupCallback = d.setupCallback
             /\ o.out = d.out /\ o.hw.rx = d.hw.rx /\ o.usbCtrlState = s
BY DEF Keeps, Untouched, SameConfig, SameAddress, SameSender, Sound, Devices

\* address() takes the number of a SET_ADDRESS, and gives up what any other
\* request has stranded.
LEMMA CallbackRuns ==
  ASSUME NEW d, Sound(d)
  PROVE  LET o == RunCallback(d)
         IN  /\ SameReceiver(d, o) /\ SameSender(d, o)
             /\ d.usbState # "addressing" => SameAddress(d, o)
             /\ d.usbState = "addressing" /\ d.setupCallback = "address" =>
                  /\ o.hw.enabled
                  /\ IF /\ d.packet.type = "standard"
                        /\ d.packet.request = "setAddress"
                        /\ d.packet.value < 256
                     THEN /\ o.usbState = "addressed"
                          /\ o.hw.addr = d.packet.value % 128
                     ELSE o.usbState = "waiting" /\ o.hw.addr = 0
<1> DEFINE Same(a) == SameReceiver(d, a) /\ SameSender(d, a)
           o == RunCallback(d)
<1>1. ASSUME NEW a, Sound(a), Same(a)
      PROVE  /\ Same([a EXCEPT !.setupCallback = "none"])
             /\ SameAddress(a, [a EXCEPT !.setupCallback = "none"])
  BY <1>1 DEF SameReceiver, SameSender, SameAddress, Sound, Devices
<1>2. ASSUME NEW v \in Word, NEW s \in DeviceStates
      PROVE  LET a == [Address(d, v) EXCEPT !.usbState = s]
             IN  /\ Sound(a) /\ Same(a) /\ a.hw.enabled /\ a.usbState = s
                 /\ a.hw.addr = v % 128
  <2> DEFINE n == v % 128
             g == [d.hw EXCEPT !.addr = n, !.enabled = TRUE]
             a == [Address(d, v) EXCEPT !.usbState = s]
  <2>1. Sound(a)
    BY AddressSound, SetUsbState
  <2> HIDE DEF n
  <2>2. /\ g.tx = d.hw.tx /\ g.txData = d.hw.txData /\ g.rx = d.hw.rx
        /\ g.enabled /\ g.addr = n
    BY Fields DEF Registers
  <2>3. a = [d EXCEPT !.hw = g, !.usbState = s]
    BY DEF Address, n
  <2> HIDE DEF g
  <2>4. /\ a.hw = g /\ a.in = d.in /\ a.out = d.out /\ a.packet = d.packet
        /\ a.usbCtrlState = d.usbCtrlState /\ a.usbState = s
    BY <2>3 DEF Sound, Devices
  <2> QED BY <2>1, <2>2, <2>4 DEF SameReceiver, SameSender, n
<1>3. Same(d)
  BY DEF SameReceiver, SameSender
<1>4. CASE d.setupCallback # "address" \/ d.usbState # "addressing"
  <2>1. o = [d EXCEPT !.setupCallback = "none"]
    BY <1>4 DEF RunCallback, AddressCallback
  <2>2. Same(o) /\ SameAddress(d, o)
    BY <1>1, <1>3, <2>1
  <2> QED BY <1>4, <2>2
<1>5. CASE d.setupCallback = "address" /\ d.usbState = "addressing"
  <2> DEFINE set  == [Address(d, d.packet.value) EXCEPT !.usbState = "addressed"]
             none == [Address(d, 0) EXCEPT !.usbState = "waiting"]
             is   == /\ d.packet.type = "standard"
                     /\ d.packet.request = "setAddress"
                     /\ d.packet.value < 256
  <2>1. d.packet.value \in Word /\ 0 \in Word
        /\ "addressed" \in DeviceStates /\ "waiting" \in DeviceStates
    BY Fields, Words DEF SetupPackets, DeviceStates
  <2>2. /\ Sound(set) /\ Same(set) /\ set.hw.enabled
        /\ set.usbState = "addressed" /\ set.hw.addr = d.packet.value % 128
    BY <1>2, <2>1
  <2>3. /\ Sound(none) /\ Same(none) /\ none.hw.enabled
        /\ none.usbState = "waiting" /\ none.hw.addr = 0
    <3>1. 0 % 128 = 0
      OBVIOUS
    <3> QED BY <1>2, <2>1, <3>1
  <2>4. o = [(IF is THEN set ELSE none) EXCEPT !.setupCallback = "none"]
    BY <1>5 DEF RunCallback, AddressCallback
  <2> HIDE DEF set, none, Same
  <2>5. CASE is
    <3>1. Same(o) /\ SameAddress(set, o)
      BY <1>1, <2>2, <2>4, <2>5
    <3> QED BY <1>5, <2>2, <2>5, <3>1 DEF SameAddress, Same
  <2>6. CASE ~is
    <3>1. Same(o) /\ SameAddress(none, o)
      BY <1>1, <2>3, <2>4, <2>6
    <3> QED BY <1>5, <2>3, <2>6, <3>1 DEF SameAddress, Same
  <2> QED BY <2>5, <2>6
<1> QED BY <1>4, <1>5

-----------------------------------------------------------------------------
(* What is sent of an answer: the second half of handleSetupPacket().      *)

LEMMA ArmReplyArms ==
  ASSUME NEW reply, SoundReply(reply)
  PROVE  LET d == reply.dev
             o == ArmReply(reply)
             r == reply.response
         IN  /\ o.hw = d.hw /\ o.packet = d.packet /\ o.out = d.out
             /\ o.usbCtrlState = d.usbCtrlState
             /\ o.setupCallback = d.setupCallback
             /\ o.in.isMultiPart = d.in.isMultiPart
             /\ o.in.partsData = d.in.partsData
             /\ o.in.stall = (r \in {"stall", "unhandled"})
             /\ o.in.needsArming =
                  /\ ~(r = "data" /\ reply.data = NullPtr /\ ~d.in.isMultiPart)
                  /\ \/ r = "data"
                     \/ r = "zeroLength" /\ ~d.out.needsArming
             /\ o.in.memBuffer.obj = reply.data /\ o.in.memBuffer.off = 0
             /\ o.in.transferCount =
                  Least(IF r = "zeroLength" THEN 0 ELSE reply.size,
                        d.packet.length)
<1> DEFINE d == reply.dev
           r == reply.response
           stalls == r \in {"stall", "unhandled"}
           arms   == /\ ~(r = "data" /\ reply.data = NullPtr /\ ~d.in.isMultiPart)
                     /\ \/ r = "data"
                        \/ r = "zeroLength" /\ ~d.out.needsArming
           buffer == [obj |-> reply.data, off |-> 0]
           n == Least(IF r = "zeroLength" THEN 0 ELSE reply.size, d.packet.length)
           i == [d.in EXCEPT !.stall = stalls, !.needsArming = arms,
                             !.memBuffer = buffer, !.transferCount = n]
           o == ArmReply(reply)
<1>1. d.in \in EpIn
  BY Fields DEF SoundReply
<1>2. buffer.obj = reply.data /\ buffer.off = 0
  OBVIOUS
<1> HIDE DEF stalls, arms, buffer, n
<1>3. /\ i.stall = stalls /\ i.needsArming = arms /\ i.memBuffer = buffer
      /\ i.transferCount = n /\ i.isMultiPart = d.in.isMultiPart
      /\ i.partsData = d.in.partsData
  BY <1>1 DEF EpIn
<1>4. o = [d EXCEPT !.in = i]
  BY DEF ArmReply, stalls, arms, buffer, n
<1> HIDE DEF i
<1>5. /\ o.in = i /\ o.hw = d.hw /\ o.packet = d.packet /\ o.out = d.out
      /\ o.usbCtrlState = d.usbCtrlState /\ o.setupCallback = d.setupCallback
  BY <1>4 DEF SoundReply, Sound, Devices
<1> HIDE DEF o
<1> QED BY <1>2, <1>3, <1>5 DEF o, stalls, arms, n

\* Every answer leaves the request, the receive buffer and the callback.
LEMMA CompleteCompletes ==
  ASSUME NEW d, Sound(d)
  PROVE  LET o == CompleteSetupPacket(d)
         IN  /\ Keeps(d, o) /\ o.packet = d.packet /\ o.out = d.out
             /\ o.setupCallback = d.setupCallback /\ o.hw.rx = d.hw.rx
<1> DEFINE t == [d EXCEPT !.usbCtrlState = "dataTX"]
           w == WriteEP(t)
           Kept(o) == /\ o.packet = d.packet /\ o.out = d.out
                      /\ o.setupCallback = d.setupCallback /\ o.hw.rx = d.hw.rx
<1>1. Sound(t) /\ Kept(t)
  BY SetCtrlState, EntersState DEF CtrlStates
<1> HIDE DEF t
<1>2. Sound(w) /\ Kept(w)
  BY <1>1, WriteEPSound, WriteEPWrites DEF SameReceiver
<1> HIDE DEF w
<1>3. Sound(StallEP(d)) /\ Kept(StallEP(d))
  BY StallEPSound, StallEPStalls DEF SameReceiver
<1>4. /\ Kept([w EXCEPT !.usbCtrlState = "statusRX"])
      /\ Kept([d EXCEPT !.usbCtrlState = "dataRX"])
      /\ Kept([StallEP(d) EXCEPT !.usbCtrlState = "idle"])
  BY <1>2, <1>3, EntersState
<1>5. d.in.needsArming \in BOOLEAN /\ d.out.needsArming \in BOOLEAN
      /\ d.in.stall \in BOOLEAN
  BY Fields DEF EpIn, EpOut
<1>6. CompleteSetupPacket(d) \in
        {w, [w EXCEPT !.usbCtrlState = "statusRX"], d,
         [d EXCEPT !.usbCtrlState = "dataRX"],
         [StallEP(d) EXCEPT !.usbCtrlState = "idle"]}
  BY <1>5 DEF CompleteSetupPacket, w, t
<1>7. Kept(CompleteSetupPacket(d))
  BY <1>2, <1>4, <1>6
<1> QED BY <1>7, CompleteKeeps

\* Armed with something to send, EP0 sends its first packet.
LEMMA CompleteSends ==
  ASSUME NEW d, Sound(d), d.in.needsArming
  PROVE  LET o      == CompleteSetupPacket(d)
             source == WriteSource(d.in)
             count  == Least(d.in.transferCount, epBufferSize)
             left   == d.in.transferCount - count
         IN  /\ o.hw.tx = "valid" /\ o.hw.txData.len = count
             /\ o.hw.txData.obj = source.obj /\ o.hw.txData.off = source.off
             /\ o.in.transferCount = left
             /\ o.in.memBuffer.obj = source.obj
             /\ o.in.memBuffer.off = source.off + count
             /\ o.in.isMultiPart = (d.in.isMultiPart /\ left # 0)
             /\ o.in.partsData = d.in.partsData
             /\ o.usbCtrlState = IF left = 0 THEN "statusRX" ELSE "dataTX"
<1> DEFINE t == [d EXCEPT !.usbCtrlState = "dataTX"]
           w == WriteEP(t)
           o == CompleteSetupPacket(d)
           left == d.in.transferCount - Least(d.in.transferCount, epBufferSize)
<1>1. Sound(t) /\ t.in = d.in /\ t.usbCtrlState = "dataTX"
  BY SetCtrlState, EntersState DEF CtrlStates, SameSender
<1> HIDE DEF t
<1>2. Sound(w) /\ w.in.transferCount = left /\ w.usbCtrlState = "dataTX"
  BY <1>1, WriteEPSound, WriteEPWrites DEF SameReceiver
<1>3. o = IF left = 0 THEN [w EXCEPT !.usbCtrlState = "statusRX"] ELSE w
  <2>1. w.in.transferCount = left
    BY <1>2
  <2> HIDE DEF left
  <2>2. o = IF w.in.transferCount = 0
            THEN [w EXCEPT !.usbCtrlState = "statusRX"] ELSE w
    BY DEF CompleteSetupPacket, w, t
  <2> QED BY <2>1, <2>2
<1>4. /\ SameSender(w, o)
      /\ o.usbCtrlState = IF left = 0 THEN "statusRX" ELSE "dataTX"
  <2> HIDE DEF left, w, o
  <2>1. SameSender(w, w)
    BY DEF SameSender
  <2> QED BY <1>2, <1>3, <2>1, EntersState
<1> HIDE DEF o, left
<1> QED BY <1>1, <1>4, WriteEPWrites DEF SameSender, o, left

LEMMA RefusalSent ==
  ASSUME NEW reply, SoundReply(reply), reply.response \in {"stall", "unhandled"},
         ~reply.dev.out.needsArming
  PROVE  LET o == CompleteSetupPacket(ArmReply(reply))
         IN  /\ o.hw.tx = "stall" /\ o.usbCtrlState = "idle"
             /\ o.in.isMultiPart = reply.dev.in.isMultiPart
<1> DEFINE a == ArmReply(reply)
           o == CompleteSetupPacket(a)
<1>1. /\ Sound(a) /\ ~a.in.needsArming /\ a.in.stall /\ ~a.out.needsArming
      /\ a.in.isMultiPart = reply.dev.in.isMultiPart
  BY ArmReplySound, ArmReplyArms
<1> HIDE DEF a
<1>2. o = [StallEP(a) EXCEPT !.usbCtrlState = "idle"]
  BY <1>1 DEF CompleteSetupPacket
<1>3. Sound(StallEP(a)) /\ StallEP(a).in = a.in /\ StallEP(a).hw.tx = "stall"
  BY <1>1, StallEPSound, StallEPStalls
<1> QED BY <1>1, <1>2, <1>3, EntersState DEF SameSender, a

\* Of what the reply points at, a table or an object, as much as was asked for.
LEMMA AnswerSent ==
  ASSUME NEW reply, SoundReply(reply), reply.response = "data",
         reply.dev.in.isMultiPart <=> reply.data = NullPtr
  PROVE  LET d     == reply.dev
             o     == CompleteSetupPacket(ArmReply(reply))
             obj   == IF d.in.isMultiPart THEN d.in.partsData ELSE reply.data
             count == Least(reply.size, d.packet.length)
             len   == Least(count, epBufferSize)
             left  == count - len
         IN  /\ o.hw.tx = "valid" /\ o.hw.txData.len = len
             /\ o.hw.txData.obj = obj /\ o.hw.txData.off = 0
             /\ o.in.transferCount = left
             /\ o.in.memBuffer.obj = obj /\ o.in.memBuffer.off = len
             /\ o.in.isMultiPart = (d.in.isMultiPart /\ left # 0)
             /\ o.in.partsData = d.in.partsData
             /\ o.usbCtrlState = IF left = 0 THEN "statusRX" ELSE "dataTX"
<1> DEFINE a      == ArmReply(reply)
           d      == reply.dev
           count  == Least(reply.size, d.packet.length)
           source == WriteSource(a.in)
           len    == Least(count, epBufferSize)
<1>1. /\ Sound(a) /\ a.in.needsArming /\ a.in.transferCount = count
      /\ a.in.isMultiPart = d.in.isMultiPart
      /\ a.in.partsData = d.in.partsData
      /\ a.in.memBuffer.obj = reply.data /\ a.in.memBuffer.off = 0
  BY ArmReplySound, ArmReplyArms
<1>2. a.in.memBuffer \in Buffers /\ a.in.isMultiPart \in BOOLEAN
  BY <1>1, Fields DEF EpIn
<1>3. /\ source.obj = IF d.in.isMultiPart THEN d.in.partsData ELSE reply.data
      /\ source.off = 0
  <2> HIDE DEF a
  <2> QED BY <1>1, <1>2 DEF WriteSource
<1>4. len \in Nat
  <2>1. d.packet.length \in Word /\ epBufferSize \in Nat /\ reply.size \in Nat
    <3>1. d.packet \in SetupPackets /\ reply.size \in Word
      BY Fields DEF SoundReply
    <3>2. d.packet.length \in Word
      BY <3>1 DEF SetupPackets
    <3>3. epBufferSize \in Nat
      BY BuildOptions DEF BuildOptions
    <3> QED BY <3>1, <3>2, <3>3, Words
  <2>2. count \in Nat
    BY <2>1, Words, LeastIsLeast
  <2> QED BY <2>1, <2>2, LeastIsLeast
<1>5. source.off + len = len
  <2> HIDE DEF source, len
  <2> QED BY <1>3, <1>4
<1> HIDE DEF a, source, count
<1> QED BY <1>1, <1>3, <1>5, CompleteSends DEF a, source, count

LEMMA AcknowledgementSent ==
  ASSUME NEW reply, SoundReply(reply), reply.response = "zeroLength",
         ~reply.dev.out.needsArming
  PROVE  LET o == CompleteSetupPacket(ArmReply(reply))
         IN  /\ o.hw.tx = "valid" /\ o.hw.txData.len = 0
             /\ o.usbCtrlState = "statusRX" /\ ~o.in.isMultiPart
<1> DEFINE a == ArmReply(reply)
<1>1. Sound(a) /\ a.in.needsArming /\ a.in.transferCount = 0
  <2>1. reply.dev.packet.length \in Nat
    BY Fields, Words DEF SoundReply, SetupPackets
  <2>2. Least(0, reply.dev.packet.length) = 0
    BY <2>1 DEF Least
  <2> QED BY <2>2, ArmReplySound, ArmReplyArms
<1>2. Least(0, epBufferSize) = 0
  BY BuildOptions DEF BuildOptions, Least
<1> HIDE DEF a
<1>3. /\ Least(a.in.transferCount, epBufferSize) = 0
      /\ a.in.transferCount - Least(a.in.transferCount, epBufferSize) = 0
  BY <1>1, <1>2
<1> QED BY <1>1, <1>3, CompleteSends DEF a

\* The driver that takes a write has armed EP0 to receive it.
LEMMA ReceiverArmed ==
  ASSUME NEW reply, SoundReply(reply), reply.response = "zeroLength",
         reply.dev.out.needsArming
  PROVE  LET o == CompleteSetupPacket(ArmReply(reply))
         IN  /\ o.hw.tx = reply.dev.hw.tx /\ o.usbCtrlState = "dataRX"
             /\ o.in.isMultiPart = reply.dev.in.isMultiPart
             /\ o.in.transferCount = 0
<1> DEFINE a == ArmReply(reply)
           o == CompleteSetupPacket(a)
<1>1. /\ Sound(a) /\ ~a.in.needsArming /\ a.out.needsArming
      /\ a.hw.tx = reply.dev.hw.tx /\ a.in.transferCount = 0
      /\ a.in.isMultiPart = reply.dev.in.isMultiPart
  <2>1. reply.dev.packet.length \in Nat
    BY Fields, Words DEF SoundReply, SetupPackets
  <2>2. Least(0, reply.dev.packet.length) = 0
    BY <2>1 DEF Least
  <2> QED BY <2>2, ArmReplySound, ArmReplyArms
<1> HIDE DEF a
<1>2. o = [a EXCEPT !.usbCtrlState = "dataRX"]
  BY <1>1 DEF CompleteSetupPacket
<1> QED BY <1>1, <1>2, EntersState DEF SameSender, a

=============================================================================
