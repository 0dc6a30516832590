----------------------------- MODULE Dfu_proofs -----------------------------
(***************************************************************************)
(* For every Flash layout, buffer and block size and whatever the host     *)
(* does: the driver writes only erased Flash, and touches only the zone it *)
(* was pointed at.                                                         *)
(***************************************************************************)
EXTENDS Dfu, TLAPS

\* Where tick() stands in the zone.  Before a zone is chosen there is nowhere
\* to stand; after that the write position never overtakes the erase position,
\* which stays a whole number of sectors short of the zone's end.
Position ==
  LET f == flashState
  IN  /\ host.zone = -1 => f = NoZone
      /\ host.zone # -1 =>
           /\ f.endAddr = Zones[host.zone].end
           /\ Zones[host.zone].start <= f.writeAddr
           /\ f.writeAddr <= f.eraseAddr
           /\ \E n \in Nat : f.endAddr - f.eraseAddr = n * flashEraseSize

\* The block in hand fits in the buffer and in the zone, and what is left of
\* it once tick() has begun to write fits in what has been erased.
BlockFits ==
  LET f == flashState
  IN  /\ f.byteCount <= flashPageSize
      /\ f.op = "erase" =>
           /\ f.offset = 0
           /\ f.writeAddr + f.byteCount <= f.endAddr
      /\ f.op = "write" =>
           /\ f.offset <= f.byteCount
           /\ f.writeAddr + (f.byteCount - f.offset) <= f.eraseAddr

\* What lies between the two positions is erased.
ErasedAhead ==
  \A a \in Addresses :
    flashState.writeAddr <= a /\ a < flashState.eraseAddr => memory[a] = Erased

\* An upload reads inside the zone.
ReadInZone == flashState.readAddr <= flashState.endAddr /\ flashState.endAddr <= FlashSize

IInv == TypeOK /\ Position /\ BlockFits /\ ErasedAhead /\ ReadInZone

-----------------------------------------------------------------------------

LEMMA LeastIsLeast ==
  ASSUME NEW a \in Nat, NEW b \in Nat
  PROVE  Least(a, b) \in Nat /\ Least(a, b) <= a /\ Least(a, b) <= b
BY DEF Least

\* Short of the zone's end by whole sectors means short by at least one.
LEMMA RoomForASector ==
  ASSUME NEW from \in Nat, NEW end \in Nat, from < end,
         NEW n \in Nat, end - from = n * flashEraseSize
  PROVE  /\ from + flashEraseSize <= end
         /\ \E m \in Nat : end - (from + flashEraseSize) = m * flashEraseSize
<1>1. flashEraseSize \in Nat /\ flashEraseSize >= 1
  BY FlashLayout DEF FlashLayout
<1>2. n # 0
  BY <1>1
<1>3. PICK m \in Nat : n = m + 1
  <2>1. n - 1 \in Nat /\ n = (n - 1) + 1
    BY <1>2
  <2> QED BY <2>1
<1>4. n * flashEraseSize = m * flashEraseSize + flashEraseSize
  BY <1>1, <1>3
<1>5. m * flashEraseSize \in Nat
  BY <1>1
<1>6. end - (from + flashEraseSize) = m * flashEraseSize
  BY <1>1, <1>4, <1>5
<1>7. from + flashEraseSize <= end
  BY <1>1, <1>5, <1>6
<1> QED BY <1>6, <1>7

\* What every action but SET_INTERFACE, DNLOAD, the ticks and a reboot leaves
\* alone is all that the invariant's last four parts speak of.
LEMMA Undisturbed ==
  ASSUME IInv, UNCHANGED <<flashState, memory>>, host'.zone = host.zone
  PROVE  Position' /\ BlockFits' /\ ErasedAhead' /\ ReadInZone'
BY DEF IInv, Position, BlockFits, ErasedAhead, ReadInZone

\* The parts of the invariant after a reboot or at the start.
LEMMA NowhereToStand ==
  ASSUME flashState' = NoZone, host'.zone = -1
  PROVE  Position' /\ BlockFits' /\ ErasedAhead' /\ ReadInZone'
<1> /\ flashPageSize \in Nat /\ FlashSize \in Nat /\ flashEraseSize \in Nat
    /\ \A a \in Addresses : ~(0 <= a /\ a < 0)
  BY FlashLayout DEF FlashLayout, Addresses
<1>1. Position'
  BY DEF Position
<1>2. BlockFits'
  BY DEF BlockFits, NoZone
<1>3. ErasedAhead'
  BY DEF ErasedAhead, NoZone
<1>4. ReadInZone'
  BY DEF ReadInZone, NoZone
<1> QED BY <1>1, <1>2, <1>3, <1>4

\* The states of EP0 and of the host the actions put there.
LEMMA FreshRecords ==
  /\ IdlePipe \in Pipes /\ NoZone \in FlashStates
  /\ \A m \in Manners : NewHost(m) \in Hosts
  /\ (Stall \/ Answer) => pipe' \in Pipes
<1>1. /\ IdlePipe \in Pipes /\ NoZone \in FlashStates
      /\ \A m \in Manners : NewHost(m) \in Hosts
  BY DEF IdlePipe, Pipes, NoZone, FlashStates, NewHost, Hosts
<1>2. [IdlePipe EXCEPT !.phase = "status"] \in Pipes
  BY <1>1 DEF Pipes
<1> QED BY <1>1, <1>2 DEF Stall, Answer

LEMMA InitInvariant == Init => IInv
<1> SUFFICES ASSUME Init PROVE IInv
  OBVIOUS
<1>1. TypeOK
  BY FreshRecords DEF Init, TypeOK, Cells, States
<1>2. /\ flashPageSize \in Nat /\ FlashSize \in Nat /\ flashEraseSize \in Nat
      /\ \A a \in Addresses : ~(0 <= a /\ a < 0)
  BY FlashLayout DEF FlashLayout, Addresses
<1>3. Position
  BY DEF Init, NewHost, Position
<1>4. BlockFits /\ ErasedAhead /\ ReadInZone
  BY <1>2 DEF Init, NoZone, BlockFits, ErasedAhead, ReadInZone
<1> QED BY <1>1, <1>3, <1>4 DEF IInv

-----------------------------------------------------------------------------
(* One lemma per action that moves the positions.                          *)

LEMMA SetInterfaceStep ==
  ASSUME IInv, NEW z \in ZoneNumbers \cup {-1}, SetInterface(z)
  PROVE  IInv'
<1> USE DEF IInv
<1>1. CASE z \notin ZoneNumbers
  <2>1. TypeOK'
    BY <1>1, FreshRecords DEF SetInterface, TypeOK
  <2> QED BY <1>1, <2>1, Undisturbed DEF SetInterface
<1>2. CASE z \in ZoneNumbers
  <2>1. /\ Zones[z].start \in Nat /\ Zones[z].end \in Nat
        /\ Zones[z].start <= Zones[z].end /\ Zones[z].end <= FlashSize
        /\ z # -1
    BY <1>2, FlashLayout DEF FlashLayout
  <2>2. flashState' = SelectZone(z) /\ host'.zone = z
    BY <1>2 DEF SetInterface, NewHost
  <2>3. flashState' \in FlashStates
    BY <2>1, <2>2 DEF TypeOK, FlashStates, SelectZone
  <2>4. TypeOK'
    <3>1. host' \in Hosts
      BY <1>2, FreshRecords DEF SetInterface, TypeOK, Hosts
    <3>2. config' \in States /\ sofHandler' \in BOOLEAN /\ pipe' \in Pipes
      BY <1>2, FreshRecords DEF SetInterface, States
    <3> QED BY <2>3, <3>1, <3>2 DEF SetInterface, TypeOK
  <2>5. Position'
    <3>1. PICK n \in 0..FlashSize :
            Zones[z].end - Zones[z].start = n * flashEraseSize
      BY <1>2, FlashLayout DEF FlashLayout
    <3>2. n \in Nat
      BY FlashLayout DEF FlashLayout
    <3> QED BY <2>1, <2>2, <3>1, <3>2 DEF Position, SelectZone
  <2>6. BlockFits' /\ ErasedAhead' /\ ReadInZone'
    BY <2>1, <2>2, <2>4
       DEF SelectZone, BlockFits, ErasedAhead, ReadInZone, Addresses, TypeOK
  <2> QED BY <2>4, <2>5, <2>6
<1> QED BY <1>1, <1>2

LEMMA DownloadStep ==
  ASSUME IInv, NEW length \in 1..MaxLength, Download(length)
  PROVE  IInv'
<1> USE DEF IInv
<1>0. length \in Nat
  BY FlashLayout DEF FlashLayout
<1>1. CASE DownloadRefused(length)
  <2>1. TypeOK'
    BY <1>1, FreshRecords DEF Download, TypeOK
  <2> QED BY <1>1, <2>1, Undisturbed DEF Download
<1>2. CASE ~DownloadRefused(length)
  <2>1. flashState' = [flashState EXCEPT !.op = "erase", !.offset = 0,
                                         !.byteCount = length]
    BY <1>2 DEF Download
  <2>2. TypeOK'
    <3>1. flashState' \in FlashStates
      BY <1>0, <2>1 DEF TypeOK, FlashStates
    <3>2. pipe' \in Pipes
      BY <1>0, <1>2 DEF Download, Pipes
    <3>3. host' \in Hosts
      BY <1>2 DEF Download, TypeOK, Hosts
    <3>4. config' \in States /\ setupCallback' = "stepDone"
      BY <1>2 DEF Download, States
    <3> QED BY <3>1, <3>2, <3>3, <3>4 DEF Download, TypeOK
  <2>3. Position'
    <3>1. host'.zone = host.zone
      BY <1>2 DEF Download, TypeOK, Hosts
    <3>2. host.zone # -1
      BY <1>0, <1>2 DEF Position, NoZone, DownloadRefused
    <3> QED BY <2>1, <3>1, <3>2 DEF Position, TypeOK, FlashStates
  <2>4. BlockFits'
    <3>1. /\ length <= flashPageSize
          /\ flashState.eraseAddr + length <= flashState.endAddr
      BY <1>0, <1>2, FlashLayout
         DEF DownloadRefused, FlashLayout, TypeOK, FlashStates
    <3>2. flashState.writeAddr <= flashState.eraseAddr
      BY DEF Position, NoZone
    <3> QED BY <1>0, <2>1, <3>1, <3>2 DEF BlockFits, TypeOK, FlashStates
  <2>5. ErasedAhead' /\ ReadInZone'
    BY <1>2, <2>1
       DEF Download, ErasedAhead, ReadInZone, TypeOK, FlashStates
  <2> QED BY <2>2, <2>3, <2>4, <2>5
<1> QED BY <1>1, <1>2

LEMMA UploadStep ==
  ASSUME IInv, NEW length \in 1..MaxLength, Upload(length)
  PROVE  IInv'
<1> USE DEF IInv
<1> DEFINE from == flashState.readAddr
<1>0. length \in Nat /\ from \in Nat /\ flashState.endAddr \in Nat
      /\ flashPageSize \in Nat /\ FlashSize \in Nat
  BY FlashLayout DEF FlashLayout, TypeOK, FlashStates
<1>1. CASE length > flashPageSize \/ from + length > flashState.endAddr
  <2>1. TypeOK'
    BY <1>1, FreshRecords DEF Upload, TypeOK
  <2> QED BY <1>1, <2>1, Undisturbed DEF Upload
<1>2. CASE ~(length > flashPageSize \/ from + length > flashState.endAddr)
  <2>1. flashState' = [flashState EXCEPT !.readAddr = @ + length]
    BY <1>2 DEF Upload
  <2>2. buffer' \in [0..flashPageSize - 1 -> Cells]
    <3>1. \A i \in 0..flashPageSize - 1 :
            i < length => memory[from + i] \in Cells
      BY <1>0, <1>2 DEF ReadInZone, TypeOK, Addresses
    <3> QED BY <1>2, <3>1 DEF Upload, TypeOK
  <2>3. TypeOK'
    <3>1. flashState' \in FlashStates
      BY <1>0, <2>1, SMTT(40) DEF TypeOK, FlashStates
    <3>2. pipe' \in Pipes
      BY <1>0, <1>2, FreshRecords DEF Upload
    <3> QED BY <2>2, <3>1, <3>2 DEF Upload, TypeOK
  <2>4. Position'
    <3>1. host.zone # -1
      BY <1>0, <1>2 DEF Position, NoZone
    <3>2. host' = host
      BY DEF Upload
    <3> QED BY <2>1, <3>1, <3>2 DEF Position, TypeOK, FlashStates
  <2>5. BlockFits' /\ ErasedAhead' /\ ReadInZone'
    BY <1>0, <1>2, <2>1
       DEF Upload, BlockFits, ErasedAhead, ReadInZone, TypeOK, FlashStates
  <2> QED BY <2>3, <2>4, <2>5
<1> QED BY <1>1, <1>2

-----------------------------------------------------------------------------
(* tick().                                                                 *)

\* tick() has something to do only for a zone that was chosen, and what it has
\* to do lies in it.
LEMMA TickInZone ==
  ASSUME IInv, flashState.op # "none"
  PROVE  /\ host.zone \in ZoneNumbers
         /\ Zones[host.zone].start \in Nat
         /\ Zones[host.zone].start <= flashState.writeAddr
         /\ flashState.writeAddr <= flashState.eraseAddr
         /\ flashState.endAddr = Zones[host.zone].end
         /\ flashState.endAddr <= FlashSize
         /\ flashState.eraseAddr <= flashState.endAddr
<1> USE DEF IInv
<1>1. host.zone # -1
  BY DEF Position, NoZone
<1>2. host.zone \in ZoneNumbers
  BY <1>1 DEF TypeOK, Hosts
<1>3. Zones[host.zone].start \in Nat
  BY <1>2, FlashLayout DEF FlashLayout
<1>4. flashState.eraseAddr <= flashState.endAddr
  <2>1. PICK n \in Nat :
          flashState.endAddr - flashState.eraseAddr = n * flashEraseSize
    BY <1>1 DEF Position
  <2>2. n * flashEraseSize \in Nat
    BY FlashLayout DEF FlashLayout
  <2> QED BY <2>1, <2>2 DEF TypeOK, FlashStates
<1> QED BY <1>1, <1>2, <1>3, <1>4 DEF Position, ReadInZone

\* An erase stays inside the zone.
LEMMA EraseInZone ==
  ASSUME IInv, TickErase
  PROVE  /\ flashState.eraseAddr + flashEraseSize <= flashState.endAddr
         /\ \E m \in Nat : flashState.endAddr
              - (flashState.eraseAddr + flashEraseSize) = m * flashEraseSize
<1> USE DEF IInv
<1>1. flashState.op = "erase"
  BY DEF TickErase
<1>2. /\ flashState.eraseAddr \in Nat /\ flashState.endAddr \in Nat
      /\ flashState.writeAddr \in Nat /\ flashState.byteCount \in Nat
  BY DEF TypeOK, FlashStates
<1>3. flashState.eraseAddr < flashState.endAddr
  BY <1>1, <1>2 DEF TickErase, Pending, BlockFits
<1>4. PICK n \in Nat :
        flashState.endAddr - flashState.eraseAddr = n * flashEraseSize
  BY <1>1, TickInZone DEF Position, NoZone
<1> QED BY <1>2, <1>3, <1>4, RoomForASector

LEMMA TickEraseStep ==
  ASSUME IInv, TickErase
  PROVE  IInv'
<1> USE DEF IInv
<1>1. flashState' = [flashState EXCEPT !.eraseAddr = @ + flashEraseSize]
  BY DEF TickErase
<1>2. flashEraseSize \in Nat /\ flashState.eraseAddr \in Nat
  BY FlashLayout DEF FlashLayout, TypeOK, FlashStates
<1>3. TypeOK'
  <2>1. flashState' \in FlashStates
    BY <1>1, <1>2 DEF TypeOK, FlashStates
  <2>2. memory' \in [Addresses -> Cells]
    BY DEF TickErase, TypeOK, Cells
  <2> QED BY <2>1, <2>2 DEF TickErase, TypeOK
<1>4. Position'
  <2>1. host.zone # -1 /\ host' = host
    BY DEF TickErase, Position, NoZone
  <2>2. flashState'.eraseAddr = flashState.eraseAddr + flashEraseSize
        /\ flashState'.endAddr = flashState.endAddr
        /\ flashState'.writeAddr = flashState.writeAddr
    BY <1>1 DEF TypeOK, FlashStates
  <2>3. \E m \in Nat :
          flashState'.endAddr - flashState'.eraseAddr = m * flashEraseSize
    BY <2>2, EraseInZone
  <2>4. /\ flashState.endAddr = Zones[host.zone].end
        /\ Zones[host.zone].start <= flashState.writeAddr
        /\ flashState.writeAddr <= flashState.eraseAddr + flashEraseSize
    BY <1>2, <2>1 DEF Position, TypeOK, FlashStates
  <2> QED BY <2>1, <2>2, <2>3, <2>4 DEF Position
<1>5. BlockFits' /\ ReadInZone'
  BY <1>1, <1>2 DEF TickErase, BlockFits, ReadInZone, TypeOK, FlashStates
<1>6. ErasedAhead'
  <2>1. /\ flashState'.eraseAddr = flashState.eraseAddr + flashEraseSize
        /\ flashState'.writeAddr = flashState.writeAddr
        /\ flashState.writeAddr \in Nat
    BY <1>1 DEF TypeOK, FlashStates
  <2> SUFFICES ASSUME NEW a \in Addresses, flashState.writeAddr <= a,
                      a < flashState.eraseAddr + flashEraseSize
               PROVE  memory'[a] = Erased
    BY <2>1 DEF ErasedAhead
  <2>2. a \in Int
    BY FlashLayout DEF FlashLayout, Addresses
  <2>3. CASE a < flashState.eraseAddr
    BY <2>3 DEF TickErase, ErasedAhead
  <2>4. CASE ~(a < flashState.eraseAddr)
    <3>1. a \in flashState.eraseAddr
                  ..flashState.eraseAddr + flashEraseSize - 1
      BY <1>2, <2>2, <2>4
    <3> QED BY <3>1 DEF TickErase
  <2> QED BY <2>3, <2>4
<1> QED BY <1>3, <1>4, <1>5, <1>6

LEMMA TickWaitStep ==
  ASSUME IInv, TickWait
  PROVE  IInv'
<1> USE DEF IInv
<1>1. flashState' = [flashState EXCEPT !.op = "write"]
  BY DEF TickWait
<1>2. TypeOK'
  BY <1>1 DEF TickWait, TypeOK, FlashStates
<1>3. BlockFits'
  BY <1>1 DEF TickWait, WritingNow, Pending, BlockFits, TypeOK, FlashStates
<1>4. Position'
  <2>1. host.zone # -1 /\ host' = host
    BY DEF TickWait, WritingNow, Position, NoZone
  <2> QED BY <1>1, <2>1 DEF Position, TypeOK, FlashStates
<1>5. ErasedAhead' /\ ReadInZone'
  BY <1>1 DEF TickWait, ErasedAhead, ReadInZone, TypeOK, FlashStates
<1> QED BY <1>2, <1>3, <1>4, <1>5

\* What the next piece of a block takes from the buffer and where it goes.
Amount == Least(flashState.byteCount - flashState.offset, flashBufferSize)

LEMMA PieceFits ==
  ASSUME IInv, TickWrite
  PROVE  /\ Amount \in Nat
         /\ flashState.offset + Amount <= flashState.byteCount
         /\ flashState.byteCount <= flashPageSize
         /\ flashState.writeAddr + (flashState.byteCount - flashState.offset)
              <= flashState.eraseAddr
<1> USE DEF IInv
<1>1. /\ flashState.byteCount \in Nat /\ flashState.offset \in Nat
      /\ flashState.writeAddr \in Nat /\ flashState.eraseAddr \in Nat
      /\ flashBufferSize \in Nat /\ flashPageSize \in Nat
  BY FlashLayout DEF FlashLayout, TypeOK, FlashStates
<1>2. /\ flashState.offset <= flashState.byteCount
      /\ flashState.writeAddr + (flashState.byteCount - flashState.offset)
           <= flashState.eraseAddr
  <2>1. CASE flashState.op = "write"
    BY <2>1 DEF BlockFits
  <2>2. CASE flashState.op = "erase"
    BY <1>1, <2>2 DEF BlockFits, TickWrite, WritingNow, Pending
  <2> QED BY <2>1, <2>2 DEF TickWrite, WritingNow
<1>3. flashState.byteCount - flashState.offset \in Nat
  BY <1>1, <1>2
<1>4. /\ Amount \in Nat
      /\ Amount <= flashState.byteCount - flashState.offset
  BY <1>1, <1>3, LeastIsLeast DEF Amount
<1>5. flashState.offset + Amount <= flashState.byteCount
  BY <1>1, <1>4
<1> QED BY <1>2, <1>4, <1>5 DEF BlockFits

\* The units a write touches lie between the two positions.
LEMMA WriteBetween ==
  ASSUME IInv, TickWrite, NEW a \in Addresses, memory'[a] # memory[a]
  PROVE  /\ a \in flashState.writeAddr..flashState.writeAddr + Amount - 1
         /\ flashState.writeAddr <= a /\ a < flashState.eraseAddr
<1> USE DEF IInv
<1>1. a \in flashState.writeAddr..flashState.writeAddr + Amount - 1
  BY DEF TickWrite, TypeOK, Amount
<1>2. /\ flashState.byteCount \in Nat /\ flashState.offset \in Nat
      /\ flashState.writeAddr \in Nat /\ flashState.eraseAddr \in Nat
  BY DEF TypeOK, FlashStates
<1> QED BY <1>1, <1>2, PieceFits

LEMMA TickWriteStep ==
  ASSUME IInv, TickWrite
  PROVE  IInv'
<1> USE DEF IInv
<1>1. flashState' = [flashState EXCEPT !.op = "write", !.offset = @ + Amount,
                                       !.writeAddr = @ + Amount]
  BY DEF TickWrite, Amount
<1>2. /\ flashState.byteCount \in Nat /\ flashState.offset \in Nat
      /\ flashState.writeAddr \in Nat /\ flashState.eraseAddr \in Nat
      /\ flashState.endAddr \in Nat /\ flashState.readAddr \in Nat
      /\ flashPageSize \in Nat
  BY FlashLayout DEF FlashLayout, TypeOK, FlashStates
<1>3. /\ flashState'.op = "write"
      /\ flashState'.offset = flashState.offset + Amount
      /\ flashState'.writeAddr = flashState.writeAddr + Amount
      /\ flashState'.byteCount = flashState.byteCount
      /\ flashState'.eraseAddr = flashState.eraseAddr
      /\ flashState'.endAddr = flashState.endAddr
      /\ flashState'.readAddr = flashState.readAddr
  BY <1>1 DEF TypeOK, FlashStates
<1>4. TypeOK'
  <2>1. flashState' \in FlashStates
    <3>1. /\ flashState.offset + Amount \in Nat
          /\ flashState.writeAddr + Amount \in Nat
      BY <1>2, PieceFits
    <3> QED BY <1>1, <3>1 DEF TypeOK, FlashStates
  <2>2. memory' \in [Addresses -> Cells]
    <3>1. \A a \in flashState.writeAddr..flashState.writeAddr + Amount - 1 :
            buffer[flashState.offset + (a - flashState.writeAddr)] \in Cells
      <4> SUFFICES ASSUME NEW a \in flashState.writeAddr
                                      ..flashState.writeAddr + Amount - 1
                   PROVE  flashState.offset + (a - flashState.writeAddr)
                            \in 0..flashPageSize - 1
        BY DEF TypeOK
      <4> QED BY <1>2, PieceFits
    <3> QED BY <3>1 DEF TickWrite, Amount, TypeOK
  <2> QED BY <2>1, <2>2 DEF TickWrite, TypeOK
<1>5. Position'
  <2>1. host.zone # -1 /\ host' = host
    BY DEF TickWrite, WritingNow, Position, NoZone
  <2>2. /\ Zones[host.zone].start \in Nat
        /\ Zones[host.zone].start <= flashState.writeAddr
    BY TickInZone DEF TickWrite, WritingNow
  <2>3. /\ Zones[host.zone].start <= flashState'.writeAddr
        /\ flashState'.writeAddr <= flashState'.eraseAddr
    BY <1>2, <1>3, <2>2, PieceFits
  <2> QED BY <1>3, <2>1, <2>3 DEF Position
<1>6. BlockFits'
  BY <1>2, <1>3, PieceFits DEF BlockFits
<1>7. ErasedAhead'
  <2> SUFFICES ASSUME NEW a \in Addresses,
                      flashState.writeAddr + Amount <= a,
                      a < flashState.eraseAddr
               PROVE  memory'[a] = Erased
    BY <1>3 DEF ErasedAhead
  <2>1. a \in Int
    BY FlashLayout DEF FlashLayout, Addresses
  <2>2. memory[a] = Erased
    BY <1>2, <2>1, PieceFits DEF ErasedAhead
  <2>3. memory'[a] = memory[a]
    BY <1>2, <2>1, WriteBetween, PieceFits
  <2> QED BY <2>2, <2>3
<1>8. ReadInZone'
  BY <1>3 DEF ReadInZone
<1> QED BY <1>4, <1>5, <1>6, <1>7, <1>8

LEMMA TickDoneStep ==
  ASSUME IInv, TickDone
  PROVE  IInv'
<1> USE DEF IInv
<1>1. flashState' = [flashState EXCEPT !.op = "none", !.offset = 0,
                                       !.byteCount = 0]
  BY DEF TickDone
<1>2. TypeOK'
  <2>1. flashState' \in FlashStates
    BY <1>1 DEF TypeOK, FlashStates
  <2> QED BY <2>1 DEF TickDone, TypeOK, States
<1>3. Position'
  <2>1. host.zone # -1 /\ host' = host
    BY DEF TickDone, WritingNow, Position, NoZone
  <2> QED BY <1>1, <2>1 DEF Position, TypeOK, FlashStates
<1>4. BlockFits'
  BY <1>1, FlashLayout DEF FlashLayout, BlockFits, TypeOK, FlashStates
<1>5. ErasedAhead' /\ ReadInZone'
  BY <1>1 DEF TickDone, ErasedAhead, ReadInZone, TypeOK, FlashStates
<1> QED BY <1>2, <1>3, <1>4, <1>5

-----------------------------------------------------------------------------
(* The actions that move no position.                                      *)

LEMMA DataPacketStep ==
  ASSUME IInv, DataPacket
  PROVE  IInv'
<1> USE DEF IInv
<1> DEFINE count == Least(pipe.left, epBufferSize)
<1>1. /\ pipe.left \in Nat /\ pipe.done \in Nat /\ host.sent \in Nat
      /\ epBufferSize \in Nat
  BY FlashLayout DEF FlashLayout, TypeOK, Pipes, Hosts
<1>2. count \in Nat /\ count <= pipe.left
  BY <1>1, LeastIsLeast
<1> HIDE DEF count
<1>3. buffer' \in [0..flashPageSize - 1 -> Cells]
  <2>1. buffer' = Received(count)
    BY DEF DataPacket, count
  <2>2. \A i \in 0..flashPageSize - 1 :
          i \in pipe.done..pipe.done + count - 1 => host.sent + i \in Nat
    BY <1>1, <1>2
  <2> QED BY <2>1, <2>2 DEF Received, TypeOK, Cells
<1>4. pipe' \in Pipes /\ config' \in States
      /\ setupCallback' \in {"none", "stepDone", "detach"}
      /\ host' \in Hosts /\ host'.zone = host.zone
  <2>1. CASE count < pipe.left
    <3>1. /\ pipe' = [pipe EXCEPT !.done = @ + count, !.left = @ - count]
          /\ UNCHANGED <<config, setupCallback, host>>
      BY <2>1 DEF DataPacket, count
    <3>2. pipe.done + count \in Nat /\ pipe.left - count \in Nat
      BY <1>1, <1>2, <2>1
    <3> QED BY <3>1, <3>2 DEF TypeOK, Pipes
  <2>2. CASE ~(count < pipe.left)
    <3>1. /\ Answer /\ RunCallback
          /\ host' = [host EXCEPT !.sent = @ + pipe.done + count]
      BY <2>2 DEF DataPacket, count
    <3>2. host' \in Hosts /\ host'.zone = host.zone
      BY <1>1, <1>2, <3>1, SMTT(40) DEF TypeOK, Hosts
    <3> QED BY <3>1, <3>2, FreshRecords DEF RunCallback, TypeOK, States
  <2> QED BY <2>1, <2>2
<1>5. TypeOK'
  BY <1>3, <1>4 DEF DataPacket, TypeOK
<1> QED BY <1>4, <1>5, Undisturbed DEF DataPacket

\* Requests that only change what the driver and the host say of themselves.
LEMMA SimpleRequestStep ==
  ASSUME IInv, DownloadEnd \/ GetStatus \/ OtherRequest \/ AbortDownload
                 \/ DetachRequest \/ RefusedRequest
  PROVE  IInv'
<1> USE DEF IInv
<1>1. host' \in Hosts /\ host'.zone = host.zone
  <2>1. CASE DownloadEnd
    BY <2>1 DEF DownloadEnd, TypeOK, Hosts
  <2>2. CASE GetStatus
    BY <2>2 DEF GetStatus, TypeOK, Hosts
  <2> QED BY <2>1, <2>2 DEF OtherRequest, AbortDownload, DetachRequest,
             RefusedRequest, TypeOK
<1>2. config' \in States
  BY DEF DownloadEnd, GetStatus, StatusStep, OtherRequest, AbortDownload,
     DetachRequest, RefusedRequest, TypeOK, States
<1>3. /\ setupCallback' \in {"none", "stepDone", "detach"}
      /\ pipe' \in Pipes
      /\ UNCHANGED <<flashState, buffer, sofHandler, memory, busy>>
  BY FreshRecords DEF DownloadEnd, GetStatus, OtherRequest, AbortDownload,
     DetachRequest, RefusedRequest, TypeOK
<1>4. TypeOK'
  BY <1>1, <1>2, <1>3 DEF TypeOK
<1> QED BY <1>1, <1>3, <1>4, Undisturbed

LEMMA RebootStep ==
  ASSUME IInv, DetachDone
  PROVE  IInv'
<1> USE DEF IInv
<1>1. TypeOK'
  BY FreshRecords DEF DetachDone, Reboot, TypeOK, States, Cells, Hosts
<1>2. flashState' = NoZone /\ host'.zone = -1
  BY DEF DetachDone, Reboot, NewHost
<1> QED BY <1>1, <1>2, NowhereToStand

\* The other steps: the end of a status stage, a bus reset, the end of a Flash
\* operation and the application's call of detached().
LEMMA OtherStep ==
  ASSUME IInv,
         StatusDone \/ BusReset \/ FlashDone
           \/ \E state \in BOOLEAN : Detached(state)
  PROVE  IInv'
<1> USE DEF IInv
<1>1. host' \in Hosts /\ host'.zone = host.zone
  BY DEF StatusDone, BusReset, FlashDone, Detached, TypeOK, Hosts
<1>2. /\ config' \in States /\ setupCallback' \in {"none", "stepDone", "detach"}
      /\ pipe' \in Pipes /\ busy' \in BOOLEAN
      /\ UNCHANGED <<flashState, buffer, sofHandler, memory>>
  BY FreshRecords DEF StatusDone, RunCallback, BusReset, FlashDone, Detached,
     TypeOK, States
<1>3. TypeOK'
  BY <1>1, <1>2 DEF TypeOK
<1> QED BY <1>1, <1>2, <1>3, Undisturbed

LEMMA Stuttering ==
  ASSUME IInv, UNCHANGED vars
  PROVE  IInv'
BY DEF IInv, vars, TypeOK, Position, BlockFits, ErasedAhead, ReadInZone

-----------------------------------------------------------------------------

LEMMA NextInvariant ==
  ASSUME IInv, [Next]_vars
  PROVE  IInv'
<1>1. CASE Request
  BY <1>1, SetInterfaceStep, DownloadStep, UploadStep, SimpleRequestStep
     DEF Request
<1>2. CASE DataPacket
  BY <1>2, DataPacketStep
<1>3. CASE DetachDone
  BY <1>3, RebootStep
<1>4. CASE Tick
  BY <1>4, TickEraseStep, TickWaitStep, TickWriteStep, TickDoneStep DEF Tick
<1>5. CASE StatusDone \/ BusReset \/ FlashDone
             \/ \E state \in BOOLEAN : Detached(state)
  BY <1>5, OtherStep
<1>6. CASE UNCHANGED vars
  BY <1>6, Stuttering
<1> QED BY <1>1, <1>2, <1>3, <1>4, <1>5, <1>6 DEF Next

\* The positions tick() works with are where they should be in every state.
THEOREM Invariance == Spec => []IInv
<1>1. Init => IInv
  BY InitInvariant
<1>2. IInv /\ [Next]_vars => IInv'
  BY NextInvariant
<1> QED BY <1>1, <1>2, PTL DEF Spec

\* The driver's state has its type: the buffer, the state machine and the
\* counters of src/drivers/dfu.cxx are never driven outside their ranges.
THEOREM TypeCorrect == Spec => []TypeOK
<1>1. IInv => TypeOK
  BY DEF IInv
<1> QED BY <1>1, Invariance, PTL

-----------------------------------------------------------------------------
(* The two promises about Flash.                                           *)

\* The actions that leave the Flash alone.
LEMMA FlashUntouched ==
  ASSUME [Next]_vars, ~TickErase, ~TickWrite
  PROVE  memory' = memory
BY DEF Next, vars, Request, SetInterface, Download, Upload, DownloadEnd,
       GetStatus, OtherRequest, AbortDownload, DetachRequest, RefusedRequest,
       DataPacket, StatusDone, DetachDone, Reboot, BusReset, Tick, TickWait,
       TickDone, FlashDone, Detached

LEMMA ErasedStep ==
  ASSUME IInv, [Next]_vars, NEW a \in Addresses,
         memory'[a] # memory[a], memory'[a] # Erased
  PROVE  memory[a] = Erased
<1>1. CASE TickErase
  BY <1>1 DEF TickErase, IInv, TypeOK
<1>2. CASE TickWrite
  BY <1>2, WriteBetween DEF IInv, ErasedAhead
<1> QED BY <1>1, <1>2, FlashUntouched

\* A unit of Flash is only written when it is erased and not written since,
\* whatever the host sends (src/drivers/dfu.cxx:159).
THEOREM WritesErasedFlash == Spec => ErasedBeforeWritten
<1>1. IInv /\ [Next]_vars =>
        [\A a \in Addresses :
           memory'[a] # memory[a] /\ memory'[a] # Erased => memory[a] = Erased]_vars
  BY ErasedStep
<1> QED BY <1>1, Invariance, PTL DEF Spec, ErasedBeforeWritten

LEMMA ZoneStep ==
  ASSUME IInv, [Next]_vars, NEW a \in Addresses, memory'[a] # memory[a]
  PROVE  /\ host.zone # -1
         /\ Zones[host.zone].start <= a /\ a < Zones[host.zone].end
<1>1. a \in Int
  BY FlashLayout DEF FlashLayout, Addresses
<1>2. /\ flashState.writeAddr \in Nat /\ flashState.eraseAddr \in Nat
      /\ flashState.endAddr \in Nat /\ flashEraseSize \in Nat
  BY FlashLayout DEF FlashLayout, IInv, TypeOK, FlashStates
<1>3. CASE TickErase
  <2>1. a \in flashState.eraseAddr..flashState.eraseAddr + flashEraseSize - 1
    BY <1>3 DEF TickErase, IInv, TypeOK
  <2>2. flashState.op # "none"
    BY <1>3 DEF TickErase
  <2>3. host.zone # -1
    BY <2>2, FlashLayout DEF IInv, Position, NoZone
  <2> QED BY <1>1, <1>2, <1>3, <2>1, <2>2, <2>3, EraseInZone, TickInZone
<1>4. CASE TickWrite
  <2>1. flashState.op # "none"
    BY <1>4 DEF TickWrite, WritingNow
  <2>2. host.zone # -1
    BY <2>1, FlashLayout DEF IInv, Position, NoZone
  <2> QED BY <1>1, <1>2, <1>4, <2>1, <2>2, WriteBetween, TickInZone
<1> QED BY <1>3, <1>4, FlashUntouched

\* Whatever the host sends, the driver erases and writes inside the zone it was
\* last pointed at and nowhere else (src/drivers/dfu.cxx:73).
THEOREM StaysInZone == Spec => OnlyChosenZone
<1>1. IInv /\ [Next]_vars =>
        [\A a \in Addresses :
           memory'[a] # memory[a] =>
             /\ host.zone # -1
             /\ Zones[host.zone].start <= a /\ a < Zones[host.zone].end]_vars
  BY ZoneStep
<1> QED BY <1>1, Invariance, PTL DEF Spec, OnlyChosenZone

-----------------------------------------------------------------------------
(* The image, with a host that follows the protocol.                       *)

\* The first units of the buffer are the image's from a place on.
Holds(count, from) == \A i \in 0..count - 1 : buffer[i] = from + i

\* Receiving a block and writing one exclude each other, and each leaves tick()
\* its operation; in the rest of the time there is none.
InTurn ==
  LET f == flashState
  IN  /\ setupCallback = "stepDone" <=> pipe.phase = "data"
      /\ pipe.phase = "data" =>
           /\ host.zone # -1 /\ config = "downloadIdle" /\ ~host.ready
           /\ f.op # "none" /\ f.offset = 0 /\ f.byteCount = pipe.done + pipe.left
           /\ Holds(pipe.done, host.sent)
      /\ config = "downloadBusy" =>
           /\ host.zone # -1 /\ ~host.ready
           /\ f.op # "none" /\ f.offset <= f.byteCount /\ f.byteCount <= host.sent
           /\ Holds(f.byteCount, host.sent - f.byteCount)
      /\ pipe.phase # "data" /\ config # "downloadBusy" => f.op = "none"

\* The units of the image that are in the Flash: all of those sent, but for
\* what is left of the block in the buffer.
InFlash ==
  IF config = "downloadBusy"
  THEN host.sent - (flashState.byteCount - flashState.offset) ELSE host.sent

\* The image's part in the Flash ends where the next unit is written.
InPlace ==
  host.zone # -1 =>
    /\ sofHandler
    /\ flashState.writeAddr = Zones[host.zone].start + InFlash
    /\ host.acked <= InFlash
    /\ \A i \in 0..InFlash - 1 : memory[Zones[host.zone].start + i] = i

Loading == IInv /\ InTurn /\ InPlace

LEMMA InitLoading == Init => Loading
<1> SUFFICES ASSUME Init PROVE Loading
  OBVIOUS
<1>1. IInv
  BY InitInvariant
<1>2. InTurn
  BY DEF Init, InTurn, IdlePipe, NoZone
<1>3. InPlace
  BY DEF Init, InPlace, NewHost
<1> QED BY <1>1, <1>2, <1>3 DEF Loading

\* What the proofs below need of the types, as plain facts.
LEMMA LoadingTyped ==
  ASSUME IInv
  PROVE  /\ flashState.writeAddr \in Nat /\ flashState.byteCount \in Nat
         /\ flashState.offset \in Nat /\ flashState.eraseAddr \in Nat
         /\ flashState.endAddr \in Nat
         /\ pipe.done \in Nat /\ pipe.left \in Nat
         /\ host.sent \in Nat /\ host.acked \in Nat
         /\ host.zone # -1 => host.zone \in ZoneNumbers
                              /\ Zones[host.zone].start \in Nat
BY FlashLayout DEF IInv, TypeOK, FlashStates, Pipes, Hosts, FlashLayout

\* A step that leaves the Flash, the positions, the block in hand and the image
\* alone keeps the image in place.
LEMMA StillInPlace ==
  ASSUME InPlace, UNCHANGED <<memory, flashState, sofHandler>>,
         host'.zone = host.zone, host'.sent = host.sent,
         host'.acked \in {host.acked, InFlash},
         IInv, config' = "downloadBusy" <=> config = "downloadBusy"
  PROVE  InPlace'
<1>1. InFlash' = InFlash
  BY DEF InFlash
<1>2. InFlash <= InFlash
  BY LoadingTyped DEF InFlash
<1> QED BY <1>1, <1>2 DEF InPlace

LEMMA SetInterfaceLoads ==
  ASSUME Loading, Polite, ~Abandons, NEW z \in ZoneNumbers \cup {-1}, SetInterface(z)
  PROVE  InTurn' /\ InPlace'
<1>1. z \in ZoneNumbers /\ z # -1 /\ pipe.phase = "idle"
  BY FlashLayout DEF SetInterface, Setup, FlashLayout
<1>2. /\ pipe' = [IdlePipe EXCEPT !.phase = "status"] /\ sofHandler' = TRUE
      /\ config' = "dfuIdle" /\ flashState' = SelectZone(z)
      /\ host' = [NewHost(host.manners) EXCEPT !.zone = z, !.ready = TRUE]
      /\ setupCallback' = setupCallback
  BY <1>1 DEF SetInterface, Answer
<1>3. /\ pipe'.phase = "status" /\ host'.zone = z /\ host'.sent = 0 /\ host'.acked = 0
      /\ flashState'.op = "none" /\ flashState'.writeAddr = Zones[z].start
  BY <1>2 DEF IdlePipe, NewHost, SelectZone
<1>4. InTurn'
  BY <1>1, <1>2, <1>3 DEF Loading, InTurn
<1>5. InPlace'
  <2>1. Zones[z].start \in Nat
    BY <1>1, FlashLayout DEF FlashLayout
  <2>2. InFlash' = 0
    BY <1>2, <1>3 DEF InFlash
  <2>3. Zones[z].start = Zones[z].start + 0 /\ \A i \in 0..0 - 1 : FALSE
    BY <2>1
  <2> QED BY <1>2, <1>3, <2>2, <2>3 DEF InPlace
<1> QED BY <1>4, <1>5

LEMMA DownloadLoads ==
  ASSUME Loading, Polite, ~Abandons, NEW length \in 1..MaxLength, Download(length)
  PROVE  InTurn' /\ InPlace'
<1>1. /\ pipe.phase = "idle" /\ host.ready /\ length \in Nat /\ length # 0
      /\ UNCHANGED <<buffer, sofHandler, memory, busy>>
  BY FlashLayout DEF Download, Setup, FlashLayout
<1>2. IInv /\ InTurn /\ InPlace
  BY DEF Loading
<1>3. config # "downloadBusy" /\ flashState.op = "none"
  BY <1>1, <1>2 DEF InTurn
<1>4. CASE DownloadRefused(length)
  <2>1. /\ pipe' = IdlePipe /\ UNCHANGED <<config, flashState, setupCallback, host>>
    BY <1>4 DEF Download, Stall
  <2>2. pipe'.phase = "idle"
    BY <2>1 DEF IdlePipe
  <2>3. InTurn'
    BY <1>1, <1>2, <1>3, <2>1, <2>2 DEF InTurn, Holds
  <2>4. InPlace'
    BY <1>1, <1>2, <2>1, StillInPlace
  <2> QED BY <2>3, <2>4
<1>5. CASE ~DownloadRefused(length)
  <2>1. /\ flashState' = [flashState EXCEPT !.op = "erase", !.offset = 0,
                                            !.byteCount = length]
        /\ pipe' = [phase |-> "data", done |-> 0, left |-> length]
        /\ config' = "downloadIdle" /\ setupCallback' = "stepDone"
        /\ host' = [host EXCEPT !.ready = FALSE]
    BY <1>5 DEF Download
  <2>2. /\ flashState'.op = "erase" /\ flashState'.offset = 0
        /\ flashState'.byteCount = length /\ flashState'.writeAddr = flashState.writeAddr
    BY <1>2, <2>1 DEF IInv, TypeOK, FlashStates
  <2>3. /\ host'.zone = host.zone /\ host'.sent = host.sent /\ host'.acked = host.acked
        /\ host'.ready = FALSE
    BY <1>2, <2>1 DEF IInv, TypeOK, Hosts
  <2>4. host.zone # -1
    BY <1>1, <1>2, <1>5 DEF IInv, Position, NoZone, DownloadRefused
  <2>5. Holds(0, host.sent)'
    BY DEF Holds
  <2>6. InTurn'
    <3>1. length = 0 + length
      BY <1>1
    <3> QED BY <2>1, <2>2, <2>3, <2>4, <2>5, <3>1 DEF InTurn, Holds
  <2>7. InPlace'
    <3>1. InFlash = host.sent /\ InFlash' = host.sent
      BY <1>3, <2>1, <2>3 DEF InFlash
    <3> QED BY <1>1, <1>2, <2>2, <2>3, <3>1 DEF InPlace
  <2> QED BY <2>6, <2>7
<1> QED BY <1>4, <1>5

LEMMA UploadLoads ==
  ASSUME Loading, Polite, ~Abandons, NEW length \in 1..MaxLength, Upload(length)
  PROVE  InTurn' /\ InPlace'
<1>1. /\ pipe.phase = "idle" /\ host.ready /\ pipe'.phase # "data"
      /\ UNCHANGED <<config, sofHandler, setupCallback, memory, busy, host>>
  BY DEF Upload, Setup, Stall, Answer, IdlePipe
<1>2. IInv /\ InTurn /\ InPlace
  BY DEF Loading
<1>3. config # "downloadBusy" /\ flashState.op = "none"
  BY <1>1, <1>2 DEF InTurn
<1>4. /\ flashState'.op = flashState.op
      /\ flashState'.writeAddr = flashState.writeAddr
  BY <1>2 DEF Upload, IInv, TypeOK, FlashStates
<1>5. InTurn'
  BY <1>1, <1>2, <1>3, <1>4 DEF InTurn
<1>6. InPlace'
  BY <1>1, <1>2, <1>3, <1>4 DEF InPlace, InFlash
<1> QED BY <1>5, <1>6

\* A host that may not send before it is told so is told so only when all it
\* has sent is in the Flash.
LEMMA SimpleRequestLoads ==
  ASSUME Loading, Polite, ~Abandons,
         DownloadEnd \/ GetStatus \/ OtherRequest \/ AbortDownload
           \/ DetachRequest \/ RefusedRequest
  PROVE  InTurn' /\ InPlace'
<1>1. IInv /\ InTurn /\ InPlace
  BY DEF Loading
<1>2. /\ pipe.phase = "idle" /\ pipe'.phase # "data"
      /\ UNCHANGED <<flashState, buffer, sofHandler, memory, busy>>
  BY DEF DownloadEnd, GetStatus, OtherRequest, AbortDownload, DetachRequest,
         RefusedRequest, Setup, Stall, Answer, IdlePipe
<1>3. setupCallback' # "stepDone"
  BY <1>1, <1>2 DEF DownloadEnd, GetStatus, OtherRequest, AbortDownload, DetachRequest,
         RefusedRequest, InTurn
<1>4. /\ host'.zone = host.zone /\ host'.sent = host.sent
      /\ host'.acked = host.acked \/ (host'.acked = host.sent /\ config' # "downloadBusy")
      /\ config' = "downloadBusy" <=> config = "downloadBusy"
      /\ config = "downloadBusy" => host'.ready = FALSE
  <2>1. config' = "downloadBusy" <=> config = "downloadBusy"
    BY <1>1 DEF DownloadEnd, GetStatus, StatusStep, OtherRequest, AbortDownload,
         DetachRequest, RefusedRequest, InTurn
  <2>2. CASE DownloadEnd
    BY <1>1, <2>1, <2>2 DEF DownloadEnd, IInv, TypeOK, Hosts
  <2>3. CASE GetStatus
    <3>1. config = "downloadBusy" => host' = host
      BY <2>3 DEF GetStatus, StatusStep
    <3>2. host' = host \/ host' = [host EXCEPT !.ready = TRUE, !.acked = host.sent]
      BY <2>3 DEF GetStatus
    <3>3. host \in Hosts /\ (config = "downloadBusy" => host.ready = FALSE)
      BY <1>1 DEF IInv, TypeOK, InTurn, Hosts
    <3> QED BY <2>1, <3>1, <3>2, <3>3 DEF Hosts
  <2>4. CASE OtherRequest \/ AbortDownload \/ DetachRequest \/ RefusedRequest
    <3>1. host' = host
      BY <2>4 DEF OtherRequest, AbortDownload, DetachRequest, RefusedRequest
    <3> QED BY <1>1, <2>1, <3>1 DEF InTurn, IInv, TypeOK, Hosts
  <2> QED BY <2>2, <2>3, <2>4
<1>5. InTurn'
  BY <1>1, <1>2, <1>3, <1>4 DEF InTurn, Holds
<1>6. InPlace'
  <2>1. config' # "downloadBusy" => InFlash = host.sent
    BY <1>4 DEF InFlash
  <2>2. host'.acked \in {host.acked, InFlash}
    BY <1>4, <2>1
  <2> QED BY <1>1, <1>2, <1>4, <2>2, StillInPlace
<1> QED BY <1>5, <1>6

\* With the last packet of a block the buffer holds the next units of the image.
LEMMA DataPacketLoads ==
  ASSUME Loading, Polite, ~Abandons, DataPacket
  PROVE  InTurn' /\ InPlace'
<1> DEFINE count == Least(pipe.left, epBufferSize)
           from == host.sent
           done == pipe.done
<1>1. IInv /\ InTurn /\ InPlace
  BY DEF Loading
<1>2. /\ pipe.phase = "data" /\ buffer' = Received(count)
      /\ UNCHANGED <<flashState, sofHandler, memory, busy>>
  BY DEF DataPacket
<1>3. /\ setupCallback = "stepDone" /\ host.zone # -1 /\ config = "downloadIdle"
      /\ ~host.ready /\ flashState.op # "none" /\ flashState.offset = 0
      /\ flashState.byteCount = done + pipe.left /\ Holds(done, from)
  BY <1>1, <1>2 DEF InTurn
<1>4. /\ pipe.left \in Nat /\ done \in Nat /\ from \in Nat /\ epBufferSize \in Nat
      /\ flashState.byteCount \in Nat /\ flashPageSize \in Nat
      /\ flashState.byteCount <= flashPageSize
      /\ buffer \in [0..flashPageSize - 1 -> Cells] /\ pipe \in Pipes /\ host \in Hosts
  BY <1>1, LoadingTyped, FlashLayout DEF FlashLayout, IInv, TypeOK, BlockFits
<1>5. count \in Nat /\ count <= pipe.left
  BY <1>4, LeastIsLeast
<1> HIDE DEF count
<1>7. \A i \in 0..done + count - 1 : buffer'[i] = from + i
  <2> SUFFICES ASSUME NEW i \in 0..done + count - 1 PROVE buffer'[i] = from + i
    OBVIOUS
  <2>1. i \in 0..flashPageSize - 1
    BY <1>3, <1>4, <1>5
  <2>2. buffer'[i] = IF i \in done..done + count - 1 THEN from + i ELSE buffer[i]
    BY <1>2, <1>4, <2>1 DEF Received
  <2>3. i \notin done..done + count - 1 => i \in 0..done - 1
    BY <1>4, <1>5
  <2> QED BY <1>3, <2>2, <2>3 DEF Holds
<1>8. CASE count < pipe.left
  <2>1. /\ pipe' = [pipe EXCEPT !.done = @ + count, !.left = @ - count]
        /\ UNCHANGED <<config, setupCallback, host>>
    BY <1>8 DEF DataPacket, count
  <2>2. pipe'.phase = "data" /\ pipe'.done = done + count /\ pipe'.left = pipe.left - count
    BY <1>2, <1>4, <2>1 DEF Pipes
  <2>3. flashState'.byteCount = pipe'.done + pipe'.left
    BY <1>2, <1>3, <1>4, <1>5, <2>2
  <2>4. Holds(pipe.done, host.sent)'
    <3>1. host'.sent = from
      BY <2>1
    <3>2. \A i \in 0..pipe'.done - 1 : buffer'[i] = host'.sent + i
      BY <1>4, <1>5, <1>7, <2>2, <3>1
    <3> QED BY <3>2 DEF Holds
  <2>5. InTurn'
    BY <1>2, <1>3, <2>1, <2>2, <2>3, <2>4 DEF InTurn
  <2>6. InPlace'
    BY <1>1, <1>2, <2>1, StillInPlace
  <2> QED BY <2>5, <2>6
<1>9. CASE ~(count < pipe.left)
  <2>1. /\ pipe' = [IdlePipe EXCEPT !.phase = "status"] /\ RunCallback
        /\ host' = [host EXCEPT !.sent = @ + pipe.done + count]
    BY <1>9 DEF DataPacket, Answer, count
  <2>2. /\ pipe'.phase = "status" /\ setupCallback' = "none" /\ config' = "downloadBusy"
    BY <1>3, <2>1 DEF RunCallback, IdlePipe
  <2>3. /\ host'.zone = host.zone /\ host'.acked = host.acked /\ host'.ready = host.ready
        /\ host'.sent = from + flashState.byteCount
    <3>1. count = pipe.left
      BY <1>4, <1>5, <1>9
    <3>2. from + done + count = from + flashState.byteCount
      BY <1>3, <1>4, <3>1
    <3>3. host' = [host EXCEPT !.sent = from + flashState.byteCount]
      BY <2>1, <3>2
    <3> QED BY <1>4, <3>3 DEF Hosts
  <2>4. done + count = flashState.byteCount
    BY <1>3, <1>4, <1>5, <1>9
  <2>5. Holds(flashState.byteCount, host.sent - flashState.byteCount)'
    <3>1. host'.sent - flashState.byteCount = from
      BY <1>4, <2>3
    <3>2. \A i \in 0..flashState.byteCount - 1 :
            buffer'[i] = (host'.sent - flashState.byteCount) + i
      BY <1>4, <1>5, <1>7, <2>4, <3>1
    <3>3. flashState' = flashState
      BY <1>2
    <3> QED BY <3>2, <3>3 DEF Holds
  <2>6. InTurn'
    <3>1. flashState.offset <= flashState.byteCount /\ flashState.byteCount <= host'.sent
      BY <1>3, <1>4, <2>3
    <3> QED BY <1>2, <1>3, <2>2, <2>3, <2>5, <3>1 DEF InTurn
  <2>7. InPlace'
    <3>1. InFlash = from /\ InFlash' = from
      <4>1. (from + flashState.byteCount) - (flashState.byteCount - 0) = from
        BY <1>4
      <4> QED BY <1>2, <1>3, <2>2, <2>3, <4>1 DEF InFlash
    <3> QED BY <1>1, <1>2, <2>3, <3>1 DEF InPlace
  <2> QED BY <2>6, <2>7
<1> QED BY <1>8, <1>9

LEMMA OtherLoads ==
  ASSUME Loading, Polite, ~Abandons,
         StatusDone \/ DetachDone \/ BusReset \/ FlashDone
           \/ \E state \in BOOLEAN : Detached(state)
  PROVE  InTurn' /\ InPlace'
<1>1. IInv /\ InTurn /\ InPlace
  BY DEF Loading
<1>2. CASE StatusDone
  <2>1. /\ pipe.phase = "status" /\ pipe'.phase = "idle" /\ setupCallback' = "none"
        /\ UNCHANGED <<flashState, buffer, sofHandler, memory, busy, host>>
    BY <1>2 DEF StatusDone, IdlePipe, RunCallback
  <2>2. config' = config
    BY <1>1, <1>2, <2>1 DEF StatusDone, RunCallback, InTurn
  <2>3. InTurn'
    BY <1>1, <2>1, <2>2 DEF InTurn, Holds
  <2> QED BY <1>1, <2>1, <2>2, <2>3, StillInPlace
<1>3. CASE DetachDone
  <2>1. /\ setupCallback' = "none" /\ config' = "applicationIdle"
        /\ pipe'.phase = "idle" /\ flashState'.op = "none" /\ host'.zone = -1
    BY <1>3 DEF DetachDone, Reboot, IdlePipe, NoZone, NewHost
  <2> QED BY <2>1 DEF InTurn, InPlace
<1>4. CASE FlashDone
  <2>1. UNCHANGED <<config, flashState, buffer, sofHandler, setupCallback, pipe,
                    memory, host>>
    BY <1>4 DEF FlashDone
  <2> QED BY <1>1, <2>1 DEF InTurn, Holds, InPlace, InFlash
<1>5. ASSUME NEW state \in BOOLEAN, Detached(state) PROVE InTurn' /\ InPlace'
  <2>1. /\ ~sofHandler /\ pipe.phase = "idle" /\ config' # "downloadBusy"
        /\ flashState.op = "none"
        /\ UNCHANGED <<flashState, sofHandler, setupCallback, pipe, host>>
    BY <1>5 DEF Detached, IdlePipe, NoZone
  <2> QED BY <1>1, <2>1 DEF InTurn, InPlace
<1>6. ~BusReset
  BY DEF BusReset
<1> QED BY <1>2, <1>3, <1>4, <1>5, <1>6

LEMMA TickEraseLoads ==
  ASSUME Loading, TickErase
  PROVE  InTurn' /\ InPlace'
<1>1. IInv /\ InTurn /\ InPlace
  BY DEF Loading
<1>2. /\ flashState.op = "erase"
      /\ UNCHANGED <<config, buffer, sofHandler, setupCallback, pipe, host>>
      /\ flashState' = [flashState EXCEPT !.eraseAddr = @ + flashEraseSize]
  BY DEF TickErase
<1>3. /\ flashState'.op = flashState.op /\ flashState'.offset = flashState.offset
      /\ flashState'.byteCount = flashState.byteCount
      /\ flashState'.writeAddr = flashState.writeAddr
  BY <1>1, <1>2 DEF IInv, TypeOK, FlashStates
<1>4. InTurn'
  BY <1>1, <1>2, <1>3 DEF InTurn, Holds
<1>5. InFlash' = InFlash
  BY <1>2, <1>3 DEF InFlash
<1>6. InPlace'
  <2>1. /\ flashState.writeAddr <= flashState.eraseAddr
        /\ flashState.eraseAddr <= FlashSize /\ Zones[host.zone].start \in Nat
        /\ flashState.writeAddr = Zones[host.zone].start + InFlash
        /\ flashState.eraseAddr \in Nat /\ flashState.writeAddr \in Nat
        /\ FlashSize \in Nat
    <3>1. /\ host.zone \in ZoneNumbers /\ flashState.eraseAddr <= flashState.endAddr
          /\ flashState.endAddr <= FlashSize
          /\ flashState.writeAddr <= flashState.eraseAddr
          /\ Zones[host.zone].start \in Nat
      BY <1>1, <1>2, TickInZone
    <3>2. host.zone # -1
      BY <3>1, FlashLayout DEF FlashLayout
    <3>3. flashState.endAddr \in Nat /\ flashState.eraseAddr \in Nat
          /\ flashState.writeAddr \in Nat /\ FlashSize \in Nat
      BY <1>1, LoadingTyped, FlashLayout DEF FlashLayout
    <3>4. flashState.eraseAddr <= FlashSize
      BY <3>1, <3>3
    <3> QED BY <1>1, <3>1, <3>2, <3>3, <3>4 DEF InPlace
  <2>2. InFlash \in Int
    BY <1>1, LoadingTyped DEF InFlash
  <2>3. ASSUME NEW i \in 0..InFlash - 1
        PROVE  memory'[Zones[host.zone].start + i] = memory[Zones[host.zone].start + i]
    <3> DEFINE a == Zones[host.zone].start + i
    <3>1. a \in Addresses /\ a < flashState.eraseAddr
      BY <2>1, <2>2 DEF Addresses
    <3>2. a \notin flashState.eraseAddr..flashState.eraseAddr + flashEraseSize - 1
      BY <2>1, <2>2, <3>1 DEF Addresses
    <3> HIDE DEF a
    <3>3. memory'[a] = memory[a]
      BY <3>1, <3>2 DEF TickErase
    <3> QED BY <3>3 DEF a
  <2> QED BY <1>1, <1>2, <1>3, <1>5, <2>3 DEF InPlace
<1> QED BY <1>4, <1>6

LEMMA TickWaitLoads ==
  ASSUME Loading, TickWait
  PROVE  InTurn' /\ InPlace'
<1>1. IInv /\ InTurn /\ InPlace
  BY DEF Loading
<1>2. /\ flashState.op # "none" /\ config # "downloadBusy"
      /\ flashState' = [flashState EXCEPT !.op = "write"]
      /\ UNCHANGED <<config, buffer, sofHandler, setupCallback, pipe, memory, host>>
  BY DEF TickWait, WritingNow
<1>3. /\ flashState'.op = "write" /\ flashState'.offset = flashState.offset
      /\ flashState'.byteCount = flashState.byteCount
      /\ flashState'.writeAddr = flashState.writeAddr
  BY <1>1, <1>2 DEF IInv, TypeOK, FlashStates
<1>4. pipe.phase = "data"
  BY <1>1, <1>2 DEF InTurn
<1>5. InTurn'
  BY <1>1, <1>2, <1>3, <1>4 DEF InTurn, Holds
<1>6. InPlace'
  BY <1>1, <1>2, <1>3 DEF InPlace, InFlash
<1> QED BY <1>5, <1>6

\* What is written is the image's next units, where they belong.
LEMMA TickWriteLoads ==
  ASSUME Loading, TickWrite
  PROVE  InTurn' /\ InPlace'
<1> DEFINE start == Zones[host.zone].start
           to    == flashState.writeAddr
           taken == flashState.offset
           size  == flashState.byteCount
<1>1. IInv /\ InTurn /\ InPlace
  BY DEF Loading
<1>2. /\ flashState.op # "none" /\ config = "downloadBusy"
      /\ UNCHANGED <<config, buffer, sofHandler, setupCallback, pipe, host>>
      /\ flashState' = [flashState EXCEPT !.op = "write", !.offset = @ + Amount,
                                          !.writeAddr = @ + Amount]
  BY DEF TickWrite, WritingNow, Amount
<1>3. /\ flashState'.op = "write" /\ flashState'.offset = taken + Amount
      /\ flashState'.byteCount = size /\ flashState'.writeAddr = to + Amount
  BY <1>1, <1>2 DEF IInv, TypeOK, FlashStates
<1>4. /\ host.zone # -1 /\ ~host.ready /\ pipe.phase # "data"
      /\ taken <= size /\ size <= host.sent /\ Holds(size, host.sent - size)
  BY <1>1, <1>2 DEF InTurn
<1>5. /\ to \in Nat /\ size \in Nat /\ taken \in Nat /\ host.sent \in Nat
      /\ host.acked \in Nat /\ start \in Nat /\ flashState.eraseAddr \in Nat
      /\ flashState.endAddr \in Nat /\ FlashSize \in Nat
  BY <1>1, <1>4, LoadingTyped, FlashLayout DEF FlashLayout
<1>6. /\ Amount \in Nat /\ taken + Amount <= size /\ size <= flashPageSize
      /\ to + (size - taken) <= flashState.eraseAddr
      /\ flashState.eraseAddr <= flashState.endAddr /\ flashState.endAddr <= FlashSize
  BY <1>1, <1>2, PieceFits, TickInZone
<1>7. /\ to = start + InFlash /\ host.acked <= InFlash
      /\ InFlash = host.sent - (size - taken)
      /\ \A i \in 0..InFlash - 1 : memory[start + i] = i
  BY <1>1, <1>2, <1>4 DEF InPlace, InFlash
<1>8. InFlash' = host.sent - (size - (taken + Amount))
  BY <1>2, <1>3 DEF InFlash
<1>9. InTurn'
  BY <1>2, <1>3, <1>4, <1>1, <1>6 DEF InTurn, Holds
<1> HIDE DEF start, to, taken, size
<1>10. InFlash \in Nat /\ InFlash' = InFlash + Amount /\ to + Amount <= FlashSize
  BY <1>4, <1>5, <1>6, <1>7, <1>8
<1>11. ASSUME NEW i \in 0..InFlash' - 1 PROVE memory'[start + i] = i
  <2> DEFINE a == start + i
  <2>1. i \in Nat /\ a \in Nat /\ a < to + Amount
    BY <1>5, <1>6, <1>7, <1>10
  <2>2. a \in Addresses
    BY <1>5, <1>6, <1>10, <2>1 DEF Addresses
  <2>3. memory'[a] = IF a \in to..to + Amount - 1 THEN buffer[taken + (a - to)]
                     ELSE memory[a]
    BY <2>2 DEF TickWrite, Amount, to, taken
  <2>4. CASE i < InFlash
    <3>1. a < to /\ i \in 0..InFlash - 1
      BY <1>5, <1>7, <1>10, <2>1, <2>4
    <3>2. a \notin to..to + Amount - 1
      BY <1>5, <1>6, <2>1, <3>1
    <3> QED BY <1>7, <2>3, <3>1, <3>2
  <2>5. CASE ~(i < InFlash)
    <3>1. a \in to..to + Amount - 1 /\ a - to = i - InFlash
      BY <1>5, <1>6, <1>7, <1>10, <2>1, <2>5
    <3>2. /\ taken + (a - to) \in 0..size - 1
          /\ (host.sent - size) + (taken + (a - to)) = i
      BY <1>4, <1>5, <1>6, <1>7, <1>10, <2>1, <2>5, <3>1
    <3>3. buffer[taken + (a - to)] = (host.sent - size) + (taken + (a - to))
      BY <1>4, <3>2 DEF Holds
    <3> QED BY <2>3, <3>1, <3>2, <3>3
  <2> QED BY <2>4, <2>5
<1>12. /\ host.acked <= InFlash' /\ to + Amount = start + InFlash'
  BY <1>5, <1>6, <1>7, <1>10
<1>13. InPlace'
  BY <1>1, <1>2, <1>3, <1>4, <1>11, <1>12 DEF InPlace, start, to
<1> QED BY <1>9, <1>13

LEMMA TickDoneLoads ==
  ASSUME Loading, TickDone
  PROVE  InTurn' /\ InPlace'
<1>1. IInv /\ InTurn /\ InPlace
  BY DEF Loading
<1>2. /\ config = "downloadBusy" /\ flashState.offset = flashState.byteCount
      /\ config' = "downloadSync"
      /\ UNCHANGED <<buffer, sofHandler, setupCallback, pipe, memory, host>>
      /\ flashState' = [flashState EXCEPT !.op = "none", !.offset = 0, !.byteCount = 0]
  BY DEF TickDone
<1>3. flashState'.op = "none" /\ flashState'.writeAddr = flashState.writeAddr
  BY <1>1, <1>2 DEF IInv, TypeOK, FlashStates
<1>4. pipe.phase # "data"
  BY <1>1, <1>2 DEF InTurn
<1>5. InFlash = host.sent /\ InFlash' = host.sent
  <2>1. host.sent - (flashState.byteCount - flashState.byteCount) = host.sent
    BY <1>1, LoadingTyped
  <2> QED BY <1>2, <2>1 DEF InFlash
<1>6. InTurn'
  BY <1>1, <1>2, <1>3, <1>4 DEF InTurn
<1>7. InPlace'
  BY <1>1, <1>2, <1>3, <1>5 DEF InPlace
<1> QED BY <1>6, <1>7

LEMMA NextLoads ==
  ASSUME Loading, Polite, ~Abandons, [Next]_vars
  PROVE  Loading'
<1>1. IInv'
  BY NextInvariant DEF Loading
<1>2. CASE Request
  BY <1>1, <1>2, SetInterfaceLoads, DownloadLoads, UploadLoads, SimpleRequestLoads
     DEF Request, Loading
<1>3. CASE DataPacket
  BY <1>1, <1>3, DataPacketLoads DEF Loading
<1>4. CASE StatusDone \/ DetachDone \/ BusReset \/ FlashDone
             \/ \E state \in BOOLEAN : Detached(state)
  BY <1>1, <1>4, OtherLoads DEF Loading
<1>5. CASE Tick
  BY <1>1, <1>5, TickEraseLoads, TickWaitLoads, TickWriteLoads, TickDoneLoads
     DEF Tick, Loading
<1>6. CASE UNCHANGED vars
  BY <1>1, <1>6 DEF vars, Loading, InTurn, Holds, InPlace, InFlash
<1> QED BY <1>2, <1>3, <1>4, <1>5, <1>6 DEF Next

\* A host keeps its manners.
LEMMA MannersStay ==
  ASSUME IInv, [Next]_vars
  PROVE  host'.manners = host.manners
<1>1. host \in Hosts
  BY DEF IInv, TypeOK
<1>2. CASE Request
  <2>1. ASSUME NEW z \in ZoneNumbers \cup {-1}, SetInterface(z)
        PROVE  host'.manners = host.manners
    BY <2>1 DEF SetInterface, NewHost
  <2>2. ASSUME NEW length \in 1..MaxLength, Download(length) \/ Upload(length)
        PROVE  host'.manners = host.manners
    BY <1>1, <2>2 DEF Download, Upload, Hosts
  <2>3. CASE DownloadEnd \/ GetStatus \/ OtherRequest \/ AbortDownload
               \/ DetachRequest \/ RefusedRequest
    BY <1>1, <2>3 DEF DownloadEnd, GetStatus, OtherRequest, AbortDownload,
       DetachRequest, RefusedRequest, Hosts
  <2> QED BY <1>2, <2>1, <2>2, <2>3 DEF Request
<1>3. CASE DataPacket \/ BusReset
  BY <1>1, <1>3 DEF DataPacket, BusReset, Hosts
<1>4. CASE DetachDone
  BY <1>4 DEF DetachDone, Reboot, NewHost
<1>5. CASE \/ StatusDone \/ Tick \/ FlashDone
           \/ \E state \in BOOLEAN : Detached(state)
           \/ UNCHANGED vars
  BY <1>5 DEF StatusDone, Tick, TickErase, TickWait, TickWrite, TickDone,
     FlashDone, Detached, vars
<1> QED BY <1>2, <1>3, <1>4, <1>5 DEF Next

\* A host that sends a block only when it has been told that it may, and gives
\* up none of its transfers (Cooperative), finds all of its image that it was
\* told is done in the Flash, complete and in order, for every layout of whole
\* sectors and every size of blocks, packets and pieces written
\* (src/drivers/dfu.cxx:123).
THEOREM ImageArrives == Spec => []ImageIntact
<1> DEFINE Loaded == IInv /\ (Cooperative => Loading)
<1>1. Init => Loaded
  BY InitLoading DEF Loading
<1>2. Loaded /\ [Next]_vars => Loaded'
  <2> SUFFICES ASSUME Loaded, [Next]_vars PROVE Loaded'
    OBVIOUS
  <2>1. IInv'
    BY NextInvariant
  <2>2. Cooperative' => Cooperative
    BY MannersStay DEF Cooperative, Polite, Abandons
  <2>3. Cooperative => Loading'
    BY NextLoads DEF Cooperative
  <2> QED BY <2>1, <2>2, <2>3
<1>3. Loaded => ImageIntact
  <2> SUFFICES ASSUME Loading, host.zone # -1, NEW i \in 0..host.acked - 1
               PROVE  memory[Zones[host.zone].start + i] = i
    BY DEF ImageIntact
  <2>1. IInv /\ InPlace
    BY DEF Loading
  <2>2. host.acked <= InFlash /\ InFlash \in Int /\ host.acked \in Nat
    BY <2>1, LoadingTyped DEF InPlace, InFlash
  <2>3. i \in 0..InFlash - 1
    BY <2>2
  <2> QED BY <2>1, <2>3 DEF InPlace
<1> QED BY <1>1, <1>2, <1>3, PTL DEF Spec

=============================================================================
