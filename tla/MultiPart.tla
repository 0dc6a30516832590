------------------------------ MODULE MultiPart ------------------------------
(***************************************************************************)
(* Descriptors in parts: writeEPMultipart() of stm32f1 and tm4c123gh6pm    *)
(* and the same loop inside atxmega256a3u's writeEP(), byte by byte.  A    *)
(* table is a sequence of parts that lie anywhere in memory; the host is   *)
(* to see them as one run of bytes cut into packets.  The chips' packet    *)
(* memories are written in words of 2, 4 and 1 bytes, so what is left of a *)
(* part at the end of a turn of the loop is kept for the next.             *)
(*                                                                         *)
(* One step is one turn of that loop.  UsbDevice is the same writer with a *)
(* table taken for one object.                                             *)
(***************************************************************************)
EXTENDS Integers, SequencesExt

CONSTANTS
  epBufferSize,   \* USB_BUFFER_SIZE
  Chips,          \* the chips' writers to run
  Tables,         \* the descriptor tables of the build: the parts' lengths
  Lengths         \* the wLength values the host asks with

UINT16_MAX == 65535
Word16 == 0..UINT16_MAX
Byte == 0..255

\* Where the parts of a table end in the run of its bytes: after p of them.
Ends(table) ==
  LET end[p \in 0..Len(table)] == IF p = 0 THEN 0 ELSE end[p - 1] + table[p]
  IN  end

\* A table is a sequence of uint8_t lengths that add up to a uint16_t.
TotalLength(table) == Ends(table)[Len(table)]

\* Packet sizes are those USB has for endpoint 0; partNumber is a uint8_t; only
\* the last part of a table (an empty string's characters) may be empty.
ASSUME TableAssumption ==
  /\ epBufferSize \in {8, 16, 32, 64}
  /\ Chips \subseteq {"stm32f1", "tm4c123gh6pm", "atxmega256a3u"}
  /\ \A table \in Tables :
       /\ table \in Seq(Byte) /\ Len(table) \in 1..256
       /\ TotalLength(table) <= UINT16_MAX
       /\ \A p \in 1..Len(table) : table[p] = 0 => p = Len(table) /\ p # 1
  /\ Lengths \subseteq Word16

VARIABLES
  chip,    \* the chip the stack was built for
  pc,      \* "idle" between packets, "write" with one due, "loop" in the loop
  ep,      \* epStatusControllerIn[0], with the table partsData points to
  writer,  \* the locals of the loop, and the packet memory it fills
  asked,   \* the bytes the host is to get
  sent     \* the bytes of the packets sent

vars == <<chip, pc, ep, writer, asked, sent>>

\* A byte is the place in memory it was read from: a part of the table and an
\* offset, past the part's end if the writer reads there.  Part 0 is the null
\* pointer; Stale is a byte of packet memory nobody has written.
Places == [part : Nat, off : Nat]
NullPtr == [part |-> 0, off |-> 0]
Stale   == [part |-> 0, off |-> 1]

TypeOK ==
  /\ chip \in Chips
  /\ pc \in {"idle", "write", "loop"}
  /\ ep \in [table : Tables, transferCount : Word16, partNumber : Byte,
             memBuffer : Places, isMultiPart : BOOLEAN]
  /\ ep.partNumber < Len(ep.table)
  /\ writer \in [sendCount : 0..epBufferSize, sendAmount : Byte,
                 leftover : Seq(Places), written : Seq(Places)]
  /\ Len(writer.leftover) < 4
  /\ sent \in Seq(Places)
  /\ asked \in Word16

\* usbStringDesc_t::asParts(): the two bytes before the characters, and the
\* characters; the length is kept in a uint8_t.
StringTable(characters) ==
  LET length == (2 + 2 * characters) % 256
  IN  <<2, (length - 2) % 256>>

Begin(index) == [part |-> index + 1, off |-> 0]

Bytes(from, n) == [i \in 1..n |-> [from EXCEPT !.off = @ + i - 1]]

Smaller(a, b) == IF a < b THEN a ELSE b

-----------------------------------------------------------------------------

Init ==
  /\ chip \in Chips /\ pc = "idle" /\ asked = 0 /\ sent = <<>>
  /\ ep \in [table : Tables, transferCount : {0}, partNumber : {0},
             memBuffer : {NullPtr}, isMultiPart : {FALSE}]
  /\ writer = [sendCount |-> 0, sendAmount |-> 0,
               leftover |-> <<>>, written |-> <<>>]

\* A configuration or string is asked for, as the first request or before the
\* last packet of the one before it.  writeEP() follows in the same handler.
HandleGetDescriptor(table, length) ==
  LET count == Smaller(TotalLength(table), length)
  IN  /\ pc = "idle" /\ pc' = "write"
      /\ ep' = [table |-> table, transferCount |-> count, partNumber |-> 0,
                memBuffer |-> NullPtr, isMultiPart |-> TRUE]
      /\ asked' = count /\ sent' = <<>>
      /\ UNCHANGED <<chip, writer>>

\* Mutant: every packet is a full one.
SendCount_Full == epBufferSize

SendCount == Smaller(ep.transferCount, epBufferSize)

\* writeEP() up to the loop.
WriteEP ==
  /\ pc = "write" \/ (pc = "idle" /\ ep.transferCount # 0)
  /\ pc' = "loop"
  /\ ep' = [ep EXCEPT !.transferCount = @ - SendCount,
                      !.memBuffer = IF @ = NullPtr THEN Begin(0) ELSE @]
  /\ writer' = [sendCount |-> SendCount, sendAmount |-> SendCount,
                leftover |-> <<>>, written |-> <<>>]
  /\ UNCHANGED <<chip, asked, sent>>

-----------------------------------------------------------------------------
(* The loop.                                                               *)

PartLength == ep.table[ep.partNumber + 1]

\* partAmount: what the part has left, of what the packet still takes.  The
\* ATxmega takes the offset as a uint8_t, which is the same while it is within
\* the part.
PartAmount ==
  LET left == PartLength - (ep.memBuffer.off % (UINT16_MAX + 1))
  IN  IF left > writer.sendAmount THEN writer.sendAmount ELSE left % 256

\* Mutant: the last part is never reached.
NextPart_Short(buffer) ==
  IF buffer.off = PartLength /\ ep.partNumber + 2 < Len(ep.table)
  THEN [ep EXCEPT !.partNumber = @ + 1, !.memBuffer = Begin(ep.partNumber + 1)]
  ELSE [ep EXCEPT !.memBuffer = buffer]

\* The buffer pointer after a turn: on to the next part if this one is done.
NextPart(buffer) ==
  IF buffer.off = PartLength /\ ep.partNumber + 1 < Len(ep.table)
  THEN [ep EXCEPT !.partNumber = @ + 1, !.memBuffer = Begin(ep.partNumber + 1)]
  ELSE [ep EXCEPT !.memBuffer = buffer]

\* Mutant: what completed the last word is sent again.
Turn_NotAdjusted(word, limit) ==
  LET fill      == IF writer.leftover = <<>> THEN 0
                   ELSE word - Len(writer.leftover)
      remainder == PartAmount % word
      direct    == (PartAmount - remainder) % limit
      last      == [ep.memBuffer EXCEPT !.off = @ + direct]
  IN  /\ writer' = [writer EXCEPT
           !.sendAmount = (@ - PartAmount) % 256,
           !.written    = @ \o (IF fill = 0 THEN <<>> ELSE writer.leftover)
                            \o Bytes(ep.memBuffer, fill + direct),
           !.leftover   = Bytes(last, remainder)]
      /\ ep' = NextPart([last EXCEPT !.off = @ + remainder])

\* One turn, in words of "word" bytes: complete the word begun by the part
\* before, queue whole words, keep the rest.  The length of what is queued is
\* computed modulo "limit".
Turn(word, limit) ==
  LET fill      == IF writer.leftover = <<>> THEN 0
                   ELSE word - Len(writer.leftover)
      remainder == (PartAmount - fill) % word
      direct    == (PartAmount - fill - remainder) % limit
      last      == [ep.memBuffer EXCEPT !.off = @ + fill + direct]
  IN  /\ writer' = [writer EXCEPT
           !.sendAmount = (@ - PartAmount) % 256,
           !.written    = @ \o (IF fill = 0 THEN <<>> ELSE writer.leftover)
                            \o Bytes(ep.memBuffer, fill + direct),
           !.leftover   = Bytes(last, remainder)]
      /\ ep' = NextPart([last EXCEPT !.off = @ + remainder])

InLoop(which) ==
  /\ pc = "loop" /\ writer.sendAmount # 0 /\ chip = which
  /\ UNCHANGED <<chip, pc, asked, sent>>

Stm32f1Turn  == InLoop("stm32f1") /\ Turn(2, UINT16_MAX + 1)
Tm4cTurn     == InLoop("tm4c123gh6pm") /\ Turn(4, 256)
AtxmegaTurn  == InLoop("atxmega256a3u") /\ Turn(1, 256)

\* stm32f1 and atxmega256a3u send "count" bytes of their packet memory.
FromBuffer(written, count) ==
  [i \in 1..count |-> IF i <= Len(written) THEN written[i] ELSE Stale]

\* tm4c123gh6pm sends what is in the FIFO.
FromFIFO(written) == written

\* After the loop: the last word of the last packet may be a short one.
EndPacket ==
  /\ pc = "loop" /\ writer.sendAmount = 0 /\ pc' = "idle"
  /\ LET written == writer.written \o
           (IF ep.transferCount = 0 THEN writer.leftover ELSE <<>>)
     IN  sent' = sent \o (IF chip = "tm4c123gh6pm" THEN FromFIFO(written)
                          ELSE FromBuffer(written, writer.sendCount))
  /\ ep' = [ep EXCEPT !.isMultiPart = @ /\ ep.transferCount # 0]
  /\ writer' = [writer EXCEPT !.written = <<>>, !.leftover = <<>>]
  /\ UNCHANGED <<chip, asked>>

Next ==
  \/ \E table \in Tables, length \in Lengths : HandleGetDescriptor(table, length)
  \/ WriteEP \/ Stm32f1Turn \/ Tm4cTurn \/ AtxmegaTurn \/ EndPacket

Spec == Init /\ [][Next]_vars

-----------------------------------------------------------------------------

\* The bytes of a table, one part after the other.
TableBytes(table) ==
  FlattenSeq([p \in 1..Len(table) |-> Bytes(Begin(p - 1), table[p])])

\* Each part after the first has enough bytes to complete the word that the
\* parts before it began, within what was asked for.
WordsAreCompleted ==
  \A p \in 2..Len(ep.table) :
    LET start == Ends(ep.table)[p - 1]
    IN  start < asked /\ start % 4 # 0 =>
          Smaller(ep.table[p], asked - start) >= 4 - (start % 4)

\* tm4c123gh6pm computes "(partAmount - diffAmount) - remainder" in a uint8_t
\* (src/tm4c123gh6pm/core.cxx:295), which is right only if every part and the
\* request's end leave it enough bytes; the other chips have no such limit.
Supported == chip = "tm4c123gh6pm" => WordsAreCompleted

\* What has been sent is what the table begins with, as much of it as has been
\* taken off transferCount.
FirstBytes ==
  sent = SubSeq(TableBytes(ep.table), 1,
                IF pc = "write" THEN 0 ELSE asked - ep.transferCount)

\* However a table is cut into parts, and the parts into words and packets,
\* with other requests in between, the host gets the table's bytes in order,
\* none missing and none twice (writeEPMultipart(), src/stm32f1/core.cxx:267).
\* On stm32f1 and atxmega256a3u the host may cut the request at any length; on
\* tm4c123gh6pm this speaks only of the tables and lengths that leave each part
\* the bytes to complete the word begun before it (WordsAreCompleted).
PacketsHoldTheTable == pc # "loop" /\ Supported => FirstBytes

\* The same without that limit: whatever the chip, the host may cut the request
\* at any length.  writeEPMultipart() promises it: "How many bytes do we need to
\* completely fill the leftovers buffer" (src/tm4c123gh6pm/core.cxx:284), "Queue
\* as much as we can" (:293).
AnyCutHoldsTheTable == pc # "loop" => FirstBytes

\* "while (sendAmount)" ends: every turn sends some of the packet, and none
\* takes the pointer past the part it is in (src/stm32f1/core.cxx:281); on
\* tm4c123gh6pm, for the reads that WordsAreCompleted allows.
EveryTurnSends ==
  [][pc = "loop" /\ pc' = "loop" /\ Supported =>
       /\ writer'.sendAmount < writer.sendAmount
       /\ ep'.memBuffer.off <= ep'.table[ep'.partNumber + 1]]_vars

=============================================================================
