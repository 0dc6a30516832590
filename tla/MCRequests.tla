------------------------------ MODULE MCRequests ------------------------------
(***************************************************************************)
(* Values for TLC.  A configuration's descriptor set is 25 bytes (an       *)
(* interface with one endpoint): over an 8-byte EP0 it takes four packets. *)
(* String 1 takes two.                                                     *)
(***************************************************************************)
EXTENDS UsbDevice

MCConfigLength == [c \in 0..configsCount - 1 |-> 25]
MCStringLength == [s \in {1} |-> 10]

Standard(dir, request, recipient, value, index, length) ==
  [type |-> "standard", recipient |-> recipient, dir |-> dir,
   request |-> request, value |-> value, index |-> index, length |-> length]
Class(dir, length) ==
  [Standard(dir, "other", "interface", 0, 0, length) EXCEPT !.type = "class"]

SetAddress1    == Standard("out", "setAddress", "device", 1, 0, 0)
Configure(c)   == Standard("out", "setConfiguration", "device", c, 0, 0)
ReadDevice     == Standard("in", "getDescriptor", "device", 256, 0, 18)
ReadConfig     == Standard("in", "getDescriptor", "device", 512, 0, 255)
ReadString     == Standard("in", "getDescriptor", "device", 769, 0, 255)
ReadActive     == Standard("in", "getConfiguration", "device", 0, 0, 1)
ReadMode       == Standard("in", "getInterface", "interface", 0, 0, 1)
SetMode(m)     == Standard("out", "setInterface", "interface", m, 0, 0)
ClearHalt      == Standard("out", "clearFeature", "endpoint", 0, 1, 0)

\* Requests that are over with one packet, SET_ADDRESS aside.
Brief      ==
  {Configure(0), Configure(1), Configure(2), ReadActive, ReadMode, SetMode(1),
   ClearHalt}
\* Requests answered from one object, or without data.
SinglePart == Brief \cup {SetAddress1, ReadDevice}
Everyday   == SinglePart \cup {ReadConfig, Class("in", 6), Class("out", 10)}
Configured == Everyday \ {Configure(0), Configure(2)}
\* Without a change of mode, which doubles the states; a host of STM32F1 may
\* give up those that read no table.
SameMode   == Everyday \ {SetMode(1)}
NoTable    == (SinglePart \cup {Class("out", 10)}) \cap SameMode
\* Those a host of TM4C123 may give up: no SET_ADDRESS, no table and no write.
GivenUp    == (Brief \cup {ReadDevice}) \cap Configured
Switching  ==
  {SetAddress1, Configure(0), Configure(1), Configure(2), Configure(3),
   ReadDevice, Class("out", 10)}
Basic      == {SetAddress1, Configure(1), ReadString, Class("out", 10)}
Writes     == {SetAddress1, Configure(1), Class("out", 8)}

\* What the data of a write reads as: nothing in particular, or a request.
BlankData == {ZeroPacket}
AnyData   == {ZeroPacket, Configure(1), SetAddress1}
BadData   == AnyData \ BlankData

\* A driver's answers: a refusal; a read answered with 6 bytes; a write armed,
\* with a callback at its end, as the DFU driver's downloads are.
Answer(response, data, size, arm, altOk) ==
  [response |-> response, data |-> data, size |-> size, arm |-> arm,
   callback |-> arm, altOk |-> altOk]
ADriver ==
  [dir \in {"in", "out"} |->
    {Answer("stall", NullPtr, 0, FALSE, FALSE),
     IF dir = "in" THEN Answer("data", <<"classData", 0>>, 6, FALSE, TRUE)
     ELSE Answer("zeroLength", NullPtr, 0, TRUE, TRUE)}]
=============================================================================
