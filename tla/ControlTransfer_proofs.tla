------------------------ MODULE ControlTransfer_proofs ------------------------
(***************************************************************************)
(* What the contract of a control pipe implies, whatever may be asked.     *)
(***************************************************************************)
EXTENDS ControlTransfer, TLAPS

Reads(r) == r.dir = "in" /\ r.length # 0

\* The requests have lengths, and so have the objects that reads are answered
\* from.
Meaningful ==
  /\ Size \in Nat
  /\ \A r \in Requests : /\ r.length \in Nat /\ r.dir \in {"in", "out"}
                         /\ Reads(r) => Extents[r] \subseteq Nat

\* A transfer that moves data has not moved all of it; what is on offer fits.
IInv ==
  /\ Active => request \in Requests
  /\ moved \in Nat
  /\ phase = "dataIn" => Reads(request)
  /\ phase \in {"dataIn", "dataOut"} => moved < request.length
  /\ Active => moved <= request.length
  /\ \/ offer \in {Nothing, Refusal}
     \/ offer = Ack /\ phase = "statusIn"
     \/ /\ phase = "dataIn"
        /\ \E length \in Nat : /\ offer = Data(Source[request], moved, length)
                              /\ moved + length <= request.length

LEMMA Kinds ==
  ASSUME NEW object, NEW offset, NEW length
  PROVE  LET data == Data(object, offset, length)
         IN  /\ data \notin {Nothing, Refusal, Ack}
             /\ data[2] = object /\ data[3] = offset /\ data[4] = length
BY DEF Data, Nothing, Refusal, Ack

LEMMA HostStep ==
  ASSUME Meaningful, IInv, Host
  PROVE  IInv'
<1>1. ASSUME NEW r \in Requests, Ask(r)  PROVE IInv'
  BY <1>1 DEF Ask, IInv, Active, Meaningful, Reads
<1>2. CASE Take
  <2>1. PICK length \in Nat : /\ offer = Data(Source[request], moved, length)
                              /\ moved + length <= request.length
                              /\ phase = "dataIn"
    BY <1>2 DEF Take, IInv
  <2>2. offer[4] = length
    BY <2>1, Kinds
  <2> QED BY <1>2, <2>1, <2>2 DEF Take, IInv, Active, Meaningful
<1>3. CASE Send
  <2>1. request \in Requests /\ request.length \in Nat /\ moved < request.length
    BY <1>3 DEF Send, IInv, Active, Meaningful
  <2>2. moved' \in Nat /\ moved' <= request.length
    BY <1>3, <2>1 DEF Send, IInv, Meaningful, Lesser
  <2>3. phase' = "dataOut" => moved' < request.length
    BY <1>3, <2>1, <2>2 DEF Send
  <2>4. phase' \in {"dataOut", "statusIn"} /\ phase = "dataOut"
    BY <1>3 DEF Send
  <2> QED BY <1>3, <2>1, <2>2, <2>3, <2>4 DEF Send, IInv, Active
<1>4. CASE TakeStatus \/ SendStatus \/ TakeRefusal
  BY <1>4 DEF TakeStatus, SendStatus, TakeRefusal, Finish, IInv, Active
<1>5. CASE Reset
  BY <1>5 DEF Reset, IInv, Active
<1> QED BY <1>1, <1>2, <1>3, <1>4, <1>5 DEF Host

LEMMA DeviceStep ==
  ASSUME Meaningful, IInv, Device
  PROVE  IInv'
<1>1. CASE OfferData
  <2>1. request \in Requests /\ phase = "dataIn" /\ Reads(request)
    BY <1>1 DEF OfferData, IInv, Active
  <2>2. PICK extent \in Extents[request] :
          LET left == Lesser(request.length, extent) - moved
          IN  left >= 0 /\ offer' = Data(Source[request], moved, Lesser(Size, left))
    BY <1>1 DEF OfferData
  <2> DEFINE left   == Lesser(request.length, extent) - moved
             length == Lesser(Size, left)
  <2>3. extent \in Nat /\ request.length \in Nat /\ Size \in Nat /\ moved \in Nat
    BY <2>1, <2>2 DEF Meaningful, IInv
  <2>4. length \in Nat /\ moved + length <= request.length
    BY <2>2, <2>3 DEF Lesser
  <2>5. offer' = Data(Source[request], moved, length)
    BY <2>2
  <2> HIDE DEF length
  <2> QED BY <1>1, <2>1, <2>4, <2>5 DEF OfferData, IInv, Active
<1>2. CASE Accept
  BY <1>2 DEF Accept, IInv, Active
<1>3. CASE Refuse
  BY <1>3 DEF Refuse, IInv, Active
<1>4. CASE TakeAddress
  BY <1>4 DEF TakeAddress, IInv, Active
<1> QED BY <1>1, <1>2, <1>3, <1>4 DEF Device

LEMMA Invariance ==
  ASSUME Meaningful
  PROVE  Spec => []IInv
<1>1. Init => IInv
  BY DEF Init, IInv, Active
<1>2. IInv /\ [Next]_vars => IInv'
  <2>1. IInv /\ UNCHANGED vars => IInv'
    BY DEF IInv, vars, Active
  <2> QED BY <2>1, HostStep, DeviceStep DEF Next
<1> QED BY <1>1, <1>2, PTL DEF Spec

\* The bytes of a transfer, and the packet on offer, never exceed what the host
\* asked for, and the packet continues where the last one ended: the bound
\* handleSetupPacket() puts on every answer (src/device.cxx:320).
THEOREM TransfersFit ==
  ASSUME Meaningful
  PROVE  Spec => []WithinRequest
<1>1. IInv => WithinRequest
  <2> SUFFICES ASSUME IInv, offer \notin {Nothing, Refusal, Ack}
               PROVE  /\ phase = "dataIn"
                      /\ offer[2] = Source[request] /\ offer[3] = moved
                      /\ moved + offer[4] <= request.length
    BY DEF IInv, WithinRequest
  <2>1. PICK length \in Nat : /\ offer = Data(Source[request], moved, length)
                              /\ moved + length <= request.length
                              /\ phase = "dataIn"
    BY DEF IInv
  <2> QED BY <2>1, Kinds
<1> QED BY <1>1, Invariance, PTL

===============================================================================
