----------------------------- MODULE StaleTable -----------------------------
(***************************************************************************)
(* MultiPart with the one request it leaves out: a read that is answered   *)
(* from one object, made when the host has given up the read of a table.   *)
(* handleSetupPacket() does not clear isMultiPart, so the answer goes      *)
(* through the loop over the parts of that table, with memBuffer in other  *)
(* memory.                                                                 *)
(*                                                                         *)
(* The loop copies what memBuffer points to, which is the answer; but how  *)
(* much it copies is the length of the old table's part, less the distance *)
(* from that part to the answer.                                           *)
(***************************************************************************)
EXTENDS MultiPart

CONSTANTS
  Gaps,    \* how far the answer lies from the part reached
  Sizes    \* the answers' lengths, as cut by wLength

\* handleSetupPacket() with an answer of "size" bytes in memory.  The pointer is
\* written as the part reached and a distance from its beginning, which is all
\* that the loop makes of it.  The ATxmega takes that distance as a uint8_t and
\* has Flash and SRAM apart: its loop is not followed here.
HandleAnswer(gap, size) ==
  /\ pc = "idle" /\ ep.isMultiPart
  /\ chip # "atxmega256a3u"
  /\ pc' = "write"
  /\ ep' = [ep EXCEPT !.transferCount = size,
                      !.memBuffer = [part |-> ep.partNumber + 1, off |-> gap]]
  /\ asked' = size /\ sent' = <<>>
  /\ UNCHANGED <<chip, writer>>

NextStale ==
  Next \/ \E gap \in Gaps, size \in Sizes : HandleAnswer(gap, size)

\* The handler runs: each step of writeEP() is taken once it is due.
RunsOn == WriteEP \/ Stm32f1Turn \/ Tm4cTurn \/ EndPacket

StaleSpec == Init /\ [][NextStale]_vars /\ WF_vars(RunsOn)

\* A packet that writeEP() begins is handed over, and the interrupt returns:
\* the loop runs "while we have buffer left to fill in the endpoint"
\* (src/stm32f1/core.cxx:280).
WritesEnd == pc = "loop" ~> pc = "idle"

=============================================================================
