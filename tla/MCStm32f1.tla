------------------------------ MODULE MCStm32f1 ------------------------------
(* Stm32f1 with the values of MCRequests. *)
EXTENDS Stm32f1, MCRequests
==============================================================================
