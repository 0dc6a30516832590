------------------------------ MODULE MCTm4c123 ------------------------------
(* Tm4c123 with the values of MCRequests. *)
EXTENDS Tm4c123, MCRequests
==============================================================================
