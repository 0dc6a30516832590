---------------------------- MODULE MCAtxmega256 -----------------------------
(* Atxmega256 with the values of MCRequests. *)
EXTENDS Atxmega256, MCRequests
==============================================================================
