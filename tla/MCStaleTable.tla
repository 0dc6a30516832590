---------------------------- MODULE MCStaleTable ----------------------------
(* A configuration of two parts, of 9 bytes each. *)
EXTENDS StaleTable

MCTable == {<<9, 9>>}
=============================================================================
