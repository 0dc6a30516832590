----------------------------- MODULE MCMultiPart -----------------------------
(***************************************************************************)
(* Values for TLC: strings from the empty one to one of three packets, and *)
(* configurations, whose first descriptor is 9 bytes, with every choice of *)
(* up to three more of the lengths 5, 7 and 9, which leave each remainder  *)
(* in a word.  The host may cut them anywhere.                             *)
(***************************************************************************)
EXTENDS MultiPart

MCTables ==
  {StringTable(c) : c \in {0, 1, 3, 4, 9}}
    \cup {<<9>> \o t : t \in BoundedSeq({5, 7, 9}, 3)}
=============================================================================
