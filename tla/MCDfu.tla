-------------------------------- MODULE MCDfu --------------------------------
(***************************************************************************)
(* Values for TLC: two zones inside a larger Flash, one of one erase       *)
(* sector and, right behind it, one of two.  A block is up to two units,   *)
(* received and written a unit at a time, and an erase sector is two:      *)
(* every block takes two packets and two writes.  A host that does as it   *)
(* likes loads the small zone, one that follows the protocol the large.    *)
(***************************************************************************)
EXTENDS Dfu

MCZones ==
  [z \in {0, 1} |->
    IF z = 0 THEN [start |-> 1, end |-> 3] ELSE [start |-> 3, end |-> 7]]

AnyHost  == [polite |-> FALSE, abandons |-> TRUE, zones |-> {0}, image |-> 2]
GoodHost == [polite |-> TRUE, abandons |-> FALSE, zones |-> {1}, image |-> 4]
MCManners == {AnyHost, GoodHost}
=============================================================================
