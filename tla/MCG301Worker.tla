---------------------------- MODULE MCG301Worker ----------------------------
(***************************************************************************)
(* Instances of G301Worker for TLC.  Room 101 gets three versions: heating,*)
(* a switch-off sent twice with different payloads, and a temperature its  *)
(* device refuses.  Room 102 shares the bus; its device prohibits heating.  *)
(***************************************************************************)
EXTENDS G301Worker

Heat(r, v, target) ==
  [room |-> r, version |-> v, enabled |-> TRUE, mode |-> "heat", target |-> target]
Off(r, v) ==
  [room |-> r, version |-> v, enabled |-> FALSE, mode |-> "off", target |-> Null]

MCSeries == {Heat("101", 1, 2225), Heat("101", 2, 2000), Off("101", 2), Heat("101", 3, 3150)}
MCPair == {Heat("101", 1, 2225), Off("102", 1), Heat("102", 2, 2000)}
MCOne == {Heat("101", 1, 2225)}

MCLimitation == [r \in Rooms |-> IF r = "102" THEN "heat" ELSE "none"]
MCLower == [r \in Rooms |-> 16]
MCUpper == [r \in Rooms |-> 30]

=============================================================================
