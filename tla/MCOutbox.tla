------------------------------ MODULE MCOutbox ------------------------------
(* Instances of Outbox for TLC: two rows on one retained topic, a third   *)
(* row on another.                                                          *)
EXTENDS Outbox

MCTopic == [i \in Ids |-> IF i = 3 THEN "intent" ELSE "control"]
MCOneTopic == [i \in Ids |-> "control"]

=============================================================================
