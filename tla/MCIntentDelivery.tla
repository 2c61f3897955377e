-------------------------- MODULE MCIntentDelivery --------------------------
(* An instance of IntentDelivery for TLC: every row is an intent of the     *)
(* one room.                                                                *)
EXTENDS IntentDelivery

MCIntentsOnly == [i \in Ids |-> Room]

=============================================================================
