---------------------------- MODULE AtLeastOnce ----------------------------
(***************************************************************************)
(* What the transactional outbox promises its callers: an enqueued message *)
(* is delivered to the broker at least once before it counts as done; it   *)
(* may be parked without having been delivered, and taken up again; done   *)
(* is final.  Duplicates and late deliveries are allowed.                  *)
(***************************************************************************)
CONSTANT Ids

VARIABLES
  state,       \* Ids -> absent, open, done or parked
  delivered    \* the messages the broker received at least once

alVars == <<state, delivered>>

Init ==
  /\ state = [i \in Ids |-> "absent"]
  /\ delivered = {}

Move(S, from, to) ==
  /\ \A i \in S : state[i] = from
  /\ state' = [i \in Ids |-> IF i \in S THEN to ELSE state[i]]

Enqueue == \E S \in SUBSET Ids : Move(S, "absent", "open") /\ UNCHANGED delivered

Deliver == \E i \in Ids :
  /\ state[i] # "absent"
  /\ delivered' = delivered \cup {i}
  /\ UNCHANGED state

\* A batch of results: some messages are done, some are parked.
Resolve == \E D, P \in SUBSET {i \in Ids : state[i] = "open"} :
  /\ D \subseteq delivered
  /\ D \cap P = {}
  /\ state' = [i \in Ids |-> IF i \in D THEN "done"
                             ELSE IF i \in P THEN "parked" ELSE state[i]]
  /\ UNCHANGED delivered

Unpark == \E S \in SUBSET Ids : Move(S, "parked", "open") /\ UNCHANGED delivered

Next == Enqueue \/ Deliver \/ Resolve \/ Unpark

Spec == Init /\ [][Next]_alVars

=============================================================================
