---------------------------- MODULE LatestOrder ----------------------------
(***************************************************************************)
(* What the entrance worker promises the subscriber that hands it intents, *)
(* in any order and any number of times.  A room takes only a newer order  *)
(* than the one it has.  Its device is touched only for that order, and    *)
(* only while the order is open.  An order ends once; it ends as applied   *)
(* only when the device meets it, and a new answer "applied" is given only *)
(* for the order a room has, after it has ended so.                        *)
(***************************************************************************)
EXTENDS Naturals

CONSTANTS
  Rooms,
  Orders,        \* records with a room and a version
  States,        \* of a device
  None,
  Meets(_, _)    \* whether a device in a state does what an order says

VARIABLES
  order,      \* room -> its order, or None
  outcome,    \* room -> none, open, applied or ended
  device,     \* room -> the state of its device
  answer      \* the last answer: [order, applied], or None

roomVars == <<order, outcome, device>>
orderVars == <<roomVars, answer>>

Init ==
  /\ order = [r \in Rooms |-> None]
  /\ outcome = [r \in Rooms |-> "none"]
  /\ device \in [Rooms -> States]
  /\ answer = None

\* An order may be refused as it comes in, but is not applied without work.
Take(i) ==
  /\ order[i.room] # None => order[i.room].version < i.version
  /\ order' = [order EXCEPT ![i.room] = i]
  /\ \E o \in {"open", "ended"} : outcome' = [outcome EXCEPT ![i.room] = o]
  /\ UNCHANGED device

Work(r) ==
  /\ outcome[r] = "open"
  /\ device' \in [Rooms -> States]
  /\ \A s \in Rooms \ {r} : device'[s] = device[s]
  /\ \E o \in {"open", "applied", "ended"} :
       /\ o = "applied" => Meets(order[r], device'[r])
       /\ outcome' = [outcome EXCEPT ![r] = o]
  /\ UNCHANGED order

Answer ==
  answer' # answer /\ answer'.applied =>
    /\ order'[answer'.order.room] = answer'.order
    /\ outcome'[answer'.order.room] = "applied"

Next ==
  /\ (\E i \in Orders : Take(i)) \/ (\E r \in Rooms : Work(r)) \/ UNCHANGED roomVars
  /\ Answer

Spec == Init /\ [][Next]_orderVars

=============================================================================
