------------------------------- MODULE Mirror -------------------------------
(***************************************************************************)
(* What the incremental poll promises: a copy of a source that changes     *)
(* under it.  An update of a key gives it the next version; a pull brings  *)
(* any keys of the copy forward, in one step, to versions the source has   *)
(* had.  The copy holds nothing the source never showed and never goes     *)
(* back; nothing but a pull changes it.                                    *)
(***************************************************************************)
EXTENDS Naturals

CONSTANT Keys

VARIABLES
  source,     \* key -> the version the source shows, from 1
  copy        \* key -> the version copied, 0 if none

mirrorVars == <<source, copy>>

Init ==
  /\ source \in [Keys -> Nat \ {0}]
  /\ copy = [k \in Keys |-> 0]

Update == \E k \in Keys :
  /\ source' = [source EXCEPT ![k] = @ + 1]
  /\ UNCHANGED copy

Pull ==
  /\ copy' \in [Keys -> Nat]
  /\ \A k \in Keys : copy[k] <= copy'[k] /\ copy'[k] <= source[k]
  /\ UNCHANGED source

Next == Update \/ Pull

Spec == Init /\ [][Next]_mirrorVars

=============================================================================
