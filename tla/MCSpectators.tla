---------------------------- MODULE MCSpectators ----------------------------
(***************************************************************************)
(* Spectators for TLC: two matches one after the other of player a, the    *)
(* second against somebody else, and more watchers than one match takes.   *)
(***************************************************************************)
EXTENDS Spectators, TLC

CONSTANTS m1, m2, a, b, c

AFightsTwice == (m1 :> {a, b}) @@ (m2 :> {a, c})
Lower == [h \in {a, b, c} |-> h]
============================================================================
