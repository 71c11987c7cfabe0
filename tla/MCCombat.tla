------------------------------ MODULE MCCombat ------------------------------
(***************************************************************************)
(* Combat for TLC: a balanced fighter against a high flyer with little of  *)
(* everything, so that three turns reach a knockout, a submission, an      *)
(* empty tank and a full one.                                              *)
(***************************************************************************)
EXTENDS Combat

FightersStats ==
    [alice |-> [power |-> 6, technique |-> 6, agility |-> 6, endurance |-> 6],
     bob   |-> [power |-> 4, technique |-> 6, agility |-> 9, endurance |-> 5]]

SomeMoves ==
    {[action |-> "none", zone |-> "torso"], [action |-> "strike", zone |-> "torso"],
     [action |-> "grapple", zone |-> "legs"], [action |-> "feint", zone |-> "head"],
     [action |-> "break", zone |-> "head"], [action |-> "block", zone |-> "head"]}
=============================================================================
