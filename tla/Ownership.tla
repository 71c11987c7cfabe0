----------------------------- MODULE Ownership -----------------------------
(***************************************************************************)
(* What the matchmaker promises about players: whoever holds a player (the *)
(* queue loop, a shell about to start a practice match, a running match)   *)
(* holds him alone, may hand what it holds to one other holder that holds  *)
(* nothing, and gives it back whole.                                       *)
(***************************************************************************)
CONSTANTS Holder, Player

VARIABLE held      \* held[h]: the players holder h has

Free == Player \ UNION {held[h] : h \in Holder}

Init == held = [h \in Holder |-> {}]

Take(h, S) ==
    /\ held[h] = {}
    /\ S # {} /\ S \subseteq Free
    /\ held' = [held EXCEPT ![h] = S]

Hand(h, k) ==
    /\ h # k /\ held[h] # {} /\ held[k] = {}
    /\ held' = [held EXCEPT ![h] = {}, ![k] = held[h]]

GiveBack(h) ==
    /\ held[h] # {}
    /\ held' = [held EXCEPT ![h] = {}]

Next ==
    \/ \E h \in Holder, S \in SUBSET Player : Take(h, S)
    \/ \E h, k \in Holder : Hand(h, k)
    \/ \E h \in Holder : GiveBack(h)

Spec == Init /\ [][Next]_held
============================================================================
