------------------------------ MODULE Takeover ------------------------------
(***************************************************************************)
(* A match as its two players are promised it: turn by turn, each slot is  *)
(* played by the player, by nobody or by the NPC.  The NPC keeps what it   *)
(* has; a player who plays loses his slot only by leaving, and one who has *)
(* missed a turn by missing another.  The match goes on until it is        *)
(* decided, out of turns or stopped.                                       *)
(***************************************************************************)
EXTENDS Integers, Sequences

CONSTANTS Slot, MaxTurns

VARIABLES
    coached,   \* the slots that are the NPC's from the start
    gone,      \* the players who have left
    stopping,  \* the server is being stopped
    decided,   \* the fight has an outcome
    log,       \* who played each slot, turn by turn
    over       \* no more turns

vars == <<coached, gone, stopping, decided, log, over>>

Init ==
    /\ coached \in {{}, {2}}
    /\ gone = {}
    /\ stopping = FALSE
    /\ decided = FALSE
    /\ log = <<>>
    /\ over = FALSE

Leave(i) ==
    /\ gone' = gone \cup {i}
    /\ UNCHANGED <<coached, stopping, decided, log, over>>

Stop ==
    /\ stopping' = TRUE
    /\ UNCHANGED <<coached, gone, decided, log, over>>

\* Who played a slot last.
Last(i) ==
    IF log = <<>> THEN IF i \in coached THEN "npc" ELSE "player"
    ELSE log[Len(log)][i]

MayPlay(i, who) ==
    \/ who = "npc" /\ (Last(i) # "player" \/ i \in gone)
    \/ who = "player" /\ Last(i) # "npc"
    \/ who = "none" /\ Last(i) = "player"

Turn ==
    /\ ~over /\ ~decided /\ Len(log) < MaxTurns
    /\ \E played \in [Slot -> {"player", "none", "npc"}] :
          /\ \A i \in Slot : MayPlay(i, played[i])
          /\ log' = Append(log, played)
    /\ decided' \in BOOLEAN
    /\ UNCHANGED <<coached, gone, stopping, over>>

End ==
    /\ ~over
    /\ decided \/ Len(log) = MaxTurns \/ stopping
    /\ over' = TRUE
    /\ UNCHANGED <<coached, gone, stopping, decided, log>>

Next ==
    \/ \E i \in Slot : Leave(i)
    \/ Stop \/ Turn \/ End

Spec == Init /\ [][Next]_vars
=============================================================================
