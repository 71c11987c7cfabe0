-------------------------------- MODULE Ledger --------------------------------
(***************************************************************************)
(* What recording promises: a match that has ended is recorded at one blow *)
(* or not at all.  The time of its end decides the season, an expired      *)
(* season gives way to the next one in the same step, and both players'    *)
(* ratings take in all that was recorded of them and this match.           *)
(***************************************************************************)
EXTENDS Integers

CONSTANTS Match, PlayersOf, Duration, Time, NotEnded

VARIABLES
    endedAt,    \* when each match ended, NotEnded before
    seasons,    \* the seasons, by number; the last one is active
    ratings,    \* the matches in each player's rating, by season
    recordedIn  \* the season of each recorded match, 0 before

vars == <<endedAt, seasons, ratings, recordedIn>>

Player == UNION {PlayersOf[m] : m \in Match}

Init ==
    /\ endedAt = [m \in Match |-> NotEnded]
    /\ seasons = <<>>
    /\ ratings = [p \in Player |-> <<>>]
    /\ recordedIn = [m \in Match |-> 0]

\* The active season, 0 before the first.
Current ==
    IF DOMAIN seasons = {} THEN 0
    ELSE CHOOSE n \in DOMAIN seasons : \A k \in DOMAIN seasons : k <= n

RollsOver(m) == Current = 0 \/ endedAt[m] >= seasons[Current].ends
GoesInto(m)  == IF RollsOver(m) THEN Current + 1 ELSE Current
Opening(m)   == IF Current = 0 THEN endedAt[m] ELSE seasons[Current].ends

Recorded(p) == {m \in Match : p \in PlayersOf[m] /\ recordedIn[m] # 0}

End(m) ==
    /\ endedAt[m] = NotEnded
    /\ \E t \in Time : endedAt' = [endedAt EXCEPT ![m] = t]
    /\ UNCHANGED <<seasons, ratings, recordedIn>>

RollOver(m) ==
    [n \in 1..(Current + 1) |->
        IF n = Current + 1
        THEN [starts |-> Opening(m), ends |-> Opening(m) + Duration, active |-> TRUE]
        ELSE [seasons[n] EXCEPT !.active = FALSE]]

Rated(p, m) ==
    [n \in DOMAIN ratings[p] \cup {GoesInto(m)} |->
        IF n = GoesInto(m) THEN Recorded(p) \cup {m} ELSE ratings[p][n]]

Record(m) ==
    /\ endedAt[m] # NotEnded /\ recordedIn[m] = 0
    /\ recordedIn' = [recordedIn EXCEPT ![m] = GoesInto(m)]
    /\ seasons' = IF RollsOver(m) THEN RollOver(m) ELSE seasons
    /\ ratings' = [p \in Player |-> IF p \in PlayersOf[m] THEN Rated(p, m) ELSE ratings[p]]
    /\ UNCHANGED endedAt

Next == \E m \in Match : End(m) \/ Record(m)

Spec == Init /\ [][Next]_vars
============================================================================
