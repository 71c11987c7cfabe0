------------------------------ MODULE Seasons ------------------------------
(***************************************************************************)
(* FinalizeMatch (src/internal/storage/repositories.go): the transaction   *)
(* that records a match, rolls the season over and updates two ratings.    *)
(*                                                                         *)
(* The transactions of several matches interleave statement by statement   *)
(* under PostgreSQL's READ COMMITTED: a statement sees what is committed   *)
(* when it starts and what its own transaction wrote; FOR UPDATE waits for *)
(* the transaction that has the row and then tests the row again; an       *)
(* insert waits for, or fails on, the same unique key.                     *)
(*                                                                         *)
(* A rating is modelled by the set of the matches that have gone into it,  *)
(* in this season or, through the soft reset, in earlier ones.             *)
(***************************************************************************)
EXTENDS Integers, FiniteSets, Functions

CONSTANTS
    Match,      \* the matches
    PlayersOf,  \* the two players of each
    Duration,   \* ticks a season lasts
    MaxTime     \* bound on the clock

Player == UNION {PlayersOf[m] : m \in Match}

ASSUME SeasonsConstants ==
    /\ Duration \in Nat \ {0}
    /\ MaxTime \in Nat
    /\ \A m \in Match : IsFiniteSet(PlayersOf[m]) /\ Cardinality(PlayersOf[m]) = 2

VARIABLES
    now,         \* the clock
    seasons,     \* the committed seasons, by number
    ratings,     \* the committed ratings of each player, by season
    recordedIn,  \* the season of each recorded match, 0 if it is not recorded
    tx,          \* where the transaction of each match is
    endedAt,     \* when the match ended
    seen,        \* the season row its select found, 0 for none
    row,         \* the season row it has locked, 0 for none
    inserted,    \* the season it has inserted, 0 for none
    old          \* the ratings it has read

db    == <<seasons, ratings, recordedIn>>
txRow == <<seen, row, inserted>>
vars  == <<now, db, tx, endedAt, txRow, old>>

InTransaction == {"select", "lock", "create", "ratings", "write"}
Outcomes      == {"saved", "failed", "lost"}

Init ==
    /\ now = 0
    /\ seasons = <<>>
    /\ ratings = [p \in Player |-> <<>>]
    /\ recordedIn = [m \in Match |-> 0]
    /\ tx = [m \in Match |-> "fighting"]
    /\ endedAt = [m \in Match |-> 0]
    /\ seen = [m \in Match |-> 0]
    /\ row = [m \in Match |-> 0]
    /\ inserted = [m \in Match |-> 0]
    /\ old = [m \in Match |-> [p \in PlayersOf[m] |-> {}]]

Goto(m, from, to) == tx[m] = from /\ tx' = [tx EXCEPT ![m] = to]

ActiveSeasons == {n \in DOMAIN seasons : seasons[n].active}
LatestOf(S)   == CHOOSE n \in S : \A k \in S : k <= n

----------------------------------------------------------------------------
\* The match is over.  Its players stay busy until it is finalized, so no two
\* transactions at a time have a player in common (Matchmaking!HeldOnce).
Begin(m) ==
    /\ Goto(m, "fighting", "select")
    /\ \A k \in Match \ {m} : tx[k] \in InTransaction => PlayersOf[k] \cap PlayersOf[m] = {}
    /\ endedAt' = [endedAt EXCEPT ![m] = now]
    /\ UNCHANGED <<now, db, txRow, old>>

\* getActiveSeasonForUpdate: the row that is active when the statement starts.
SelectSeason(m) ==
    /\ Goto(m, "select", IF ActiveSeasons = {} THEN "create" ELSE "lock")
    /\ seen' = [seen EXCEPT ![m] = IF ActiveSeasons = {} THEN 0 ELSE LatestOf(ActiveSeasons)]
    /\ UNCHANGED <<now, db, endedAt, row, inserted, old>>

\* Fault: the season is compared with the clock instead of the end of the match.
ExpiredByNow(m, n) == now >= seasons[n].ends

Expired(m, n) == endedAt[m] >= seasons[n].ends

\* Fault: the row that was waited for is used as it was.
LockStale(m) ==
    /\ \A k \in Match \ {m} : row[k] # seen[m]
    /\ Goto(m, "lock", IF Expired(m, seen[m]) THEN "create" ELSE "ratings")
    /\ row' = [row EXCEPT ![m] = seen[m]]
    /\ UNCHANGED <<now, db, endedAt, seen, inserted, old>>

\* FOR UPDATE: once the row is free it is tested again.  If it has been closed
\* meanwhile the select returns no row at all.
LockSeason(m) ==
    /\ \A k \in Match \ {m} : row[k] # seen[m]
    /\ IF seasons[seen[m]].active
       THEN /\ Goto(m, "lock", IF Expired(m, seen[m]) THEN "create" ELSE "ratings")
            /\ row' = [row EXCEPT ![m] = seen[m]]
       ELSE Goto(m, "lock", "create") /\ UNCHANGED row
    /\ UNCHANGED <<now, db, endedAt, seen, inserted, old>>

\* Fault: the number of the expired season is used again.
SameNumber(m) == row[m]

\* createNextSeasonTx: the season after the expired one, or number 1.
NextNumber(m) == row[m] + 1

\* The unique indexes on the number and on the one active season.
Duplicate(m) == NextNumber(m) \in DOMAIN seasons \/ ActiveSeasons \ {row[m]} # {}

CreateSeason(m) ==
    /\ ~Duplicate(m)
    /\ \A k \in Match : inserted[k] = 0
    /\ Goto(m, "create", "ratings")
    /\ inserted' = [inserted EXCEPT ![m] = NextNumber(m)]
    /\ UNCHANGED <<now, db, endedAt, seen, row, old>>

\* The season the transaction works in.
SeasonOf(m) == IF inserted[m] # 0 THEN inserted[m] ELSE row[m]

\* Fault: a new season starts everybody from the default rating.
RatingWithoutCarry(p, n) == IF n \in DOMAIN ratings[p] THEN ratings[p][n] ELSE {}

\* getOrCreateRatingTx: this season's rating, or the reset of the latest before.
RatingOf(p, n) ==
    LET before == {k \in DOMAIN ratings[p] : k < n}
    IN  CASE n \in DOMAIN ratings[p] -> ratings[p][n]
          [] n \notin DOMAIN ratings[p] /\ before # {} -> ratings[p][LatestOf(before)]
          [] OTHER -> {}

ReadRatings(m) ==
    /\ Goto(m, "ratings", "write")
    /\ old' = [old EXCEPT ![m] = [p \in PlayersOf[m] |-> RatingOf(p, SeasonOf(m))]]
    /\ UNCHANGED <<now, db, endedAt, txRow>>

\* Fault: the new season starts when it is created.
StartsNow(m) == endedAt[m]

\* A season follows the one before it without a gap.
StartsAt(m) == IF row[m] = 0 THEN endedAt[m] ELSE seasons[row[m]].ends

Opened(m) == [starts |-> StartsAt(m), ends |-> StartsAt(m) + Duration, active |-> TRUE]

SeasonsWith(m) ==
    [n \in DOMAIN seasons \cup {SeasonOf(m)} |->
        IF n = inserted[m] THEN Opened(m)
        ELSE IF n = row[m] /\ inserted[m] # 0 THEN [seasons[n] EXCEPT !.active = FALSE]
        ELSE seasons[n]]

Updated(m, p) ==
    [n \in DOMAIN ratings[p] \cup {SeasonOf(m)} |->
        IF n = SeasonOf(m) THEN old[m][p] \cup {m} ELSE ratings[p][n]]

\* Fault: the row lock outlives a transaction that failed.
Unlocked(m) == UNCHANGED txRow

Released(m) ==
    /\ row' = [row EXCEPT ![m] = 0]
    /\ inserted' = [inserted EXCEPT ![m] = 0]
    /\ UNCHANGED seen

\* The match, its two results and both ratings become visible at once.  The
\* caller may not hear of it.
Commit(m) ==
    /\ Goto(m, "write", "saved") \/ Goto(m, "write", "lost")
    /\ seasons' = SeasonsWith(m)
    /\ recordedIn' = [recordedIn EXCEPT ![m] = SeasonOf(m)]
    /\ ratings' = [p \in Player |-> IF p \in PlayersOf[m] THEN Updated(m, p) ELSE ratings[p]]
    /\ Released(m)
    /\ UNCHANGED <<now, endedAt, old>>

\* A unique violation: the deferred Rollback, and a warning to the players.
Fail(m) ==
    /\ Goto(m, "create", "failed")
    /\ Duplicate(m)
    /\ Released(m)
    /\ UNCHANGED <<now, db, endedAt, old>>

\* Cancelled, or the connection or the server is gone: rolled back.
Abort(m) ==
    /\ tx[m] \in InTransaction
    /\ Goto(m, tx[m], "lost")
    /\ Released(m)
    /\ UNCHANGED <<now, db, endedAt, old>>

Tick ==
    /\ now < MaxTime
    /\ now' = now + 1
    /\ UNCHANGED <<db, tx, endedAt, txRow, old>>

Statement(m) ==
    \/ SelectSeason(m) \/ LockSeason(m) \/ CreateSeason(m) \/ Fail(m)
    \/ ReadRatings(m) \/ Commit(m)

Next ==
    \/ \E m \in Match : Begin(m) \/ Statement(m) \/ Abort(m)
    \/ Tick

\* A transaction whose statement is not waiting for another one goes on.
Fairness == \A m \in Match : WF_vars(Statement(m))

Spec == Init /\ [][Next]_vars /\ Fairness

----------------------------------------------------------------------------
TypeOK ==
    /\ now \in 0..MaxTime
    /\ IsFiniteSet(DOMAIN seasons) /\ DOMAIN seasons \subseteq Nat \ {0}
    /\ \A n \in DOMAIN seasons : seasons[n] \in [starts : Nat, ends : Nat, active : BOOLEAN]
    /\ DOMAIN ratings = Player
    /\ \A p \in Player : /\ DOMAIN ratings[p] \subseteq DOMAIN seasons
                         /\ \A n \in DOMAIN ratings[p] : ratings[p][n] \subseteq Match
    /\ recordedIn \in [Match -> Nat]
    /\ tx \in [Match -> {"fighting"} \cup InTransaction \cup Outcomes]
    /\ endedAt \in [Match -> 0..MaxTime]
    /\ seen \in [Match -> Nat] /\ row \in [Match -> Nat] /\ inserted \in [Match -> Nat]
    /\ DOMAIN old = Match /\ \A m \in Match : old[m] \in [PlayersOf[m] -> SUBSET Match]

\* The seasons are numbered from 1, each begins where the one before it ended, and
\* once there is one, exactly the last is active, whatever transactions fail or
\* die on the way (ensureActiveSeasonTx, createNextSeasonTx).
SeasonsInSequence ==
    /\ DOMAIN seasons = 1..Cardinality(DOMAIN seasons)
    /\ \A n \in DOMAIN seasons :
        /\ seasons[n].active <=> n = Cardinality(DOMAIN seasons)
        /\ n > 1 => seasons[n].starts = seasons[n - 1].ends

\* A rating contains exactly the player's recorded matches of its season and of the
\* earlier ones: none is lost, none is counted that is not recorded, and the soft
\* reset started from a final rating (getOrCreateRatingTx, upsertRatingTx).
RatingsComplete ==
    \A p \in Player :
        LET played == {m \in Match : p \in PlayersOf[m] /\ recordedIn[m] # 0}
        IN  /\ DOMAIN ratings[p] = {recordedIn[m] : m \in played}
            /\ \A n \in DOMAIN ratings[p] :
                    ratings[p][n] = {m \in played : recordedIn[m] <= n}

\* A season that has been closed is final: no match is recorded in it any more.
ClosedSeasonsAreFinal ==
    [][\A m \in Match :
        recordedIn'[m] # recordedIn[m] => seasons'[recordedIn'[m]].active]_vars

\* What Ledger sees of the transactions.
NotEnded == -1
endOf == [m \in Match |-> IF tx[m] = "fighting" THEN NotEnded ELSE endedAt[m]]
Atomic == INSTANCE Ledger WITH Time <- 0..MaxTime, NotEnded <- NotEnded, endedAt <- endOf

\* Whatever statements of other transactions come between its own, a transaction that
\* commits has the effect of recording its match at once: the season is the one the end
\* of the match decides, and nothing of what was read is stale (FinalizeMatch).
RecordsAtomically == Atomic!Spec

\* m waits for a row or a key of k.
Blocks(k, m) ==
    \/ tx[m] = "lock" /\ k # m /\ row[k] = seen[m]
    \/ tx[m] = "create" /\ ~Duplicate(m) /\ inserted[k] # 0

\* Nobody whose row or key another transaction waits for waits himself, and he is still
\* in his transaction: PostgreSQL finds no deadlock to break (FinalizeMatch).
HoldersNeverWait ==
    \A j, k \in Match : Blocks(j, k) =>
        tx[j] \in InTransaction /\ \A m \in Match : ~Blocks(m, j)

\* At most one transaction is past the choice of its season: this is what lets it
\* read two ratings and write them later without looking again.
OneWriter ==
    \A j, k \in Match :
        (tx[j] \in {"ratings", "write"} /\ tx[k] \in {"ratings", "write"}) => j = k

\* Every transaction ends: none waits for ever for a row or a key of another.
FinalizeEnds ==
    \A m \in Match : tx[m] \in InTransaction ~> tx[m] \in Outcomes

\* docs/m2-ranking-storage.md: "Update cadence: one update per finished match."
\* A match whose transaction was neither cancelled nor cut off is recorded.
FinishedIsRecorded == \A m \in Match : tx[m] # "failed"
============================================================================
