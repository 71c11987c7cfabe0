---------------------------- MODULE SeasonsProofs ----------------------------
(***************************************************************************)
(* What the transactions that record matches keep in the database, for any *)
(* number of them, any players, any length of a season and any interleaving*)
(* of their statements, whichever of them fail or die.                     *)
(***************************************************************************)
EXTENDS Seasons, FiniteSetTheorems, TLAPS

----------------------------------------------------------------------------
(* Which transaction may do what to the seasons.                            *)

\* The number of the last season, 0 while there is none.
Last == Cardinality(DOMAIN seasons)

SeasonRow == [starts : Nat, ends : Nat, active : BOOLEAN]

\* Only the active season is ever locked, by one transaction; only the season after
\* it is ever inserted, by the one that has it or, before the first, by one; and who
\* has chosen his season has one of the two.
LockInv ==
    /\ \A m \in Match : tx[m] = "lock" => seen[m] \in DOMAIN seasons
    /\ \A m \in Match : row[m] # 0 => tx[m] \in {"create", "ratings", "write"} /\ row[m] = Last
    /\ \A j, k \in Match : row[j] # 0 /\ row[k] # 0 => j = k
    /\ \A m \in Match :
          inserted[m] # 0 => tx[m] \in {"ratings", "write"} /\ inserted[m] = Last + 1 /\ row[m] = Last
    /\ \A j, k \in Match : inserted[j] # 0 /\ inserted[k] # 0 => j = k
    /\ \A m \in Match : tx[m] \in {"ratings", "write"} => row[m] # 0 \/ inserted[m] # 0

\* Among the seasons a player is rated in there is a latest one.
HaveLatest ==
    \A p \in Player :
        DOMAIN ratings[p] # {} => \E n \in DOMAIN ratings[p] : \A k \in DOMAIN ratings[p] : k <= n

SeasonsInv == TypeOK /\ SeasonsInSequence /\ LockInv /\ HaveLatest

LEMMA LastProperties ==
    ASSUME TypeOK, SeasonsInSequence
    PROVE  /\ Last \in Nat /\ DOMAIN seasons = 1..Last
           /\ \A n \in 1..Last : seasons[n] \in SeasonRow /\ (seasons[n].active <=> n = Last)
           /\ \A n \in 1..Last : n > 1 => seasons[n].starts = seasons[n - 1].ends
           /\ ActiveSeasons = IF Last = 0 THEN {} ELSE {Last}
<1>1. Last \in Nat
  BY FS_CardinalityType DEF TypeOK, Last
<1>2. /\ DOMAIN seasons = 1..Last
      /\ \A n \in 1..Last : seasons[n] \in SeasonRow /\ (seasons[n].active <=> n = Last)
      /\ \A n \in 1..Last : n > 1 => seasons[n].starts = seasons[n - 1].ends
  BY DEF TypeOK, SeasonsInSequence, Last, SeasonRow
<1>3. ActiveSeasons = IF Last = 0 THEN {} ELSE {Last}
  BY <1>1, <1>2 DEF ActiveSeasons
<1>4. QED
  BY <1>1, <1>2, <1>3

\* Two transactions that both have a season would both have the active one, or
\* both have inserted the first.
LEMMA AtMostOne ==
    ASSUME SeasonsInv
    PROVE  OneWriter
<1>1. Last \in Nat
  BY LastProperties DEF SeasonsInv
<1>2. SUFFICES ASSUME NEW j \in Match, NEW k \in Match,
                      tx[j] \in {"ratings", "write"}, tx[k] \in {"ratings", "write"}
               PROVE  j = k
  BY DEF OneWriter
<1>3. (row[j] # 0 \/ inserted[j] # 0) /\ (row[k] # 0 \/ inserted[k] # 0)
  BY <1>2 DEF SeasonsInv, LockInv
<1>4. CASE row[j] # 0 /\ row[k] # 0
  BY <1>4 DEF SeasonsInv, LockInv
<1>5. CASE inserted[j] # 0 /\ inserted[k] # 0
  BY <1>5 DEF SeasonsInv, LockInv
<1>6. CASE row[j] # 0 /\ inserted[k] # 0
  BY <1>4, <1>6 DEF SeasonsInv, LockInv
<1>7. CASE row[k] # 0 /\ inserted[j] # 0
  BY <1>4, <1>7 DEF SeasonsInv, LockInv
<1>8. QED
  BY <1>3, <1>4, <1>5, <1>6, <1>7

\* A transaction that has its season works in the last one, or in the one after it,
\* which it has inserted.
LEMMA WorksInTheLast ==
    ASSUME SeasonsInv, NEW m \in Match, tx[m] \in {"ratings", "write"}
    PROVE  /\ SeasonOf(m) \in Nat \ {0}
           /\ inserted[m] = 0 => SeasonOf(m) = Last /\ SeasonOf(m) \in DOMAIN seasons
           /\ inserted[m] # 0 => SeasonOf(m) = Last + 1 /\ row[m] = Last
           /\ \A n \in DOMAIN seasons : n <= SeasonOf(m)
           /\ \A k \in Match \ {m} : row[k] = 0 /\ inserted[k] = 0
<1>1. Last \in Nat /\ DOMAIN seasons = 1..Last /\ row[m] \in Nat
  BY LastProperties DEF SeasonsInv, TypeOK
<1>2. row[m] # 0 \/ inserted[m] # 0
  BY DEF SeasonsInv, LockInv
<1>3. /\ inserted[m] = 0 => SeasonOf(m) = Last /\ SeasonOf(m) # 0
      /\ inserted[m] # 0 => SeasonOf(m) = Last + 1 /\ row[m] = Last
  BY <1>1, <1>2 DEF SeasonsInv, LockInv, SeasonOf
<1>4. ASSUME NEW k \in Match \ {m}
      PROVE  row[k] = 0 /\ inserted[k] = 0
  <2>1. inserted[k] # 0 => k = m
    BY AtMostOne DEF OneWriter, SeasonsInv, LockInv
  <2>2. row[k] # 0 => row[k] = Last /\ Last # 0
    BY DEF SeasonsInv, LockInv
  <2>3. row[m] = 0 => Last = 0
    BY <1>2 DEF SeasonsInv, LockInv
  <2>4. row[k] # 0 => k = m
    BY <2>2, <2>3 DEF SeasonsInv, LockInv
  <2>5. QED
    BY <2>1, <2>4
<1>5. QED
  BY <1>1, <1>3, <1>4

----------------------------------------------------------------------------
(* The steps that leave the database alone.                                 *)

States == {"fighting"} \cup InTransaction \cup Outcomes

\* What a transaction may do to the locks it has.
LEMMA LocksMove ==
    ASSUME SeasonsInv, NEW m \in Match, UNCHANGED <<now, db, endedAt, old>>,
           tx' \in [Match -> States], seen' \in [Match -> Nat],
           row' \in [Match -> Nat], inserted' \in [Match -> Nat],
           \A k \in Match \ {m} :
               tx'[k] = tx[k] /\ seen'[k] = seen[k] /\ row'[k] = row[k] /\ inserted'[k] = inserted[k],
           tx'[m] = "lock" => seen'[m] \in DOMAIN seasons,
           row'[m] # 0 => /\ tx'[m] \in {"create", "ratings", "write"} /\ row'[m] = Last
                          /\ \A k \in Match \ {m} : row[k] = 0,
           inserted'[m] # 0 => /\ tx'[m] \in {"ratings", "write"}
                               /\ inserted'[m] = Last + 1 /\ row'[m] = Last
                               /\ \A k \in Match \ {m} : inserted[k] = 0,
           tx'[m] \in {"ratings", "write"} => row'[m] # 0 \/ inserted'[m] # 0
    PROVE  SeasonsInv'
<1>1. TypeOK'
  BY DEF SeasonsInv, TypeOK, States, db
<1>2. SeasonsInSequence' /\ Last' = Last /\ HaveLatest'
  BY DEF SeasonsInv, SeasonsInSequence, Last, HaveLatest, db
<1>3. LockInv'
  BY <1>2 DEF SeasonsInv, LockInv, db
<1>4. QED
  BY <1>1, <1>2, <1>3 DEF SeasonsInv

LEMMA QuietSteps ==
    ASSUME SeasonsInv, NEW m \in Match,
           SelectSeason(m) \/ LockSeason(m) \/ CreateSeason(m) \/ Fail(m) \/ Abort(m)
    PROVE  SeasonsInv' /\ UNCHANGED <<db, old>>
<1>1. /\ tx \in [Match -> States] /\ seen \in [Match -> Nat]
      /\ row \in [Match -> Nat] /\ inserted \in [Match -> Nat]
  BY DEF SeasonsInv, TypeOK, States
<1>2. /\ Last \in Nat /\ DOMAIN seasons = 1..Last
      /\ \A n \in 1..Last : seasons[n].active <=> n = Last
      /\ ActiveSeasons = IF Last = 0 THEN {} ELSE {Last}
  BY LastProperties DEF SeasonsInv
<1>3. UNCHANGED <<now, db, endedAt, old>>
  BY DEF SelectSeason, LockSeason, CreateSeason, Fail, Abort
<1>4. {"select", "lock", "create", "ratings", "failed", "lost"} \subseteq States
  BY DEF States, InTransaction, Outcomes
<1>5. /\ row[m] # 0 => /\ tx[m] \in {"create", "ratings", "write"} /\ row[m] = Last
                       /\ \A k \in Match \ {m} : row[k] = 0
      /\ inserted[m] # 0 => tx[m] \in {"ratings", "write"}
  BY DEF SeasonsInv, LockInv
<1>6. CASE SelectSeason(m)
  <2>1. /\ tx[m] = "select" /\ UNCHANGED <<row, inserted>> /\ row[m] = 0 /\ inserted[m] = 0
    BY <1>5, <1>6 DEF SelectSeason, Goto
  <2>2. Last # 0 => LatestOf(ActiveSeasons) = Last
    BY <1>2 DEF LatestOf
  <2>3. /\ tx' = [tx EXCEPT ![m] = IF Last = 0 THEN "create" ELSE "lock"]
        /\ seen' = [seen EXCEPT ![m] = Last]
    BY <1>2, <1>6, <2>2 DEF SelectSeason, Goto
  <2>4. tx'[m] = "lock" => seen'[m] \in DOMAIN seasons
    BY <1>1, <1>2, <2>3
  <2>5. tx' \in [Match -> States] /\ seen' \in [Match -> Nat] /\ tx'[m] \notin {"ratings", "write"}
    BY <1>1, <1>2, <1>4, <2>3
  <2>6. QED
    BY <1>1, <1>3, <2>1, <2>3, <2>4, <2>5, LocksMove
<1>7. CASE LockSeason(m)
  <2>1. tx[m] = "lock" /\ UNCHANGED <<seen, inserted>> /\ row[m] = 0 /\ inserted[m] = 0
    BY <1>5, <1>7 DEF LockSeason, Goto
  <2>2. CASE seasons[seen[m]].active
    <3>1. PICK t \in {"create", "ratings"} : tx' = [tx EXCEPT ![m] = t]
      BY <1>7, <2>2 DEF LockSeason, Goto
    <3>2. row' = [row EXCEPT ![m] = seen[m]] /\ seen[m] \in DOMAIN seasons
      BY <1>7, <2>1, <2>2 DEF LockSeason, SeasonsInv, LockInv
    <3>3. seen[m] = Last /\ seen[m] # 0
      BY <1>2, <2>2, <3>2
    <3>4. \A k \in Match \ {m} : row[k] = 0
      BY <1>7, <3>3 DEF LockSeason, SeasonsInv, LockInv
    <3>5. tx' \in [Match -> States] /\ row' \in [Match -> Nat] /\ row'[m] = Last /\ tx'[m] = t
      BY <1>1, <1>2, <1>4, <3>1, <3>2, <3>3
    <3>6. QED
      BY <1>1, <1>3, <2>1, <3>1, <3>2, <3>3, <3>4, <3>5, LocksMove
  <2>3. CASE ~seasons[seen[m]].active
    <3>1. tx' = [tx EXCEPT ![m] = "create"] /\ UNCHANGED row
      BY <1>7, <2>3 DEF LockSeason, Goto
    <3>2. tx' \in [Match -> States] /\ tx'[m] = "create"
      BY <1>1, <1>4, <3>1
    <3>3. QED
      BY <1>1, <1>3, <2>1, <3>1, <3>2, LocksMove
  <2>4. QED
    BY <2>2, <2>3
<1>8. CASE CreateSeason(m)
  <2>1. /\ tx[m] = "create" /\ tx' = [tx EXCEPT ![m] = "ratings"] /\ UNCHANGED <<seen, row>>
        /\ inserted' = [inserted EXCEPT ![m] = row[m] + 1]
        /\ \A k \in Match : inserted[k] = 0
        /\ row[m] + 1 \notin DOMAIN seasons
    BY <1>8 DEF CreateSeason, Goto, NextNumber, Duplicate
  <2>2. row[m] = Last
    BY <1>1, <1>2, <1>5, <2>1
  <2>3. /\ tx' \in [Match -> States] /\ tx'[m] = "ratings"
        /\ inserted' \in [Match -> Nat] /\ inserted'[m] = Last + 1 /\ inserted'[m] # 0
    BY <1>1, <1>2, <1>4, <2>1, <2>2
  <2>4. QED
    BY <1>1, <1>3, <1>5, <2>1, <2>2, <2>3, LocksMove
<1>9. CASE Fail(m) \/ Abort(m)
  <2>1. PICK t \in {"failed", "lost"} : tx' = [tx EXCEPT ![m] = t]
    BY <1>9 DEF Fail, Abort, Goto
  <2>2. row' = [row EXCEPT ![m] = 0] /\ inserted' = [inserted EXCEPT ![m] = 0] /\ UNCHANGED seen
    BY <1>9 DEF Fail, Abort, Released
  <2>3. /\ tx' \in [Match -> States] /\ tx'[m] = t /\ row' \in [Match -> Nat] /\ row'[m] = 0
        /\ inserted' \in [Match -> Nat] /\ inserted'[m] = 0
    BY <1>1, <1>4, <2>1, <2>2
  <2>4. QED
    BY <1>1, <1>3, <2>1, <2>2, <2>3, LocksMove
<1>10. QED
  BY <1>3, <1>6, <1>7, <1>8, <1>9

\* A rating is read from the player's latest season, which is never after the one
\* the transaction works in.
LEMMA RatingRead ==
    ASSUME SeasonsInv, NEW m \in Match, tx[m] = "ratings", NEW p \in PlayersOf[m]
    PROVE  /\ RatingOf(p, SeasonOf(m)) \in SUBSET Match
           /\ \/ DOMAIN ratings[p] = {} /\ RatingOf(p, SeasonOf(m)) = {}
              \/ \E k \in DOMAIN ratings[p] :
                    /\ \A j \in DOMAIN ratings[p] : j <= k
                    /\ RatingOf(p, SeasonOf(m)) = ratings[p][k]
<1> DEFINE n == SeasonOf(m)
           D == DOMAIN ratings[p]
           before == {k \in D : k < n}
<1>1. p \in Player
  BY DEF Player
<1>2. /\ D \subseteq DOMAIN seasons /\ \A k \in D : ratings[p][k] \subseteq Match
      /\ D # {} => \E k \in D : \A j \in D : j <= k
      /\ DOMAIN seasons \subseteq Nat
  BY <1>1 DEF SeasonsInv, TypeOK, HaveLatest
<1>3. n \in Nat /\ \A k \in D : k <= n
  BY <1>2, WorksInTheLast
<1> HIDE DEF n
<1>4. CASE n \in D
  <2>1. RatingOf(p, n) = ratings[p][n]
    BY <1>4 DEF RatingOf
  <2>2. QED
    BY <1>2, <1>3, <1>4, <2>1 DEF n
<1>5. CASE n \notin D /\ D # {}
  <2>1. before = D
    BY <1>2, <1>3, <1>5
  <2>2. RatingOf(p, n) = ratings[p][LatestOf(D)]
    BY <1>5, <2>1 DEF RatingOf
  <2>3. LatestOf(D) \in D /\ \A j \in D : j <= LatestOf(D)
    BY <1>2, <1>5 DEF LatestOf
  <2>4. QED
    BY <1>2, <2>2, <2>3 DEF n
<1>6. CASE n \notin D /\ D = {}
  <2>1. before = {}
    BY <1>6
  <2>2. RatingOf(p, n) = {}
    BY <1>6, <2>1 DEF RatingOf
  <2>3. QED
    BY <1>6, <2>2 DEF n
<1>7. QED
  BY <1>4, <1>5, <1>6

LEMMA OtherSteps ==
    ASSUME SeasonsInv,
           Tick \/ (UNCHANGED vars) \/ \E m \in Match : Begin(m) \/ ReadRatings(m)
    PROVE  SeasonsInv' /\ UNCHANGED db
<1>1. /\ tx \in [Match -> States] /\ now \in 0..MaxTime /\ endedAt \in [Match -> 0..MaxTime]
      /\ MaxTime \in Nat
  BY SeasonsConstants DEF SeasonsInv, TypeOK, States
<1>2. "select" \in States /\ "write" \in States
  BY DEF States, InTransaction
<1>3. CASE Tick
  <2>1. now' \in 0..MaxTime /\ UNCHANGED <<db, tx, endedAt, txRow, old>>
    BY <1>1, <1>3 DEF Tick
  <2>2. QED
    BY <2>1 DEF SeasonsInv, TypeOK, SeasonsInSequence, LockInv, HaveLatest, Last, db, txRow
<1>4. CASE UNCHANGED vars
  BY <1>4 DEF SeasonsInv, TypeOK, SeasonsInSequence, LockInv, HaveLatest, Last, vars, db, txRow
<1>5. ASSUME NEW m \in Match, Begin(m)
      PROVE  SeasonsInv' /\ UNCHANGED db
  <2>1. /\ tx[m] = "fighting" /\ tx' = [tx EXCEPT ![m] = "select"]
        /\ endedAt' = [endedAt EXCEPT ![m] = now] /\ UNCHANGED <<now, db, txRow, old>>
    BY <1>5 DEF Begin, Goto
  <2>2. TypeOK'
    <3>1. tx' \in [Match -> States] /\ endedAt' \in [Match -> 0..MaxTime]
      BY <1>1, <1>2, <2>1
    <3>2. QED
      BY <2>1, <3>1 DEF SeasonsInv, TypeOK, States, db, txRow
  <2>3. SeasonsInSequence' /\ LockInv' /\ HaveLatest'
    BY <1>1, <2>1 DEF SeasonsInv, SeasonsInSequence, LockInv, HaveLatest, Last, db, txRow
  <2>4. QED
    BY <2>1, <2>2, <2>3 DEF SeasonsInv
<1>6. ASSUME NEW m \in Match, ReadRatings(m)
      PROVE  SeasonsInv' /\ UNCHANGED db
  <2>1. /\ tx[m] = "ratings" /\ tx' = [tx EXCEPT ![m] = "write"] /\ UNCHANGED <<now, db, endedAt, txRow>>
        /\ old' = [old EXCEPT ![m] = [p \in PlayersOf[m] |-> RatingOf(p, SeasonOf(m))]]
    BY <1>6 DEF ReadRatings, Goto
  <2>2. DOMAIN old' = Match /\ \A k \in Match : old'[k] \in [PlayersOf[k] -> SUBSET Match]
    <3>1. [p \in PlayersOf[m] |-> RatingOf(p, SeasonOf(m))] \in [PlayersOf[m] -> SUBSET Match]
      BY <2>1, RatingRead
    <3>2. QED
      BY <2>1, <3>1 DEF SeasonsInv, TypeOK
  <2>3. tx' \in [Match -> States]
    BY <1>1, <1>2, <2>1
  <2>4. TypeOK'
    BY <2>1, <2>2, <2>3 DEF SeasonsInv, TypeOK, States, db, txRow
  <2>5. SeasonsInSequence' /\ LockInv' /\ HaveLatest'
    BY <1>1, <2>1 DEF SeasonsInv, SeasonsInSequence, LockInv, HaveLatest, Last, db, txRow
  <2>6. QED
    BY <2>1, <2>4, <2>5 DEF SeasonsInv
<1>7. QED
  BY <1>3, <1>4, <1>5, <1>6

----------------------------------------------------------------------------
(* The commit.                                                              *)

LEMMA RowClosed ==
    ASSUME NEW r \in SeasonRow
    PROVE  /\ [r EXCEPT !.active = FALSE] \in SeasonRow
           /\ [r EXCEPT !.active = FALSE].active = FALSE
           /\ [r EXCEPT !.active = FALSE].starts = r.starts
           /\ [r EXCEPT !.active = FALSE].ends = r.ends
BY DEF SeasonRow

LEMMA CommitsInSequence ==
    ASSUME SeasonsInv, NEW m \in Match, Commit(m)
    PROVE  SeasonsInSequence' /\ LockInv' /\ seasons'[SeasonOf(m)].active
           /\ DOMAIN seasons' = DOMAIN seasons \cup {SeasonOf(m)} /\ IsFiniteSet(DOMAIN seasons')
           /\ \A n \in DOMAIN seasons' : seasons'[n] \in SeasonRow
<1>1. /\ tx[m] = "write" /\ seasons' = SeasonsWith(m)
      /\ \E t \in {"saved", "lost"} : tx' = [tx EXCEPT ![m] = t]
      /\ row' = [row EXCEPT ![m] = 0] /\ inserted' = [inserted EXCEPT ![m] = 0] /\ UNCHANGED seen
  BY DEF Commit, Goto, Released
<1>2. /\ Last \in Nat /\ DOMAIN seasons = 1..Last
      /\ \A n \in 1..Last : seasons[n] \in SeasonRow /\ (seasons[n].active <=> n = Last)
      /\ \A n \in 1..Last : n > 1 => seasons[n].starts = seasons[n - 1].ends
  BY LastProperties DEF SeasonsInv
<1>3. /\ SeasonOf(m) \in Nat \ {0}
      /\ inserted[m] = 0 => SeasonOf(m) = Last
      /\ inserted[m] # 0 => SeasonOf(m) = Last + 1 /\ row[m] = Last /\ inserted[m] = Last + 1
      /\ \A k \in Match \ {m} : row[k] = 0 /\ inserted[k] = 0
  BY <1>1, WorksInTheLast DEF SeasonsInv, LockInv
<1>4. /\ tx \in [Match -> States] /\ row \in [Match -> Nat] /\ inserted \in [Match -> Nat]
      /\ endedAt[m] \in Nat /\ Duration \in Nat
  BY SeasonsConstants DEF SeasonsInv, TypeOK, States
<1>5. DOMAIN seasons' = DOMAIN seasons \cup {SeasonOf(m)}
  BY <1>1 DEF SeasonsWith
<1>6. LockInv'
  <2>1. \A k \in Match : row'[k] = 0 /\ inserted'[k] = 0
    BY <1>1, <1>3, <1>4
  <2>2. \A k \in Match : tx'[k] \in {"ratings", "write"} => k # m /\ tx[k] \in {"ratings", "write"}
    BY <1>1, <1>4
  <2>3. \A k \in Match : tx'[k] \notin {"ratings", "write"}
    BY <1>1, <2>2, AtMostOne DEF OneWriter
  <2>4. \A k \in Match : tx'[k] = "lock" => tx[k] = "lock"
    BY <1>1, <1>4
  <2>5. \A k \in Match : tx'[k] = "lock" => seen'[k] \in DOMAIN seasons'
    BY <1>1, <1>5, <2>4 DEF SeasonsInv, LockInv
  <2>6. QED
    BY <2>1, <2>3, <2>5 DEF LockInv
<1>7. CASE inserted[m] = 0
  <2>1. /\ SeasonOf(m) = Last /\ Last \in DOMAIN seasons
        /\ \A n \in DOMAIN seasons : n # inserted[m]
    BY <1>2, <1>3, <1>7
  <2>2. DOMAIN seasons' = DOMAIN seasons /\ \A n \in DOMAIN seasons : seasons'[n] = seasons[n]
    BY <1>1, <1>7, <2>1 DEF SeasonsWith
  <2>3. SeasonsInSequence' /\ IsFiniteSet(DOMAIN seasons')
    BY <1>2, <2>2 DEF SeasonsInv, SeasonsInSequence, TypeOK, Last
  <2>4. QED
    BY <1>2, <1>5, <1>6, <2>1, <2>2, <2>3
<1>8. CASE inserted[m] # 0
  <2> DEFINE N == Last + 1
  <2>1. /\ SeasonOf(m) = N /\ row[m] = Last /\ inserted[m] = N /\ N \in Nat
        /\ DOMAIN seasons' = 1..N
    BY <1>2, <1>3, <1>5, <1>8
  <2>2. IsFiniteSet(1..N) /\ Cardinality(1..N) = N
    BY <1>2, <2>1, FS_Interval
  <2>3. seasons'[N] = Opened(m)
    BY <1>1, <2>1 DEF SeasonsWith
  <2>4. Last > 0 => seasons'[Last] = [seasons[Last] EXCEPT !.active = FALSE]
    BY <1>1, <1>2, <1>8, <2>1 DEF SeasonsWith
  <2>5. \A n \in 1..Last : n # Last => seasons'[n] = seasons[n]
    BY <1>1, <1>2, <2>1 DEF SeasonsWith
  <2>6. /\ StartsAt(m) \in Nat
        /\ Last > 0 => StartsAt(m) = seasons[Last].ends
    BY <1>2, <1>4, <2>1 DEF StartsAt, SeasonRow
  <2>7. /\ Opened(m) \in SeasonRow /\ Opened(m).active = TRUE /\ Opened(m).starts = StartsAt(m)
    BY <1>4, <2>6 DEF Opened, SeasonRow
  <2>8. Last > 0 => /\ seasons'[Last] \in SeasonRow /\ seasons'[Last].active = FALSE
                    /\ seasons'[Last].starts = seasons[Last].starts
                    /\ seasons'[Last].ends = seasons[Last].ends
    <3>1. Last > 0 => seasons[Last] \in SeasonRow
      BY <1>2
    <3>2. QED
      BY <2>4, <3>1, RowClosed
  <2>9. \A n \in 1..N : n = N \/ (Last > 0 /\ n = Last) \/ (n \in 1..Last /\ n < Last)
    BY <1>2
  <2>10. \A n \in 1..N : seasons'[n] \in SeasonRow /\ (seasons'[n].active <=> n = N)
    <3>1. seasons'[N] \in SeasonRow /\ seasons'[N].active
      BY <2>3, <2>7
    <3>2. \A n \in 1..Last : n < Last => seasons'[n] \in SeasonRow /\ ~seasons'[n].active
      BY <1>2, <2>5
    <3>3. \A n \in 1..Last : n # N
      BY <1>2
    <3>4. QED
      BY <2>8, <2>9, <3>1, <3>2, <3>3
  <2>11. \A n \in 1..Last : seasons'[n].starts = seasons[n].starts /\ seasons'[n].ends = seasons[n].ends
    BY <2>5, <2>8
  <2>12. \A n \in 1..N : n > 1 => seasons'[n].starts = seasons'[n - 1].ends
    <3>1. Last > 0 => seasons'[N].starts = seasons'[N - 1].ends
      BY <1>2, <2>3, <2>6, <2>7, <2>8
    <3>2. ASSUME NEW n \in 1..Last, n > 1
          PROVE  seasons'[n].starts = seasons'[n - 1].ends
      <4>1. n - 1 \in 1..Last
        BY <1>2, <3>2
      <4>2. QED
        BY <1>2, <2>11, <3>2, <4>1
    <3>3. QED
      BY <1>2, <3>1, <3>2
  <2>13. SeasonsInSequence'
    BY <2>1, <2>2, <2>10, <2>12 DEF SeasonsInSequence
  <2>14. QED
    BY <1>5, <1>6, <2>1, <2>2, <2>3, <2>7, <2>10, <2>13
<1>9. QED
  BY <1>7, <1>8

LEMMA CommitKeeps ==
    ASSUME SeasonsInv, NEW m \in Match, Commit(m)
    PROVE  SeasonsInv'
<1>1. /\ tx[m] = "write" /\ UNCHANGED <<now, endedAt, old, seen>>
      /\ \E t \in {"saved", "lost"} : tx' = [tx EXCEPT ![m] = t]
      /\ row' = [row EXCEPT ![m] = 0] /\ inserted' = [inserted EXCEPT ![m] = 0]
      /\ recordedIn' = [recordedIn EXCEPT ![m] = SeasonOf(m)]
      /\ ratings' = [p \in Player |-> IF p \in PlayersOf[m] THEN Updated(m, p) ELSE ratings[p]]
  BY DEF Commit, Goto, Released
<1>2. /\ SeasonOf(m) \in Nat \ {0} /\ \A n \in DOMAIN seasons : n <= SeasonOf(m)
      /\ DOMAIN seasons \subseteq Nat \ {0}
  BY <1>1, WorksInTheLast DEF SeasonsInv, TypeOK
<1>3. DOMAIN seasons' = DOMAIN seasons \cup {SeasonOf(m)} /\ DOMAIN seasons' \subseteq Nat \ {0}
  BY <1>2, CommitsInSequence
<1>4. ASSUME NEW p \in Player
      PROVE  /\ DOMAIN ratings'[p] \subseteq DOMAIN seasons'
             /\ \A n \in DOMAIN ratings'[p] : ratings'[p][n] \subseteq Match
             /\ DOMAIN ratings'[p] # {} =>
                    \E n \in DOMAIN ratings'[p] : \A k \in DOMAIN ratings'[p] : k <= n
  <2>1. /\ DOMAIN ratings[p] \subseteq DOMAIN seasons
        /\ \A n \in DOMAIN ratings[p] : ratings[p][n] \subseteq Match
        /\ DOMAIN ratings[p] # {} => \E n \in DOMAIN ratings[p] : \A k \in DOMAIN ratings[p] : k <= n
    BY DEF SeasonsInv, TypeOK, HaveLatest
  <2>2. CASE p \notin PlayersOf[m]
    BY <1>1, <1>3, <2>1, <2>2
  <2>3. CASE p \in PlayersOf[m]
    <3>1. ratings'[p] = Updated(m, p) /\ old[m][p] \subseteq Match
      BY <1>1, <2>3 DEF SeasonsInv, TypeOK
    <3>2. /\ DOMAIN ratings'[p] = DOMAIN ratings[p] \cup {SeasonOf(m)}
          /\ \A n \in DOMAIN ratings'[p] :
                ratings'[p][n] = IF n = SeasonOf(m) THEN old[m][p] \cup {m} ELSE ratings[p][n]
      BY <3>1 DEF Updated
    <3>3. \A k \in DOMAIN ratings'[p] : k <= SeasonOf(m)
      BY <1>2, <2>1, <3>2
    <3>4. QED
      BY <1>3, <2>1, <3>1, <3>2, <3>3
  <2>4. QED
    BY <2>2, <2>3
<1>5. TypeOK'
  <2>1. /\ tx' \in [Match -> States] /\ row' \in [Match -> Nat] /\ inserted' \in [Match -> Nat]
        /\ recordedIn' \in [Match -> Nat]
    BY <1>1, <1>2 DEF SeasonsInv, TypeOK, States, Outcomes
  <2>2. DOMAIN ratings' = Player
    BY <1>1
  <2>3. QED
    BY <1>1, <1>3, <1>4, <2>1, <2>2, CommitsInSequence DEF SeasonsInv, TypeOK, SeasonRow, States
<1>6. HaveLatest'
  BY <1>4 DEF HaveLatest
<1>7. QED
  BY <1>5, <1>6, CommitsInSequence DEF SeasonsInv

LEMMA SeasonsKept == Spec => []SeasonsInv
<1>1. ASSUME Init PROVE SeasonsInv
  <2>1. DOMAIN seasons = {} /\ \A p \in Player : DOMAIN ratings[p] = {}
    BY <1>1 DEF Init
  <2>2. IsFiniteSet({}) /\ Cardinality({}) = 0
    BY FS_EmptySet
  <2>3. TypeOK
    BY <1>1, <2>1, <2>2, SeasonsConstants DEF Init, TypeOK
  <2>4. SeasonsInSequence /\ LockInv /\ HaveLatest
    BY <1>1, <2>1, <2>2 DEF Init, SeasonsInSequence, LockInv, HaveLatest
  <2>5. QED
    BY <2>3, <2>4 DEF SeasonsInv
<1>2. ASSUME SeasonsInv, [Next]_vars PROVE SeasonsInv'
  BY <1>2, QuietSteps, OtherSteps, CommitKeeps DEF Next, Statement
<1>3. QED
  BY <1>1, <1>2, PTL DEF Spec

\* Every variable of the clock, the database and the transactions keeps its type.
THEOREM SeasonsTyped == Spec => []TypeOK
<1>1. SeasonsInv => TypeOK
  BY DEF SeasonsInv
<1>2. QED
  BY <1>1, SeasonsKept, PTL

\* The seasons follow each other without a gap, and exactly the last is active,
\* however many transactions race for the end of one (ensureActiveSeasonTx,
\* createNextSeasonTx).
THEOREM SeasonsFollow == Spec => []SeasonsInSequence
<1>1. SeasonsInv => SeasonsInSequence
  BY DEF SeasonsInv
<1>2. QED
  BY <1>1, SeasonsKept, PTL

\* At most one transaction is between the choice of its season and its commit.
THEOREM WritersAlone == Spec => []OneWriter
BY SeasonsKept, AtMostOne, PTL

\* No match is recorded in a season that was closed before the commit.
THEOREM ClosedIsClosed == Spec => ClosedSeasonsAreFinal
<1>1. ASSUME SeasonsInv, [Next]_vars
      PROVE  [\A m \in Match : recordedIn'[m] # recordedIn[m] => seasons'[recordedIn'[m]].active]_vars
  <2>1. ASSUME NEW m \in Match, recordedIn'[m] # recordedIn[m]
        PROVE  seasons'[recordedIn'[m]].active
    <3>1. PICK k \in Match : Commit(k)
      BY <1>1, <2>1, QuietSteps, OtherSteps DEF Next, Statement, db
    <3>2. recordedIn' = [recordedIn EXCEPT ![k] = SeasonOf(k)] /\ recordedIn \in [Match -> Nat]
      BY <1>1, <3>1 DEF Commit, SeasonsInv, TypeOK
    <3>3. m = k /\ recordedIn'[m] = SeasonOf(k)
      BY <2>1, <3>2
    <3>4. QED
      BY <1>1, <3>1, <3>3, CommitsInSequence
  <2>2. QED
    BY <2>1
<1>2. QED
  BY <1>1, SeasonsKept, PTL DEF Spec, ClosedSeasonsAreFinal

----------------------------------------------------------------------------
(* The ratings.                                                             *)

\* The recorded matches of a player.
Played(p) == {m \in Match : p \in PlayersOf[m] /\ recordedIn[m] # 0}

\* A match is recorded by its commit only, in a season there is.
RecordedOnce ==
    \A m \in Match : recordedIn[m] # 0 => tx[m] \in {"saved", "lost"} /\ recordedIn[m] \in DOMAIN seasons

\* What was read is still so when it is written: all the player's matches so far.
OldIsCurrent ==
    \A m \in Match : tx[m] = "write" => \A p \in PlayersOf[m] : old[m][p] = Played(p)

RatingInv == RatingsComplete /\ RecordedOnce /\ OldIsCurrent

LEMMA CompleteUnfolded ==
    RatingsComplete <=>
        \A p \in Player :
            /\ DOMAIN ratings[p] = {recordedIn[m] : m \in Played(p)}
            /\ \A n \in DOMAIN ratings[p] : ratings[p][n] = {m \in Played(p) : recordedIn[m] <= n}
BY DEF RatingsComplete, Played

LEMMA CompleteUnfoldedPrime ==
    RatingsComplete' <=>
        \A p \in Player :
            /\ DOMAIN ratings'[p] = {recordedIn'[m] : m \in Played(p)'}
            /\ \A n \in DOMAIN ratings'[p] : ratings'[p][n] = {m \in Played(p)' : recordedIn'[m] <= n}
BY DEF RatingsComplete, Played

LEMMA CommitRates ==
    ASSUME SeasonsInv, RatingInv, NEW m \in Match, Commit(m)
    PROVE  RatingInv'
<1>1. /\ tx[m] = "write" /\ UNCHANGED old
      /\ recordedIn' = [recordedIn EXCEPT ![m] = SeasonOf(m)]
      /\ ratings' = [p \in Player |-> IF p \in PlayersOf[m] THEN Updated(m, p) ELSE ratings[p]]
  BY DEF Commit, Goto
<1>2. PICK t \in {"saved", "lost"} : tx' = [tx EXCEPT ![m] = t]
  BY DEF Commit, Goto
<1>3. /\ SeasonOf(m) \in Nat \ {0} /\ \A n \in DOMAIN seasons : n <= SeasonOf(m)
      /\ DOMAIN seasons \subseteq Nat \ {0} /\ DOMAIN seasons' = DOMAIN seasons \cup {SeasonOf(m)}
      /\ recordedIn \in [Match -> Nat] /\ tx \in [Match -> States]
  BY <1>1, WorksInTheLast, CommitsInSequence DEF SeasonsInv, TypeOK, States
<1>4. recordedIn[m] = 0 /\ \A k \in Match : recordedIn[k] # 0 => recordedIn[k] \in DOMAIN seasons
  BY <1>1 DEF RatingInv, RecordedOnce
<1>5. /\ recordedIn'[m] = SeasonOf(m) /\ \A k \in Match \ {m} : recordedIn'[k] = recordedIn[k]
      /\ \A k \in Match : recordedIn'[k] # 0 => recordedIn'[k] \in Nat /\ recordedIn'[k] <= SeasonOf(m)
  BY <1>1, <1>3, <1>4
<1>6. RecordedOnce'
  BY <1>1, <1>2, <1>3, <1>5 DEF RatingInv, RecordedOnce
<1>7. OldIsCurrent'
  <2>1. ASSUME NEW k \in Match, tx'[k] = "write"
        PROVE  FALSE
    <3>1. k # m /\ tx[k] = "write"
      BY <1>2, <1>3, <2>1
    <3>2. QED
      BY <1>1, <3>1, AtMostOne DEF OneWriter
  <2>2. QED
    BY <2>1 DEF OldIsCurrent
<1>8. ASSUME NEW p \in Player
      PROVE  /\ DOMAIN ratings'[p] = {recordedIn'[k] : k \in Played(p)'}
             /\ \A n \in DOMAIN ratings'[p] : ratings'[p][n] = {k \in Played(p)' : recordedIn'[k] <= n}
  <2>1. /\ DOMAIN ratings[p] = {recordedIn[k] : k \in Played(p)}
        /\ \A n \in DOMAIN ratings[p] : ratings[p][n] = {k \in Played(p) : recordedIn[k] <= n}
        /\ DOMAIN ratings[p] \subseteq DOMAIN seasons
    BY CompleteUnfolded DEF RatingInv, SeasonsInv, TypeOK
  <2>2. m \notin Played(p) /\ \A k \in Played(p) : k \in Match \ {m}
    BY <1>4 DEF Played
  <2>3. CASE p \notin PlayersOf[m]
    <3>1. ratings'[p] = ratings[p] /\ Played(p)' = Played(p)
      BY <1>1, <1>5, <2>2, <2>3 DEF Played
    <3>2. QED
      BY <1>5, <2>1, <2>2, <3>1
  <2>4. CASE p \in PlayersOf[m]
    <3>1. Played(p)' = Played(p) \cup {m}
      BY <1>3, <1>5, <2>4 DEF Played
    <3>2. ratings'[p] = Updated(m, p) /\ old[m][p] = Played(p)
      BY <1>1, <2>4 DEF RatingInv, OldIsCurrent
    <3>3. /\ DOMAIN ratings'[p] = DOMAIN ratings[p] \cup {SeasonOf(m)}
          /\ ratings'[p][SeasonOf(m)] = Played(p)'
          /\ \A n \in DOMAIN ratings[p] : n # SeasonOf(m) => ratings'[p][n] = ratings[p][n]
      BY <3>1, <3>2 DEF Updated
    <3>4. DOMAIN ratings'[p] = {recordedIn'[k] : k \in Played(p)'}
      <4>1. {recordedIn'[k] : k \in Played(p)'} = {recordedIn'[k] : k \in Played(p)} \cup {recordedIn'[m]}
        BY <3>1
      <4>2. {recordedIn'[k] : k \in Played(p)} = {recordedIn[k] : k \in Played(p)}
        BY <1>5, <2>2
      <4>3. QED
        BY <1>5, <2>1, <3>3, <4>1, <4>2
    <3>5. ratings'[p][SeasonOf(m)] = {k \in Played(p)' : recordedIn'[k] <= SeasonOf(m)}
      BY <1>5, <3>3 DEF Played
    <3>6. ASSUME NEW n \in DOMAIN ratings[p], n # SeasonOf(m)
          PROVE  ratings'[p][n] = {k \in Played(p)' : recordedIn'[k] <= n}
      <4>1. n \in Nat /\ n < SeasonOf(m)
        BY <1>3, <2>1, <3>6
      <4>2. ~(recordedIn'[m] <= n)
        BY <1>3, <1>5, <4>1
      <4>3. {k \in Played(p)' : recordedIn'[k] <= n} = {k \in Played(p) : recordedIn[k] <= n}
        BY <1>5, <2>2, <3>1, <4>2
      <4>4. QED
        BY <2>1, <3>3, <3>6, <4>3
    <3>7. QED
      BY <3>3, <3>4, <3>5, <3>6
  <2>5. QED
    BY <2>3, <2>4
<1>9. RatingsComplete'
  BY <1>8, CompleteUnfoldedPrime
<1>10. QED
  BY <1>6, <1>7, <1>9 DEF RatingInv

\* Reading a rating reads all the player's matches so far.
LEMMA ReadIsCurrent ==
    ASSUME SeasonsInv, RatingInv, NEW m \in Match, tx[m] = "ratings", NEW p \in PlayersOf[m]
    PROVE  RatingOf(p, SeasonOf(m)) = Played(p)
<1>1. p \in Player
  BY DEF Player
<1>2. /\ DOMAIN ratings[p] = {recordedIn[k] : k \in Played(p)}
      /\ \A n \in DOMAIN ratings[p] : ratings[p][n] = {k \in Played(p) : recordedIn[k] <= n}
  BY <1>1, CompleteUnfolded DEF RatingInv
<1>3. CASE DOMAIN ratings[p] = {} /\ RatingOf(p, SeasonOf(m)) = {}
  BY <1>2, <1>3
<1>4. ASSUME NEW n \in DOMAIN ratings[p], \A j \in DOMAIN ratings[p] : j <= n,
             RatingOf(p, SeasonOf(m)) = ratings[p][n]
      PROVE  RatingOf(p, SeasonOf(m)) = Played(p)
  BY <1>2, <1>4
<1>5. QED
  BY <1>3, <1>4, RatingRead

LEMMA StepKeepsRatings == SeasonsInv /\ RatingInv /\ [Next]_vars => RatingInv'
<1> SUFFICES ASSUME SeasonsInv, RatingInv, [Next]_vars PROVE RatingInv'
  OBVIOUS
<1>1. tx \in [Match -> States] /\ DOMAIN old = Match
  BY DEF SeasonsInv, TypeOK, States
<1>2. ASSUME UNCHANGED db,
             \A m \in Match : recordedIn[m] # 0 => tx'[m] = tx[m],
             \A m \in Match : tx'[m] = "write" => \A p \in PlayersOf[m] : old'[m][p] = Played(p)
      PROVE  RatingInv'
  <2>1. /\ ratings' = ratings /\ recordedIn' = recordedIn /\ seasons' = seasons
        /\ \A p \in Player : Played(p)' = Played(p)
    BY <1>2 DEF db, Played
  <2>2. RatingsComplete'
    BY <2>1 DEF RatingInv, RatingsComplete
  <2>3. RecordedOnce'
    BY <1>2, <2>1 DEF RatingInv, RecordedOnce
  <2>4. OldIsCurrent'
    BY <1>2, <2>1 DEF OldIsCurrent, Played
  <2>5. QED
    BY <2>2, <2>3, <2>4 DEF RatingInv
<1>3. ASSUME NEW m \in Match,
             SelectSeason(m) \/ LockSeason(m) \/ CreateSeason(m) \/ Fail(m) \/ Abort(m) \/ Begin(m)
      PROVE  RatingInv'
  <2>1. UNCHANGED <<db, old>>
    BY <1>3, QuietSteps DEF Begin
  <2>2. PICK t \in {"select", "lock", "create", "ratings", "failed", "lost"} : tx' = [tx EXCEPT ![m] = t]
    BY <1>3 DEF SelectSeason, LockSeason, CreateSeason, Fail, Abort, Begin, Goto
  <2>3. tx[m] \notin {"saved", "lost"}
    BY <1>3 DEF SelectSeason, LockSeason, CreateSeason, Fail, Abort, Begin, Goto, InTransaction
  <2>4. \A k \in Match : recordedIn[k] # 0 => tx'[k] = tx[k]
    BY <1>1, <2>2, <2>3 DEF RatingInv, RecordedOnce
  <2>5. \A k \in Match : tx'[k] = "write" => tx[k] = "write"
    BY <1>1, <2>2
  <2>6. QED
    BY <1>2, <2>1, <2>4, <2>5 DEF RatingInv, OldIsCurrent
<1>4. ASSUME NEW m \in Match, ReadRatings(m)
      PROVE  RatingInv'
  <2>1. /\ tx[m] = "ratings" /\ tx' = [tx EXCEPT ![m] = "write"] /\ UNCHANGED db
        /\ old' = [old EXCEPT ![m] = [p \in PlayersOf[m] |-> RatingOf(p, SeasonOf(m))]]
    BY <1>4 DEF ReadRatings, Goto
  <2>2. \A k \in Match : recordedIn[k] # 0 => tx'[k] = tx[k]
    BY <1>1, <2>1 DEF RatingInv, RecordedOnce
  <2>3. \A p \in PlayersOf[m] : old'[m][p] = Played(p)
    BY <1>1, <2>1, ReadIsCurrent
  <2>4. \A k \in Match : tx'[k] = "write" => k = m \/ (tx[k] = "write" /\ old'[k] = old[k])
    BY <1>1, <2>1
  <2>5. QED
    BY <1>2, <2>1, <2>2, <2>3, <2>4 DEF RatingInv, OldIsCurrent
<1>5. CASE Tick \/ UNCHANGED vars
  BY <1>2, <1>5 DEF Tick, vars, RatingInv, OldIsCurrent
<1>6. ASSUME NEW m \in Match, Commit(m)
      PROVE  RatingInv'
  BY <1>6, CommitRates
<1>7. QED
  BY <1>3, <1>4, <1>5, <1>6 DEF Next, Statement

\* A rating contains exactly the recorded matches of its player up to its season:
\* no update is lost and none is counted twice, although a transaction reads both
\* ratings early and writes them late (FinalizeMatch, getOrCreateRatingTx).
THEOREM RatingsAddUp == Spec => []RatingsComplete
<1>1. ASSUME Init PROVE RatingInv
  <2>1. /\ \A m \in Match : recordedIn[m] = 0 /\ tx[m] = "fighting"
        /\ \A p \in Player : DOMAIN ratings[p] = {}
    BY <1>1 DEF Init
  <2>2. QED
    BY <2>1 DEF RatingInv, RatingsComplete, RecordedOnce, OldIsCurrent
<1>2. RatingInv => RatingsComplete
  BY DEF RatingInv
<1>3. QED
  BY <1>1, <1>2, SeasonsKept, StepKeepsRatings, PTL DEF Spec

----------------------------------------------------------------------------
(* Who waits, and what waiting and interleaving amount to.                  *)

\* Whoever has a row or a key, and is waited for, goes on himself: no deadlock among the
\* transactions of FinalizeMatch, however many run.
THEOREM NoDeadlock == Spec => []HoldersNeverWait
<1>1. ASSUME SeasonsInv, NEW j \in Match, NEW k \in Match, Blocks(j, k)
      PROVE  tx[j] \in InTransaction /\ \A m \in Match : ~Blocks(m, j)
  <2>1. 0 \notin DOMAIN seasons
    BY <1>1 DEF SeasonsInv, TypeOK
  <2>2. CASE tx[k] = "lock" /\ row[j] = seen[k]
    <3>1. row[j] # 0 /\ row[j] = Last /\ tx[j] \in {"create", "ratings", "write"}
      BY <1>1, <2>1, <2>2 DEF SeasonsInv, LockInv
    <3>2. ASSUME NEW m \in Match, inserted[m] # 0
          PROVE  m = j /\ tx[j] # "create"
      BY <1>1, <3>1, <3>2 DEF SeasonsInv, LockInv
    <3>3. QED
      BY <3>1, <3>2 DEF Blocks, InTransaction
  <2>3. CASE tx[k] = "create" /\ inserted[j] # 0
    <3>1. tx[j] \in {"ratings", "write"}
      BY <1>1, <2>3 DEF SeasonsInv, LockInv
    <3>2. QED
      BY <3>1 DEF Blocks, InTransaction
  <2>4. QED
    BY <1>1, <2>2, <2>3 DEF Blocks
<1>2. SeasonsInv => HoldersNeverWait
  BY <1>1 DEF HoldersNeverWait
<1>3. QED
  BY <1>2, SeasonsKept, PTL

\* What a transaction has decided about the expiry of its season still holds when it
\* commits: nobody changes a season that somebody has locked.
DecisionStands ==
    /\ \A m \in Match : tx[m] = "create" /\ row[m] # 0 => Expired(m, row[m])
    /\ \A m \in Match : tx[m] \in {"ratings", "write"} =>
          /\ inserted[m] = 0 => ~Expired(m, row[m])
          /\ inserted[m] # 0 /\ row[m] # 0 => Expired(m, row[m])

\* The two tables are functions of the season.
Tables ==
    /\ seasons = [n \in DOMAIN seasons |-> seasons[n]]
    /\ ratings = [p \in Player |-> ratings[p]]
    /\ \A p \in Player : ratings[p] = [n \in DOMAIN ratings[p] |-> ratings[p][n]]

LedgerInv == DecisionStands /\ Tables

LEMMA StepKeepsDecisions == SeasonsInv /\ LedgerInv /\ [Next]_vars => LedgerInv'
<1> SUFFICES ASSUME SeasonsInv, LedgerInv, [Next]_vars PROVE LedgerInv'
  OBVIOUS
<1>1. /\ tx \in [Match -> States] /\ row \in [Match -> Nat] /\ inserted \in [Match -> Nat]
      /\ endedAt \in [Match -> 0..MaxTime]
  BY DEF SeasonsInv, TypeOK, States
<1>2. ASSUME NEW m \in Match, UNCHANGED db,
             \A k \in Match \ {m} : /\ tx'[k] = tx[k] /\ row'[k] = row[k] /\ inserted'[k] = inserted[k]
                                    /\ endedAt'[k] = endedAt[k],
             tx'[m] = "create" /\ row'[m] # 0 => Expired(m, row[m])' ,
             tx'[m] \in {"ratings", "write"} =>
                /\ inserted'[m] = 0 => ~(endedAt'[m] >= seasons[row'[m]].ends)
                /\ inserted'[m] # 0 /\ row'[m] # 0 => endedAt'[m] >= seasons[row'[m]].ends
      PROVE  LedgerInv'
  BY <1>2 DEF LedgerInv, DecisionStands, Tables, Expired, db
<1>3. ASSUME NEW m \in Match, Begin(m) \/ SelectSeason(m) \/ Fail(m) \/ Abort(m)
      PROVE  LedgerInv'
  <2>1. UNCHANGED db
    BY <1>3, QuietSteps DEF Begin
  <2>2. /\ \A k \in Match \ {m} : /\ tx'[k] = tx[k] /\ row'[k] = row[k] /\ inserted'[k] = inserted[k]
                                  /\ endedAt'[k] = endedAt[k]
        /\ tx'[m] \notin {"ratings", "write"}
        /\ tx'[m] = "create" => row'[m] = row[m] /\ tx[m] = "select"
    BY <1>1, <1>3 DEF Begin, SelectSeason, Fail, Abort, Goto, Released, txRow
  <2>3. tx[m] = "select" => row[m] = 0
    BY DEF SeasonsInv, LockInv
  <2>4. QED
    BY <1>2, <2>1, <2>2, <2>3
<1>4. ASSUME NEW m \in Match, LockSeason(m)
      PROVE  LedgerInv'
  <2>1. UNCHANGED <<db, endedAt, inserted>> /\ tx[m] = "lock" /\ inserted[m] = 0 /\ row[m] = 0
    BY <1>4, QuietSteps DEF LockSeason, Goto, SeasonsInv, LockInv
  <2>2. CASE seasons[seen[m]].active
    <3>1. /\ tx' = [tx EXCEPT ![m] = IF Expired(m, seen[m]) THEN "create" ELSE "ratings"]
          /\ row' = [row EXCEPT ![m] = seen[m]]
      BY <1>4, <2>2 DEF LockSeason, Goto
    <3>2. QED
      BY <1>1, <1>2, <2>1, <3>1 DEF Expired, db
  <2>3. CASE ~seasons[seen[m]].active
    <3>1. tx' = [tx EXCEPT ![m] = "create"] /\ row' = row
      BY <1>4, <2>3 DEF LockSeason, Goto
    <3>2. QED
      BY <1>1, <1>2, <2>1, <3>1
  <2>4. QED
    BY <2>2, <2>3
<1>5. ASSUME NEW m \in Match, CreateSeason(m)
      PROVE  LedgerInv'
  <2>1. /\ UNCHANGED <<db, endedAt, row>> /\ tx[m] = "create"
        /\ tx' = [tx EXCEPT ![m] = "ratings"] /\ inserted' = [inserted EXCEPT ![m] = row[m] + 1]
    BY <1>5 DEF CreateSeason, Goto, NextNumber
  <2>2. inserted'[m] # 0 /\ (row[m] # 0 => Expired(m, row[m]))
    BY <1>1, <2>1 DEF LedgerInv, DecisionStands
  <2>3. QED
    BY <1>1, <1>2, <2>1, <2>2 DEF Expired, db
<1>6. ASSUME NEW m \in Match, ReadRatings(m)
      PROVE  LedgerInv'
  <2>1. UNCHANGED <<db, endedAt, row, inserted>> /\ tx[m] = "ratings" /\ tx' = [tx EXCEPT ![m] = "write"]
    BY <1>6 DEF ReadRatings, Goto, txRow
  <2>2. QED
    BY <1>1, <1>2, <2>1 DEF LedgerInv, DecisionStands, Expired, db
<1>7. ASSUME NEW m \in Match, Commit(m)
      PROVE  LedgerInv'
  <2>1. /\ tx[m] = "write" /\ tx'[m] \notin {"create", "ratings", "write"}
        /\ \A k \in Match \ {m} : tx'[k] = tx[k] /\ row'[k] = row[k] /\ inserted'[k] = inserted[k]
        /\ endedAt' = endedAt
    BY <1>1, <1>7 DEF Commit, Goto, Released
  <2>2. \A k \in Match \ {m} : row[k] = 0 /\ inserted[k] = 0 /\ tx[k] \notin {"ratings", "write"}
    BY <2>1, WorksInTheLast, AtMostOne DEF OneWriter
  <2>3. DecisionStands'
    BY <2>1, <2>2 DEF DecisionStands
  <2>4. Tables'
    <3>1. seasons' = SeasonsWith(m) /\ DOMAIN seasons' = DOMAIN seasons \cup {SeasonOf(m)}
      BY <1>7 DEF Commit, SeasonsWith
    <3>2. seasons' = [n \in DOMAIN seasons' |-> seasons'[n]]
      BY <3>1 DEF SeasonsWith
    <3>3. ratings' = [p \in Player |-> IF p \in PlayersOf[m] THEN Updated(m, p) ELSE ratings[p]]
      BY <1>7 DEF Commit
    <3>4. ASSUME NEW p \in Player
          PROVE  ratings'[p] = [n \in DOMAIN ratings'[p] |-> ratings'[p][n]]
      <4>1. ratings[p] = [n \in DOMAIN ratings[p] |-> ratings[p][n]]
        BY DEF LedgerInv, Tables
      <4>2. Updated(m, p) = [n \in DOMAIN Updated(m, p) |-> Updated(m, p)[n]]
        BY DEF Updated
      <4>3. ratings'[p] = Updated(m, p) \/ ratings'[p] = ratings[p]
        BY <3>3
      <4>4. QED
        BY <4>1, <4>2, <4>3
    <3>5. ratings' = [p \in Player |-> ratings'[p]]
      BY <3>3
    <3>6. QED
      BY <3>2, <3>4, <3>5 DEF Tables
  <2>5. QED
    BY <2>3, <2>4 DEF LedgerInv
<1>8. CASE Tick \/ UNCHANGED vars
  BY <1>8 DEF Tick, vars, db, txRow, LedgerInv, DecisionStands, Tables, Expired
<1>9. QED
  BY <1>3, <1>4, <1>5, <1>6, <1>7, <1>8 DEF Next, Statement

\* A commit does what the ledger does when it records the match.
LEMMA CommitRecords ==
    ASSUME SeasonsInv, RatingInv, LedgerInv, NEW m \in Match, Commit(m)
    PROVE  Atomic!Record(m)
<1>1. /\ tx[m] = "write" /\ endedAt' = endedAt
      /\ seasons' = SeasonsWith(m)
      /\ recordedIn' = [recordedIn EXCEPT ![m] = SeasonOf(m)]
      /\ ratings' = [p \in Player |-> IF p \in PlayersOf[m] THEN Updated(m, p) ELSE ratings[p]]
  BY DEF Commit, Goto
<1>2. PICK t \in {"saved", "lost"} : tx' = [tx EXCEPT ![m] = t]
  BY DEF Commit, Goto
<1>3. tx \in [Match -> States] /\ endedAt \in [Match -> 0..MaxTime]
  BY DEF SeasonsInv, TypeOK, States
<1>4. endOf[m] = endedAt[m] /\ endOf[m] # NotEnded /\ endOf' = endOf /\ recordedIn[m] = 0
  <2>1. endOf[m] = endedAt[m] /\ endedAt[m] \in 0..MaxTime
    BY <1>1, <1>3 DEF endOf
  <2>2. \A k \in Match : tx'[k] = "fighting" <=> tx[k] = "fighting"
    BY <1>1, <1>2, <1>3
  <2>3. recordedIn[m] = 0
    BY <1>1 DEF RatingInv, RecordedOnce
  <2>4. QED
    BY <1>1, <2>1, <2>2, <2>3, SeasonsConstants DEF endOf, NotEnded
<1>5. /\ Last \in Nat /\ DOMAIN seasons = 1..Last /\ Atomic!Current = Last
      /\ \A n \in 1..Last : seasons[n] \in SeasonRow
  <2>1. /\ Last \in Nat /\ DOMAIN seasons = 1..Last
        /\ \A n \in 1..Last : seasons[n] \in SeasonRow
    BY LastProperties DEF SeasonsInv
  <2>2. Atomic!Current = Last
    BY <2>1 DEF Atomic!Current
  <2>3. QED
    BY <2>1, <2>2
<1>6. /\ inserted[m] = 0 => SeasonOf(m) = Last /\ Last # 0 /\ row[m] = Last
      /\ inserted[m] # 0 => SeasonOf(m) = Last + 1 /\ row[m] = Last
      /\ inserted[m] # 0 => inserted[m] = SeasonOf(m)
  <2>1. /\ SeasonOf(m) \in Nat \ {0}
        /\ inserted[m] = 0 => SeasonOf(m) = Last
        /\ inserted[m] # 0 => SeasonOf(m) = Last + 1 /\ row[m] = Last
    BY <1>1, WorksInTheLast
  <2>2. QED
    BY <2>1 DEF SeasonOf
<1>7. Atomic!RollsOver(m) <=> inserted[m] # 0
  <2>1. inserted[m] = 0 => ~Expired(m, row[m])
    BY <1>1 DEF LedgerInv, DecisionStands
  <2>2. inserted[m] # 0 /\ row[m] # 0 => Expired(m, row[m])
    BY <1>1 DEF LedgerInv, DecisionStands
  <2>3. Atomic!RollsOver(m) <=> Last = 0 \/ Expired(m, Last)
    BY <1>4, <1>5 DEF Atomic!RollsOver, Expired
  <2>4. QED
    BY <1>6, <2>1, <2>2, <2>3
<1>8. Atomic!GoesInto(m) = SeasonOf(m)
  BY <1>5, <1>6, <1>7 DEF Atomic!GoesInto
<1>9. seasons' = IF Atomic!RollsOver(m) THEN Atomic!RollOver(m) ELSE seasons
  <2>1. CASE inserted[m] = 0
    <3>1. DOMAIN seasons \cup {SeasonOf(m)} = DOMAIN seasons /\ \A n \in DOMAIN seasons : n # 0
      BY <1>5, <1>6, <2>1
    <3>2. SeasonsWith(m) = [n \in DOMAIN seasons |-> seasons[n]]
      BY <2>1, <3>1 DEF SeasonsWith
    <3>3. QED
      BY <1>1, <1>7, <2>1, <3>2 DEF LedgerInv, Tables
  <2>2. CASE inserted[m] # 0
    <3>1. /\ DOMAIN seasons \cup {SeasonOf(m)} = 1..(Last + 1) /\ SeasonOf(m) = Last + 1
          /\ inserted[m] = Last + 1 /\ row[m] = Last
      BY <1>5, <1>6, <2>2
    <3>2. SeasonsWith(m) =
             [n \in 1..(Last + 1) |-> IF n = Last + 1 THEN Opened(m)
                                      ELSE IF n = Last THEN [seasons[n] EXCEPT !.active = FALSE]
                                      ELSE seasons[n]]
      BY <2>2, <3>1 DEF SeasonsWith
    <3>3. Opened(m) = [starts |-> Atomic!Opening(m), ends |-> Atomic!Opening(m) + Duration, active |-> TRUE]
      BY <1>4, <1>5, <3>1 DEF Opened, StartsAt, Atomic!Opening
    <3>4. ASSUME NEW n \in 1..Last, n # Last
          PROVE  [seasons[n] EXCEPT !.active = FALSE] = seasons[n]
      <4>1. seasons[n] \in SeasonRow /\ seasons[n].active = FALSE
        BY <1>5, <3>4, LastProperties DEF SeasonsInv, SeasonRow
      <4>2. QED
        BY <4>1 DEF SeasonRow
    <3>5. SeasonsWith(m) =
             [n \in 1..(Last + 1) |-> IF n = Last + 1 THEN Opened(m)
                                      ELSE [seasons[n] EXCEPT !.active = FALSE]]
      <4>1. ASSUME NEW n \in 1..(Last + 1)
            PROVE  (IF n = Last + 1 THEN Opened(m)
                    ELSE IF n = Last THEN [seasons[n] EXCEPT !.active = FALSE] ELSE seasons[n])
                   = (IF n = Last + 1 THEN Opened(m) ELSE [seasons[n] EXCEPT !.active = FALSE])
        <5>1. n # Last + 1 /\ n # Last => n \in 1..Last
          BY <1>5
        <5>2. QED
          BY <3>4, <5>1
      <4>2. QED
        BY <3>2, <4>1
    <3>6. QED
      BY <1>1, <1>5, <1>7, <2>2, <3>3, <3>5 DEF Atomic!RollOver
  <2>3. QED
    BY <2>1, <2>2
<1>10. ASSUME NEW p \in PlayersOf[m]
       PROVE  Updated(m, p) = Atomic!Rated(p, m)
  <2>1. old[m][p] = Played(p) /\ Played(p) = Atomic!Recorded(p)
    BY <1>1 DEF RatingInv, OldIsCurrent, Played, Atomic!Recorded
  <2>2. QED
    BY <1>8, <2>1 DEF Updated, Atomic!Rated
<1>11. ratings' = [p \in Player |-> IF p \in PlayersOf[m] THEN Atomic!Rated(p, m) ELSE ratings[p]]
  BY <1>1, <1>10
<1>12. Player = Atomic!Player
  BY DEF Player, Atomic!Player
<1>13. QED
  BY <1>1, <1>4, <1>8, <1>9, <1>11, <1>12 DEF Atomic!Record

\* However the statements of the transactions interleave, fail or go unheard, what they do
\* to the tables is what recording one match after the other does, each with the
\* time of its own end (FinalizeMatch).
THEOREM LedgerImplemented == Spec => RecordsAtomically
<1>1. ASSUME Init PROVE Atomic!Init /\ RatingInv /\ LedgerInv
  <2>1. Atomic!Init
    BY <1>1 DEF Init, Atomic!Init, endOf, Player, Atomic!Player
  <2>2. RatingInv
    <3>1. /\ \A m \in Match : recordedIn[m] = 0 /\ tx[m] = "fighting"
          /\ \A p \in Player : DOMAIN ratings[p] = {}
      BY <1>1 DEF Init
    <3>2. QED
      BY <3>1 DEF RatingInv, RatingsComplete, RecordedOnce, OldIsCurrent
  <2>3. LedgerInv
    <3>1. DecisionStands
      BY <1>1 DEF Init, DecisionStands
    <3>2. seasons = [n \in DOMAIN seasons |-> seasons[n]]
      BY <1>1 DEF Init
    <3>3. ratings = [p \in Player |-> <<>>]
      BY <1>1 DEF Init
    <3>4. QED
      BY <3>1, <3>2, <3>3 DEF LedgerInv, Tables
  <2>4. QED
    BY <2>1, <2>2, <2>3
<1>2. ASSUME SeasonsInv, RatingInv, LedgerInv, [Next]_vars
      PROVE  [Atomic!Next]_(Atomic!vars)
  <2>1. tx \in [Match -> States] /\ endedAt \in [Match -> 0..MaxTime] /\ now \in 0..MaxTime
    BY <1>2 DEF SeasonsInv, TypeOK, States
  <2>2. ASSUME NEW m \in Match, Begin(m)
        PROVE  Atomic!End(m)
    <3>1. /\ tx[m] = "fighting" /\ tx' = [tx EXCEPT ![m] = "select"]
          /\ endedAt' = [endedAt EXCEPT ![m] = now] /\ UNCHANGED db
      BY <2>2 DEF Begin, Goto
    <3>2. endOf[m] = NotEnded /\ endOf' = [endOf EXCEPT ![m] = now]
      BY <2>1, <3>1 DEF endOf
    <3>3. QED
      BY <2>1, <3>1, <3>2 DEF Atomic!End, db
  <2>3. ASSUME UNCHANGED <<db, endedAt>>, \A m \in Match : tx'[m] = "fighting" <=> tx[m] = "fighting"
        PROVE  UNCHANGED Atomic!vars
    BY <2>3 DEF Atomic!vars, endOf, db
  <2>4. ASSUME NEW m \in Match,
               SelectSeason(m) \/ LockSeason(m) \/ CreateSeason(m) \/ Fail(m) \/ Abort(m) \/ ReadRatings(m)
        PROVE  UNCHANGED Atomic!vars
    <3>1. UNCHANGED <<db, endedAt>>
      BY <1>2, <2>4 DEF SelectSeason, LockSeason, CreateSeason, Fail, Abort, ReadRatings
    <3>2. PICK t \in {"lock", "create", "ratings", "write", "failed", "lost"} : tx' = [tx EXCEPT ![m] = t]
      BY <2>4 DEF SelectSeason, LockSeason, CreateSeason, Fail, Abort, ReadRatings, Goto
    <3>3. tx[m] # "fighting"
      BY <2>4 DEF SelectSeason, LockSeason, CreateSeason, Fail, Abort, ReadRatings, Goto, InTransaction
    <3>4. QED
      BY <2>1, <2>3, <3>1, <3>2, <3>3
  <2>5. CASE Tick \/ UNCHANGED vars
    BY <2>3, <2>5 DEF Tick, vars
  <2>6. ASSUME NEW m \in Match, Commit(m)
        PROVE  Atomic!Record(m)
    BY <1>2, <2>6, CommitRecords
  <2>7. QED
    BY <1>2, <2>2, <2>4, <2>5, <2>6 DEF Next, Statement, Atomic!Next
<1>3. QED
  BY <1>1, <1>2, SeasonsKept, StepKeepsRatings, StepKeepsDecisions, PTL
     DEF Spec, RecordsAtomically, Atomic!Spec
============================================================================
