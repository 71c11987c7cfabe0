------------------------------- MODULE Accounts -------------------------------
(***************************************************************************)
(* The players' tables and the statements on them: players, player_profiles*)
(* and tutorial_runs (src/internal/storage).  Every statement, and the one *)
(* transaction of CreateTutorialRun, is one step here: it takes hold as a  *)
(* whole or not at all, and a key or a row lock puts two of them in order. *)
(***************************************************************************)
EXTENDS Integers, FiniteSets

CONSTANTS
    Handle,     \* the configured users
    Identity,   \* the uuids there are to draw from
    Nobody      \* what a look-up that finds no row returns

ASSUME AccountsConstants == Nobody \notin Identity

VARIABLES
    players,    \* players: the identity of each handle
    profiles,   \* player_profiles, by player
    runs,       \* tutorial_runs: how many rows each player has
    clock       \* counts the completions, for the time stamp of the first one

dbVars == <<players, profiles, runs, clock>>

Never == -1     \* tutorial_completed_at is NULL

NoProfile  == [exists |-> FALSE, completed |-> FALSE, at |-> Never, runs |-> 0]
NewProfile == [exists |-> TRUE, completed |-> FALSE, at |-> Never, runs |-> 0]

DBInit ==
    /\ players = [h \in Handle |-> Nobody]
    /\ profiles = [p \in Identity |-> NoProfile]
    /\ runs = [p \in Identity |-> 0]
    /\ clock = 0

----------------------------------------------------------------------------
Drawn == {players[h] : h \in Handle}

\* A new uuid is nobody else's.
Fresh(p) == p \in Identity \ Drawn

\* Fault: the handle's row is overwritten.
InsertOver(h, p) ==
    /\ Fresh(p)
    /\ players' = [players EXCEPT ![h] = p]
    /\ UNCHANGED <<profiles, runs, clock>>

InsertPlayer(h, p) ==
    /\ Fresh(p)
    /\ players[h] = Nobody
    /\ players' = [players EXCEPT ![h] = p]
    /\ UNCHANGED <<profiles, runs, clock>>

\* ON CONFLICT DO NOTHING.
InsertProfile(p) ==
    /\ profiles' = [profiles EXCEPT ![p] = IF profiles[p].exists THEN profiles[p] ELSE NewProfile]
    /\ UNCHANGED <<players, runs, clock>>

\* Fault: the conflict takes the 1 of the row that was to be inserted.
InsertRunExcluded(p) ==
    /\ runs' = [runs EXCEPT ![p] = runs[p] + 1]
    /\ profiles' = [profiles EXCEPT ![p].exists = TRUE, ![p].runs = 1]
    /\ UNCHANGED <<players, clock>>

\* The run's row and the counter in the profile, in one transaction.
InsertRun(p) ==
    /\ runs' = [runs EXCEPT ![p] = runs[p] + 1]
    /\ profiles' = [profiles EXCEPT ![p].exists = TRUE, ![p].runs = profiles[p].runs + 1]
    /\ UNCHANGED <<players, clock>>

\* Fault: the latest completion is kept, not the first.
CompleteAgain(p) ==
    /\ profiles' = [profiles EXCEPT ![p].exists = TRUE, ![p].completed = TRUE, ![p].at = clock]
    /\ clock' = clock + 1
    /\ UNCHANGED <<players, runs>>

\* COALESCE keeps the time of the first completion.
CompleteProfile(p) ==
    /\ profiles' = [profiles EXCEPT ![p].exists = TRUE, ![p].completed = TRUE,
                                    ![p].at = IF profiles[p].at = Never THEN clock ELSE profiles[p].at]
    /\ clock' = clock + 1
    /\ UNCHANGED <<players, runs>>

----------------------------------------------------------------------------
DBTypeOK ==
    /\ players \in [Handle -> Identity \cup {Nobody}]
    /\ profiles \in [Identity -> [exists : BOOLEAN, completed : BOOLEAN,
                                  at : Nat \cup {Never}, runs : Nat]]
    /\ runs \in [Identity -> Nat]
    /\ clock \in Nat
============================================================================
