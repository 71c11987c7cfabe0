# Terminal Wrestling League: specification and proofs

The Terminal Wrestling League is a Go server. Players connect with SSH, wait in a
queue, are paired, and fight turn-based matches whose results move a rating.
This directory holds TLA+ models of the parts of that server that run
concurrently or decide something, the TLC configurations that check them on
small instances, and theorems that TLAPS proves for instances of every size.

Line numbers below refer to files under `src/`.

## 1. The system

| Part | Source | State it keeps | Operations |
|---|---|---|---|
| Lobby | `internal/lobby/service.go` | registered sessions, queue slice, `queuedAt` map | Register, Unregister, JoinQueue, LeaveQueue, PopNextPair, Snapshot, QueueStatus, GetSession |
| Matchmaker | `internal/matchmaking/service.go` | `inMatch`, active matches, run context, wait group | Enqueue, Dequeue, StartNPCMatch, queue loop, runMatch, runNPCMatch, Start, Stop |
| Turn loop | same file, 412-1038 | per slot: who controls it, run of timeouts, NPC stream | collectTurnInputs, waitForTurnInput, resolveTurnInput, orderTurnResultsBySlot |
| Spectators | `internal/spectator/hub.go`, `WatchByHandle` | watchers per match, capacities, handle index | RegisterMatch, UnregisterMatch, AddWatcher, RemoveWatcher, Broadcast |
| SSH shell | `cmd/server/ssh_server.go` | per connection: session, tutorial flag | the commands, the tutorial flow, the menu |
| Rate limiting | `cmd/server/rate_limit.go` | a token bucket per host and per player | Allow |
| Player provisioning | `cmd/server/player_ensurer.go` | (database) | EnsurePlayerSession |
| Combat | `internal/combat`, `internal/engine` | match state, RNG | ResolveTurn, CanonicalizeInputs, Step |
| NPC | `internal/npc/engine.go` | none | Decide |
| Ranking | `internal/ranking/glicko2.go` | none | Glicko-2 update |
| Storage | `internal/storage` | PostgreSQL | FinalizeMatch, season rollover, profiles, tutorial runs, telemetry |
| Migrations | `internal/storage/migrations.go`, `db/migrations` | `schema_migrations` | ApplyMigrations |
| Replay | `internal/replay/replay.go` | none | Replay |
| Animation | `internal/animation/renderer.go` | previous frame | Render |
| Telemetry | `internal/telemetry` | counters | counters, anti-bot score |
| Configuration, main | `cmd/server/config.go`, `main.go` | none | startup |

How they interact. Each SSH connection has a shell goroutine that runs one
command at a time. It calls the lobby and the matchmaker directly; those guard
their maps with a mutex each, and an operation of the matchmaker takes both
mutexes, one after the other and never nested. One queue loop pops pairs from the
lobby on a ticker. Each match has a goroutine of its own, which reads the two
players' `Input` channels and writes their `Output` channels and the spectators'.
Matches end in one database transaction.

Where it is hard:

* the busy mark of a player (`inMatch`), his queue entry and his session live in
  two services with two locks, and shells, loop and matches test and change them
  in separate steps;
* a disconnect, a reconnect, `npc`, `l` and Stop can come between any two of them;
* a turn waits for two players, two timers and a cancellation, and decides from
  what came first who controls a fighter from then on;
* watchers come and go while a match broadcasts and ends;
* two matches that end together update the same ratings and may both find the
  season expired;
* several servers share one database: they migrate it together, and first logins of one
  handle, two tutorials of one player and their retries meet in its tables;
* any statement may fail, or take hold and its answer get lost; any server may die.

What makes each part correct:

* *Lobby*: queue and index list the same players once each; only connected
  players wait; the oldest two are paired; nobody is lost by a pop, and nobody overtakes
  anybody between two pops.
* *Matchmaker*: nobody is in two matches; nobody stays busy for ever; two waiting
  players get served; Stop returns and leaves no match behind.
* *Turn loop*: a turn ends; control passes to the NPC for a reason and for good; no
  reader of a session's commands survives its turn.
* *Spectators*: the cap holds; a channel is closed once and never written after; a
  watcher is let go when his match ends.
* *Storage*: a match counts once; exactly one season is active; ratings add up.
* *Shell, provisioning*: one player per handle for ever; nobody queues without a
  tutorial; a session ends when its client is gone.
* *Migrations*: in order, before anybody serves, and never all servers defeated.
* *Rate limiting*: no key is granted more than its budget, whatever the clock does.
* *Combat*: every resource stays in its range; the result does not depend on the
  order in which the two inputs arrive.

What can go wrong in each of these places is listed, at its line, in
`PROJECT.json` under `hazards`, with the properties that would notice.

## 2. Modules

| Module | Models | Composes |
|---|---|---|
| `Lobby` | the lobby service | - |
| `Matchmaking` | the matchmaker and the shells that drive it | extends `Lobby` |
| `Ownership` | what the matchmaker promises about players (abstract) | refined by `Matchmaking` |
| `TurnLoop` | one match: readers, takeover, cancellation, drain | discharges what `Matchmaking` assumes of a match |
| `Takeover` | how a match is promised to be played and to end (abstract) | refined by `TurnLoop` |
| `Spectators` | hub, index of active matches, watch command | - |
| `Seasons` | the transactions that record matches and roll the season over | assumes of its callers what `Matchmaking` guarantees |
| `Ledger` | what recording a match promises (abstract) | refined by `Seasons` |
| `Combat` | one fight, turn by turn | what `TurnLoop` leaves open in a turn |
| `RateLimit` | the limiter, its clock and the calls in flight | - |
| `Migrations` | the start of a server: ApplyMigrations, failures, deaths | - |
| `Accounts` | the tables of players, profiles and tutorial runs | - |
| `Shell` | connections from login to end, with the tutorial gate | extends `Migrations` and `Accounts` |
| `LobbyProofs`, `MatchmakingProofs`, `TurnLoopProofs`, `SpectatorsProofs`, `SeasonsProofs`, `CombatProofs`, `RateLimitProofs`, `ShellProofs` | theorems and proofs | extend the module they name |
| `MC...` | constants, symmetry and bounds for TLC | extend the module they name |

A definition named *fault* is a mistake one could make in that place of the code.
No specification uses it; it is there so that one can replace the definition
after it and see which property notices.

### Lobby

Every operation of the code runs under one mutex and is one action. `sessions` is
the session map, `queue` and `queuedAt` are the slice and the map of the same
name. `popped` is what the last `PopNextPair` returned, until the queue loop has
dealt with it. `PopNextPair` takes the time as an argument, and the loop reads its
clock before the lock is taken, so the argument may be any time up to now.
A refused `Register` or `JoinQueue` is a step that is not enabled: the caller sees
an error and the lobby does not change. `Filtered` stands for the two loops that
rebuild the slice; it is defined without recursion so that it can be proved about
(`FilteredProperties`). The lobby is checked as part of `Matchmaking`, which calls
every operation of it.

### Matchmaking

`inMatch` is the map of busy players. `shell[s]` is where the shell of session
`s` is inside an operation, `loop` where the queue loop is, `match[m]` the players a
match goroutine has yet to release, `server` how far Stop has come. An
operation is cut where it gives up a lock and another goroutine could decide
something from what it left:

| Code | Steps |
|---|---|
| `Enqueue` (174-201) | `EnqueueCheck`, `EnqueueJoin`, `EnqueueAnswer` |
| `Dequeue` (203-226) | `Dequeue` |
| `StartNPCMatch` (228-288) | `StartNPCReserve`, `StartNPCMatch` |
| end of `runShell` (272-286) | `Dequeue(s, "unregister")`, `Disconnect` |
| `processQueue` (318-410) | `LoopPop`, `LoopReserve`, then `LoopStartMatch` or `LoopPeerMissing`, `LoopUndo`, `LoopRequeue` |
| `releasePlayers` (1101) | `MatchRelease` |
| `Stop` (158-172) | `StopCall`, `StopReturn`, `LoopExit` |

Joined into one step: the two look-ups of the sessions with the start of the match
(nothing happens between them that the second does not see); the notices to
the timed-out players with the pop; a signal with the call of Stop, which cancels
the same context. `waiting` is the set of sessions whose last frame about the queue
told them that they wait; it exists for the property about what a
player was told. `queueJoinedAt` is left out: it only times the queue for
telemetry. `JoinQueue` cannot fail inside `EnqueueJoin` because the shell's
session is registered (`RegisteredWhileOpen`, proved). A match needs a name;
one per player is enough, since no player is in two (`HeldOnce`; `NamesSuffice` proves it).

### TurnLoop

A match is `practice` (runNPCMatch: one human slot) or ranked (two). `reader` is
the set of slots with a running reader goroutine, `results` the channel they answer
on, in order of arrival; `input` is each session's buffered `Input`. `replay` records who
gave each slot's input in each turn and `drawn` how many decisions were taken from each
slot's NPC stream. A select takes any branch that is ready, so `ReadCommand`,
`ReadClosed`, `Timeout` and `Canceled` are alternatives; a timeout may come at any
moment, however short. Whether a turn ends the fight is left open (`finished'` is
either): the resolver decides it from data this module does not have. Left out: the
errors of a resolver or a fighter that cannot be built, which no input of this
program causes, and non-action commands in `Input`, which the shell never sends.

`Takeover` says what the two players see of all this: a turn is one step in which each slot is played
by the player, by nobody or by the NPC; the NPC keeps what it has, a player loses his slot only by
leaving or by missing two turns in a row, and the match goes on until it is decided, out of turns or stopped.
`KeepsPromise` is the refinement: `log` is `replay`, `decided` is `finished`, and the match is `over` once
the loop is left. `Work` is how much is left to do: five steps for each turn still to play, and what the phase
of the present one still takes. What a reader of the takeover policy would list one by one follows from
`Takeover`, so no run checks it again: control never comes back and the second of two missed turns is the NPC's
(`ControlHistory`), and nobody is replaced without cause (`TakeoverHasCause`). Both are proved.

### Spectators

A match goroutine runs `RegisterMatch`, broadcasts, and then takes itself down in
the order of `unregisterActiveMatch`: `EndMatch` closes Done, `Unindex` clears
the index under the service's mutex, `UnregisterMatch` takes the watchers out under the
hub's, `CloseChannel` closes them one by one without it. `Broadcast` copies the channels
under the read lock and `BroadcastTo` sends after it. A watch command looks the match
up, attaches, receives, and leaves when Done is closed, the context is cancelled or
the channel is closed; `RemoveWatcher` is its deferred call. `panicked` is a
send on a closed channel or a second close, and nothing runs after it. That a handle
is not in two running matches is `HeldOnce` of `Matchmaking`.

### Seasons

`tx[m]` is the statement at which the transaction of match `m` is: `SelectSeason` and
`LockSeason` are the two halves of `SELECT ... FOR UPDATE` (598-615), `CreateSeason` the
insert (617-636), `ReadRatings` the two reads (547-566), `Commit` the writes and the
commit. PostgreSQL's READ COMMITTED is the default, which the code keeps, and the steps follow its rules:

* a statement sees what was committed when it started (`SelectSeason`);
* FOR UPDATE waits for whoever has the row and then tests the row again; if it was
  closed in the meantime, no row comes back (`LockSeason`);
* an insert waits for another uncommitted insert of the same key and fails on a committed one
  (`CreateSeason`, `Fail`); the keys are the season's number and the one active season;
* what a transaction wrote is seen by the others at once, at `Commit`, or never
  (`Fail`, `Abort`). A commit of which the program does not hear (`lost`) is possible.

A rating is the set of the matches that went into it, in its season or, through the soft
reset, in earlier ones; the numbers of Glicko-2 are not modelled. `Begin` has a guard:
no two open transactions share a player, because players stay busy until their match
has been finalized (`HeldOnce`). The replay, the match row and its two results are
written in the same transaction as the ratings and are `recordedIn`.

`Ledger` says what all this amounts to: a match ends at some time, and later it is recorded in
one step or never. The time of its end, not of the commit, decides whether the active season
has expired; the next one is opened in the same step, one season further even if several have
passed; both ratings take in the match and all that was recorded of their players.
`RecordsAtomically` is the refinement: the tables are mapped to themselves, and a match has ended for
`Ledger` as soon as its transaction has begun (`endOf`). It contains what one would ask of the tables one by
one: seasons in sequence, complete ratings, closed seasons that stay closed (`SeasonsInSequence`,
`RatingsComplete`, `ClosedSeasonsAreFinal`). Each is proved on its own, and the faults that break one of
them break the refinement.

### Combat

`ResolveTurn` is one step, as the resolver is one call. `m` in its operators is the
code's `next`, the variables are the code's `state`; so `fighter[f].stunned` is
`stunnedAtTurnStart` of the context and `m.fighter[f].stunned` the counter that was
already counted down. The integer rules are those of `rules.go`, with divisions that
round down; the limits (100 hit points, 100 stamina, 50 momentum, 30 for a combo, 20 for
fatigue) are constants, so that TLC can take small ones and the proofs any.

A random draw is modelled by whether it is below the chance it is compared with. The
chance of a move and of a submission are clamped to 10..90 per cent, so the attributes,
the guard and the fatigue decide how often, not whether, either happens; the chance of a stun
may be zero, and `StunChance` decides that. A draw that the code does not make, after a
miss, is none in the model either (`Luck`). The order of the inputs cannot matter:
they are taken by player, and the fighters act in the order of their ids (`First`).
`Distance` stays 1, which every move reaches. Events, checksums, LastAction and
LastActionSuccess are outputs and left out; `combo` only carries the local of that name
from the success to the damage, and `hitOn` (when a zone was last hit) is kept for a property.

### RateLimit

`ReadClock` and `Allow` are the two halves of the code's `Allow`: `time.Now().UTC()` at line 42,
before the lock, and everything after it. `SetBack` is a wall clock that is corrected:
`.UTC()` drops the monotonic reading. `Kept` is the sweep over all buckets, which any call
may do to any key. The code counts tokens in floating point; here a token has `Cost` parts, so
that a tick refills a whole number of them. `Rate * Ttl >= Burst`, an assumption of the
module, holds of both limiters of the server: 15 minutes fill every bucket, which is why dropping
one gives nothing away. `account` is history, no more: what a key could still have
been granted by a bucket of the same rate that never overflows and was full when the
account was opened. `OpenAccount` opens it again at any moment, so that `WithinBudget` speaks of
every interval.

### Migrations, Accounts, Shell

`boot[s]` is how far `ApplyMigrations` of server `s` is: `LoadApplied` the one query
for the versions applied, `Migrate` the statements of one migration with its row
(`tx`, not yet committed), `Commit` its commit, `Refuse` the unique violation after another server
has committed the same version, which ends the process. The files of two servers may
differ: they are of two releases. `Die` is a failed statement or the death of the process;
what was open is rolled back, or committed and its answer lost. `Start` is whoever runs the
server, again if he likes.

`Accounts` has a step for each statement on `players`, `player_profiles` and
`tutorial_runs`, and one for the transaction of `CreateTutorialRun`: the row locks and keys of
PostgreSQL put such statements in an order. `clock` counts the completions and stands for
`NOW()`.

`shell[c].pc` is the call that the goroutine of connection `c` makes next:

| Code | Steps |
|---|---|
| `passwordCallback`, accepted | `Connect` |
| `EnsurePlayerSession` (player_ensurer.go 25-57) | `LookUp`, `CreatePlayer` or `IsUniqueViolation`, `LookUp` again, `EnsureProfile`, `ReadProfile`, `LoginFails` |
| `Register` (241-252) | `Register`, `RefuseSession` |
| `runTutorialFlow`, `RunTutorial` | `FollowPrompts`, `Fight`, `RecordRun`, `MarkCompleted` |
| `q`, `l`, `tutorial retry`, `quit` | `Play`, `LeaveQueue`, `TutorialRetry`, `Quit` |
| `Scan` returns false | `EndOfInput` |
| the deferred calls (272-286) | `Leave` |

A connection that has ended may be used for the next one. The lobby is here only who is
registered and who is queued; what happens between the calls of the queue is in
`Matchmaking`, what happens to moves in `TurnLoop`, and a watch in `Spectators`. The errors of
`CreateTutorialRun` and `MarkTutorialCompleted` are dropped by the code, so both steps
may leave the database as it was and go on. `fought` is history.

## 3. What the runs show

| Run | Bounds | Result |
|---|---|---|
| `matchmaking` | 3 players, one connection each, 3 matches, timeout 1, clock to 1 | 4 properties hold, two of them of the lobby |
| `reconnect` | 2 players, the first connects twice, no timeout | 5 properties hold, with fairness |
| `turn_loop` | 3 turns, Input of 2, ranked and practice | 6 properties hold, with fairness |
| `spectators` | 2 matches of one player, 2 watchers, cap 1, channel of 1 | 7 properties hold, with fairness |
| `seasons` | 3 matches, two of them of the same players, seasons of 1 tick, clock to 3 | 4 properties hold, with fairness |
| `combat` | 3 turns, 6 moves, 38 hit points, 12 stamina | 4 properties hold |
| `rate_limit` | 2 keys, 2 calls in flight, clock to 3, set back once | `WithinBudget` holds |
| `shell` | 2 servers of 2 releases, 2 starts, 2 connections of one handle, 2 fights each | 9 properties hold, with fairness |
| `popped_not_served` | 2 players | `PoppedAreServed` fails |
| `quit_not_at_once` | 2 turns | `QuitTakesOver` fails |
| `watcher_panic` | as `spectators` | `NeverPanics` fails |
| `rollover_loses_match` | as `seasons` | `FinishedIsRecorded` fails |

Why the bounds are enough. Three players are the least with a pair and somebody who
waits behind it; a second connection of one player is the least that can meet what
the first left behind. The clock passes the timeout, so a pop meets live, expired
and mixed queues. Two timeouts in a row make a takeover, so three turns show a
takeover, a turn before it and one after it; an Input of two holds a move and the
quit behind it. With two matches that share one handle the index has an entry to
keep and one to clear at the same time, and one place for two watchers fills
the hub. Three matches are the least with two transactions that compete for a season and
a third, of one of the same pairs, that finds what they left; a clock of three seasons lets
seasons pass in which nothing ends. Three turns and little health reach a knockout, a
submission (two grapples each in two turns), a fighter without the stamina for a
grapple, a penalty that is renewed and one that runs out. Two calls and two keys are the least with a
call that overtakes another and one that sweeps another's bucket; a clock of 3 passes the
time to live of 2, and a bucket of 4 parts, 3 to a token, is refilled past its brim and left with
a rest. Two servers of which one lacks a version between two it has are the least that can
defeat each other and that could run one out of order; two connections of one
handle are the least that race for it, register twice or fight two tutorials on two
servers. Where a bound looks small, a theorem of section 4 holds for every size: of the
safety properties of the passing runs all are proved.

Bounds in the modules: `MaxTime` stops the clock, `Match` limits how many matches are
named (`NamesSuffice` proves that as many as players are enough), `MaxTurns` and the two `BufferSize` are the program's own limits with smaller
values, and so are `HPMax`, `StaminaMax`, `MomentumMax`, `ComboAbove` and
`FatigueThreshold`; `Moves` are the inputs tried. `MaxStarts`, `MaxLogins`, `MaxFights` and
`MaxSetBacks` limit how often something outside the program happens. No run looks for
deadlocks: in every model everything may be over, with every connection closed, every
match ended or the clock at its bound; the liveness properties say who must not wait.

### What the code does not keep

* `popped_not_served`. processQueue takes both players out of the lobby and, when one
  of them has become busy meanwhile (line 376), returns. The other was told that he
  is in the queue; he is in no queue and no match, and nothing tells him.
* `quit_not_at_once`. A reader takes commands in order: a move that was buffered before
  the quit is played in the turn after it. The takeover comes one turn late.
* `watcher_panic`. When the run context is cancelled a watcher's deferred
  `RemoveWatcher` closes its channel, and a broadcast that has copied the channel sends to
  it: the process panics in the middle of an orderly stop. `OnlyStopPanics` shows
  that without a cancellation this cannot happen: a match sends nothing after Done.
* `rollover_loses_match`. A transaction waits for the row of an expired season; the one it
  waits for closes that season and opens the next. The locking select then returns
  no row, which the code takes for "there is no season yet" (541): it inserts number 1, fails on the
  unique key, and the match is rolled back. Nothing retries, the players read a warning, and the
  match never counts. Two matches that end before there is any season do the same.

Two smaller disagreements have no run of their own. "No hit yet" is turn 0, and so is the turn
before the first, so an offensive success in turn 1 is a combo (`resolver.go:135`), which
`docs/combat-determinism.md:45` does not say. And the index of active matches is keyed by the
lower-cased handle although handles that differ in case are different players: with two
such users one's match takes the other's out of the index. The theorem `IndexIsRight` has
the condition that no two handles do.

### Fairness

Weak fairness on the steps of a goroutine that can run: the rest of an operation a
shell has begun, the queue loop (a ticker wakes it), a match, a reader (it has a
timer), a watcher (Done, the context or its channel wakes it). Nothing is assumed of
the players: no command, no connection and no disconnection ever has to come, and Stop
need not be called. In `Seasons`, a transaction goes on whenever its statement waits for
nobody; the time and the end of a match are never forced. `Combat` has no liveness
property: that turns follow each other is `TurnLoop`'s. In `Shell` the goroutine of a connection goes
on whenever it is in a call; it waits for its client as long as he likes, and once he has hung up
the next read returns. Servers need not start, migrate or stay alive.

Strong fairness in two places. `LoopExit`: the loop's select has a tick and a
cancelled context to choose from and Go chooses at random, so it does not take the
tick for ever. `EndMatch`: a match ends after at most MaxTurns turns, however many
broadcasts it makes on the way (`MatchEnds` of `TurnLoop`). In the same way
`MatchRelease` is fair in `Matchmaking` because of `MatchEnds`.

`StopReturns` has an exception in it: StartNPCMatch does not ask whether the matchmaker
still runs and adds to the wait group that Stop waits for, so players who keep
starting practice matches keep Stop from returning.

## 4. What is proved

Every theorem holds for every number of players, connections, matches, watchers, servers and
transactions, every length of a match, a queue or a season, and every clock. What
it assumes of the constants is the named ASSUME of its module, and nothing else, with one
exception that its statement shows:

| Assumption | Content |
|---|---|
| `LobbyConstants` | sessions are pairs of a player and a connection, times are numbers, the two "none" values are none of the rest |
| `TurnLoopConstants` | a match has at least one turn, `Input` room for a command |
| `SpectatorsConstants` | the cap and the channels are positive |
| `SeasonsConstants` | a season has a length, a match two players |
| `CombatConstants` | two fighters, attributes from 1 to 10, at least one hit point |
| `RateLimitConstants` | the time to live fills a bucket |
| `MigrationsConstants`, `AccountsConstants`, `ShellConstants` | each release has finitely many migrations, nobody is no identity, finitely many connections at a time |
| finitely many players and no fewer match names, in `NamesSuffice` only | the matches of the code have no names to run out of |
| `FoldTellsApart`, in `IndexIsRight` only | no two handles differ in case only |

| Theorem | States |
|---|---|
| `FilteredProperties` | filtering a sequence keeps exactly the wanted elements, in order |
| `LobbyCorrect`, `LobbyStaysConsistent` | queue, index, sessions and reports agree and the queue is in order of arrival: for any callers, and under shells and loop |
| `QueueIsFIFO`, `LoopServesInOrder` | a pop pairs the two at the head of the queue, never an expired one, and loses nobody; nobody overtakes anybody, and newcomers stand last |
| `MatchmakingTyped` | the type invariant of the matchmaker |
| `BusyPlayersAreHeld` | the busy marks are exactly the players somebody will release, and one will release each |
| `MatchesAreExclusive` | no player is held twice |
| `SessionsAreRegistered` | a session is registered exactly while its shell is open |
| `StopIsFinal` | after Stop no ranked match runs or starts |
| `NamesSuffice` | with as many match names as players one is free whenever a match starts: the bound `Match` cuts nothing off |
| `OwnershipImplemented` | `Matchmaking` refines `Ownership` |
| `TurnLoopTyped` | the type invariant of a match |
| `AnswersAreOfTheTurn` | one reader or one answer per slot, and no reader outlives its turn |
| `ControlIsKept` | the NPC keeps a slot it has got, and gets it with the second missed turn |
| `NobodyIsReplacedWithoutCause` | who has not left is replaced only after a missed turn |
| `StreamsFollowReplay` | each NPC stream is drawn once per turn that the NPC plays |
| `MatchIsBounded` | every step of a match leaves less to do: at most 5 MaxTurns + 4 of them |
| `NoAnswerIsMissed` | the match never waits for an answer that nobody is left to give |
| `PromiseKept` | `TurnLoop` refines `Takeover` |
| `SpectatorsTyped` | the type invariant; no channel is overfull |
| `CapHolds` | no match has more watchers than the cap |
| `PanicsOnlyWhenStopped` | until the server is stopped no channel is closed twice or written after its close |
| `ChannelsHaveOneCloser` | an open channel is in exactly one hand that will close it, the hub's or its match's |
| `IndexIsRight` | the index leads to the running matches and nowhere else |
| `SeasonsTyped`, `SeasonsFollow` | types; seasons without a gap, exactly the last one active |
| `WritersAlone` | one transaction at a time is between its choice of a season and its commit |
| `ClosedIsClosed` | no match is recorded in a closed season |
| `RatingsAddUp` | a rating contains exactly the player's recorded matches |
| `NoDeadlock` | nobody whose row or key another transaction waits for waits himself |
| `LedgerImplemented` | `Seasons` refines `Ledger` |
| `ResourcesInRange` | hit points, stamina, momentum and effects stay in their ranges |
| `StancesAgree` | a fighter is stunned exactly when he loses the next turn, else where the match is |
| `WinsAreEarned` | a knockout is of the one without hit points, a submission out of an attempt |
| `EffectsInTime` | a stunned fighter sits out exactly the next turn, a penalty lasts exactly two |
| `RateLimitTyped`, `LimiterWithinBudget` | types; no key is granted more than its budget in any interval |
| `ShellTyped` | the types of servers, tables and connections |
| `MigrationsInOrder` | no migration before a lower one, no service before all of them |
| `OneGetsThrough` | servers that start together never all defeat each other |
| `OneIdentity` | one player per handle, one handle per player |
| `GateHolds` | nobody is queued who never fought a tutorial to its end |
| `CompletionStays` | a stored completion keeps its time |
| `SessionsHaveOwners` | everybody registered or queued has exactly one shell that will take him out |
| `EveryRunCounted` | the counter of tutorial runs is the number of recorded runs |

*Lobby.* `LobbyInv` is inductive as it stands. The work is in `Filtered`: the n-th
kept element is chosen as the position with n kept positions up to its own, and
`PickEnumerates` shows by cardinalities that these positions exist, are unique and
increase. From it follow that a removal keeps the order and that a pop splits the
queue into what expired, the pair and the rest (`PopSplitsQueue`). Two players who joined in
the same tick have the same time, so the times do not show who is first: `KeepsHisPlace`
speaks of places. `ShorterKeepsPlaces` is its core: a queue of some of the players of another, each
two in the order of the other, moves nobody, because nobody waits twice.

*Matchmaker.* `HeldOnce` and `BusyIsHeld` are not inductive alone. `MMInv` adds to them:
the lobby's invariant; the types; that a registered session belongs to the player it
is registered for (`SessionsOwned`) and is exactly the one of an open shell
(`RegisteredWhileOpen`), without which a match could start with the session of
somebody else; that something is popped exactly while the loop is pairing
(`PoppedWhilePairing`), without which a stale pair could be released a second time; and
`StopWaitsForMatches`. The ownership part is argued once for all actions: a step
takes free players into an empty holder, hands what one holder has to an empty
one, gives back what a holder has, or leaves the holders alone (`OwnershipStep`).
`OwnershipKeeps` shows that any such step keeps both invariants, `ShellOwns`,
`LoopOwns` and `MatchOwns` that every action is one. The same four cases are the
actions of `Ownership`, so the refinement follows from them: `held`, the players each shell,
the loop and each match has, is what `Matchmaking` gives `Ownership` for its variable.

*Turn loop.* `TurnInv` adds to the four properties what ties them to the present:
`AnswersKnowControl` (an answer says "npc" exactly for the slots the NPC plays, and nothing is
left of a turn after it), `GoneHaveLeft` (a quit in a channel, or an answer that says so, is
of somebody who has left), `ControlFollowsReplay` (the last recorded turn
says who controls a slot and whom it missed) and `StreamInv` (within a turn a stream may be
one decision ahead of the recorded ones). With two answers each slot has exactly one
(`BothAnswered`), so what is recorded does not depend on their order. `WorkFalls` is the safety half of
`MatchEnds`: it needs that the answers of a turn are at most two, and two when no reader is left
(`AtMostTwoAnswers`), which follows from their being of different slots. That the steps are taken
is fairness, and left to TLC. `PromiseKept` needs `EndInv` besides: a turn is collected only while the
fight is open, and an answer says "canceled" only when the server is being stopped, so that a match
which is abandoned in the middle of a turn ends for a reason that `Takeover` allows.

*Spectators.* `HubInv`: a watcher that the hub has is watching that match and his channel is
open (`HubHoldsItsWatchers`); a channel an ended match still has to close is open, out of the
hub, and of that match (`ClosingOnce`). So every close is the first one. A send may
meet a closed channel only where `OpenWhileRunning` allows it: the match still sends and
its watcher has left, which takes a cancelled run. `InOneHand` is
the converse: whoever is in a watch and whose channel is open is in the hub or on the list of
the match that took him out of it. Together they are `OneCloser`, which needs no condition on the run. The index needs `HandlesApart`
and `EntriesAreOwn`: an entry is removed by the match whose key it is.

*Seasons.* `LockInv` says that only the last season is ever locked, by one transaction, that
only the next one is ever inserted, by the one that has the lock or, before there
is any, by one, and that a transaction past its choice has one of the two. From it follows
that there is one writer (`AtMostOne`), and from that, that a rating that was read is still
the committed one when it is written (`OldIsCurrent`): this is where a lost update would
show. That it was the right one to read needs `HaveLatest` and that no season is later
than the one a transaction works in (`WorksInTheLast`). `NoDeadlock` is read off `LockInv`: who has the
row has chosen his season already and only ever asks for the key of the next, which nobody else can
have. For `LedgerImplemented` two more facts are needed: a transaction that has made its choice made
the one that the end of its match asks for (`DecisionStands`: the season it has locked is the last, and
expired if it has inserted the next one), and the committed tables are
functions of the season, so that a table whose entries did not change is the same table (`Tables`). Then only `Commit` is a step of `Record` (`CommitRecords`), `Begin` one of `End`, and
all other statements change nothing that `Ledger` sees.

*Combat.* `CombatInv`, the conjunction of the first three properties, is inductive: what a
grapple may do to a fighter who is stunned depends on the positions, and that nobody
is knocked out twice on the outcome. A turn is a composition of operators, so the
argument is too: `MatchInv` says of the match on its way what the invariant says of it
between turns (a fighter who was stunned until now may still look it), and one lemma
per operator shows that it comes out again. Between the hit and its judgement it does
not hold; there `Unjudged` takes its place, from `StruckKeeps` through `GrappledKeeps`
to `KnockedOutKeeps`. `EffectsInTime` needs `TimedInv` besides: a penalty is a function of
the last hit and of the turn. `QuietParts` says that nothing but a hit touches a
penalty, `StruckTiming` what a hit does, and `ActTiming` that the move of one fighter
neither hurts him nor costs the other stamina, so that whoever skips his move neither
pays nor harms.

*Rate limiting.* `KeyInv`: an account is booked as far as its bucket, a bucket that is not there
counts as a full one, and a bucket never holds more than its account. Each call books
the same elapsed time into both, and the brim only takes from the bucket. A dropped
bucket is where it is tight: the account has to have refilled by then, which is the
assumption on the time to live.

*Start of the servers.* `OneGetsThrough` rests on a leader. `Ahead(r)`: whatever `r` has left to do
lies above all that is applied or being applied by somebody else, so nobody can defeat
it. Each step keeps such an `r` or passes the lead: a server that commits a version
from `r`'s list is ahead of `r` from then on. It takes `TakesTheLeast`, the
common order of the files, and would not hold without it.

*Accounts and the gate.* `GateInv` carries the fight from the shell to the table and back: a
completion that is stored, one that a shell knows of, and a shell that is recording a
run all belong to somebody who fought (`Stored`, `HasFought`). `CountInv` counts the
connections that have fought and not yet recorded, each with a fight of its own, so
that two tutorials of one player on two servers are not counted against one fight.
`OneSessionEach` says of each server that its registered players are those of its shells in a session
(`Owners`), each of one. It is inductive with the types: `SessionSteps` shows that
only `Register` begins a session and only `Leave` ends one, whatever the shell does in between.

### Only model-checked

Liveness (`BusyEnds`, `PairsAreServed`, `StopReturns`, `MatchEnds`, `WatchEnds`,
`ChannelsAreClosed`, `FinalizeEnds`, `HangUpsEnd`): TLAPS does not reason about ENABLED, which
fairness needs. Every safety property of a passing run is proved. What a recursive
definition computes for every input is out of the prover's reach, since its induction
theorems take an operator; a module with RECURSIVE operators cannot be proved about at all, so
there are none.

## 5. Not modelled, and what is left

Left out of the modules above: `queueJoinedAt`, which only telemetry reads; the SSH
handshake, the menu's pages and help texts; the telemetry, navigation and replay rows, single
inserts that nothing reads back; `EnsureActive`, `GetOrCreateForActiveSeason` and `CreateMatch`,
which the program never calls.

Hazards without a property, because nothing says what should happen: a player who types `l`
after the loop has popped him reads "Left queue." and is then put into the match (the steps
are in `Matchmaking`); a move that passes the test of `IsPlayerInMatch` may arrive after the
drain and be played in the next match (the steps are in `TurnLoop`); a player who reconnects
during his match types into an `Input` that nobody reads. The legs penalty of a
defender who dodges is looked up in the context of the attacker (`resolver.go:267`); it
moves a chance, which `Combat` abstracts from.

Out of reach: the generator (arithmetic modulo 2^64) and with it the equality of a replay,
Glicko-2, the NPC's utilities and the anti-bot score (floating point). In `Combat` an NPC is a
player whose moves are free; when one is asked, and how often, is in `TurnLoop`. The renderer
is text, the telemetry counters feed nothing, the configuration is read once.

What could be added next: the composition of `Shell` with `Matchmaking`, so that `tutorial
retry` during a match, or a second session on another server, is seen by the match it
concerns; for it both would need the lobby of `Lobby`, by server. And two servers that run
matches against one database: `Seasons` has their transactions, but relies on one
matchmaker for its players not to meet in two of them.
