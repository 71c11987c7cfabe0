------------------------------ MODULE TurnLoop ------------------------------
(***************************************************************************)
(* One match from its first turn to the release of its players: runMatch,  *)
(* runNPCMatch and what they call (src/internal/matchmaking/service.go),   *)
(* with the two shells that feed it.                                       *)
(*                                                                         *)
(* Each turn starts one reader per human slot.  A reader takes a command   *)
(* from its session's Input channel, or finds it closed, or runs into the  *)
(* timeout or the cancelled context; Go's select takes any that is ready.  *)
(* The match goroutine collects both answers and decides who controls each *)
(* slot from then on.                                                      *)
(*                                                                         *)
(* What a fight does to the fighters is in the resolver; here a turn may   *)
(* finish the fight or not.                                                *)
(***************************************************************************)
EXTENDS Integers, Sequences, FiniteSets

CONSTANTS
    MaxTurns,   \* turns before the match is a draw
    BufferSize  \* capacity of a session's Input channel

Slot == {1, 2}

ASSUME TurnLoopConstants ==
    /\ MaxTurns \in Nat \ {0}
    /\ BufferSize \in Nat \ {0}

npcTakeoverTimeoutStreak == 2

VARIABLES
    practice,       \* runNPCMatch: the coach plays slot 2 from the start
    shell,          \* each player's shell
    input,          \* the commands in each session's Input channel
    canceled,       \* the run context
    phase,          \* where the match goroutine is
    finished,       \* the fight has an outcome
    npcControlled,  \* slots the NPC plays
    timeoutStreak,  \* timeouts in a row
    reader,         \* slots whose reader goroutine is running
    results,        \* the results channel of this turn, in order of arrival
    replay,         \* who gave each slot's input, turn by turn
    drawn           \* decisions taken from each slot's NPC stream

playerVars  == <<practice, shell, input, canceled>>
controlVars == <<finished, npcControlled, timeoutStreak, replay, drawn>>
turnVars    == <<reader, results>>
matchVars   == <<phase, controlVars, turnVars>>
vars        == <<playerVars, matchVars>>

Human == IF practice THEN {1} ELSE Slot
Statuses == {"action", "timeout", "disconnect", "canceled", "npc"}
Phases == {"check", "collect", "emit", "finalize", "return", "drained", "released"}

Init ==
    /\ practice \in BOOLEAN
    /\ shell = [i \in Slot |-> "open"]
    /\ input = [i \in Slot |-> <<>>]
    /\ canceled = FALSE
    /\ phase = "check"
    /\ finished = FALSE
    /\ npcControlled = Slot \ Human
    /\ timeoutStreak = [i \in Slot |-> 0]
    /\ reader = {}
    /\ results = <<>>
    /\ replay = <<>>
    /\ drawn = [i \in Slot |-> 0]

----------------------------------------------------------------------------
(* The shells.                                                              *)

ShellGoto(i, from, to) == shell[i] = from /\ shell' = [shell EXCEPT ![i] = to]

\* The send of a shell: a full channel drops the command.
Put(i, cmd) ==
    input' = IF Len(input[i]) < BufferSize
             THEN [input EXCEPT ![i] = Append(@, cmd)] ELSE input

\* `a`: IsPlayerInMatch, and then the send, which does not ask again.
ActCheck(i) ==
    /\ ShellGoto(i, "open", "acting")
    /\ phase # "released"
    /\ UNCHANGED <<practice, input, canceled, matchVars>>

ActSend(i) ==
    /\ ShellGoto(i, "acting", "open")
    /\ Put(i, "action")
    /\ UNCHANGED <<practice, canceled, matchVars>>

Quit(i) ==
    /\ ShellGoto(i, "open", "leaving")
    /\ Put(i, "quit")
    /\ UNCHANGED <<practice, canceled, matchVars>>

ConnectionLost(i) ==
    /\ ShellGoto(i, "open", "leaving")
    /\ UNCHANGED <<practice, input, canceled, matchVars>>

\* The shell has dequeued and unregistered its session and closes Input.
CloseInput(i) ==
    /\ ShellGoto(i, "leaving", "closed")
    /\ UNCHANGED <<practice, input, canceled, matchVars>>

ShellStep(i) == ActCheck(i) \/ ActSend(i) \/ Quit(i) \/ ConnectionLost(i) \/ CloseInput(i)

Cancel ==
    /\ ~canceled
    /\ canceled' = TRUE
    /\ UNCHANGED <<practice, shell, input, matchVars>>

----------------------------------------------------------------------------
(* The readers (waitForTurnInput).                                          *)

Answer(i, status) ==
    /\ i \in reader
    /\ reader' = reader \ {i}
    /\ results' = Append(results, [slot |-> i, status |-> status])
    /\ UNCHANGED <<practice, shell, canceled, phase, controlVars>>

ReadCommand(i) ==
    /\ input[i] # <<>>
    /\ Answer(i, IF Head(input[i]) = "action" THEN "action" ELSE "disconnect")
    /\ input' = [input EXCEPT ![i] = Tail(@)]

ReadClosed(i) ==
    /\ shell[i] = "closed" /\ input[i] = <<>>
    /\ Answer(i, "disconnect")
    /\ UNCHANGED input

Timeout(i)  == Answer(i, "timeout") /\ UNCHANGED input
Canceled(i) == canceled /\ Answer(i, "canceled") /\ UNCHANGED input

ReaderStep(i) == ReadCommand(i) \/ ReadClosed(i) \/ Timeout(i) \/ Canceled(i)

----------------------------------------------------------------------------
(* The match goroutine.                                                     *)

Goto(to) == phase' = to

\* The top of the turn loop.
LoopOver ==
    /\ phase = "check"
    /\ Goto(IF Len(replay) < MaxTurns /\ canceled THEN "return" ELSE "finalize")
    /\ Len(replay) = MaxTurns \/ canceled \/ finished
    /\ UNCHANGED <<playerVars, controlVars, turnVars>>

\* Fault: a single answer is given even if the NPC plays both slots.
OneNPCAnswer ==
    IF npcControlled = {} THEN <<>>
    ELSE <<[slot |-> CHOOSE i \in npcControlled : TRUE, status |-> "npc"]>>

\* The answers that an NPC slot gives at once, in slot order.
NPCAnswers ==
    LET answer(i) == IF i \in npcControlled THEN <<[slot |-> i, status |-> "npc"]>> ELSE <<>>
    IN  answer(1) \o answer(2)

Awaited == Slot \ npcControlled

\* collectTurnInputs, up to its wait for the two results.
StartTurn ==
    /\ phase = "check" /\ Goto("collect")
    /\ Len(replay) < MaxTurns /\ ~canceled /\ ~finished
    /\ results' = NPCAnswers
    /\ reader' = Awaited
    /\ drawn' = [i \in Slot |-> IF i \in npcControlled THEN drawn[i] + 1 ELSE drawn[i]]
    /\ UNCHANGED <<playerVars, finished, npcControlled, timeoutStreak, replay>>

\* Fault: the answers are taken in the order in which they arrived.
ArrivalStatusOf(i) == results[i].status

StatusOf(i) == (CHOOSE r \in {results[k] : k \in 1..Len(results)} : r.slot = i).status

\* Fault: the streak is compared before it is counted.
MissesOnceMore(i) ==
    StatusOf(i) = "timeout" /\ timeoutStreak[i] >= npcTakeoverTimeoutStreak

\* resolveTurnInput.  A second timeout in a row, or a disconnect, gives the slot
\* to the NPC, which then also decides this turn.
MissesAgain(i) ==
    StatusOf(i) = "timeout" /\ timeoutStreak[i] + 1 >= npcTakeoverTimeoutStreak

TakenOver(i) == StatusOf(i) = "disconnect" \/ MissesAgain(i)

InputBy(i) ==
    CASE StatusOf(i) = "npc" \/ TakenOver(i) -> "npc"
      [] StatusOf(i) = "action"              -> "player"
      [] OTHER                               -> "none"

\* Fault: a command does not end the run of timeouts.
StreakOverMoves(i) ==
    IF StatusOf(i) = "timeout" /\ ~TakenOver(i) THEN timeoutStreak[i] + 1 ELSE timeoutStreak[i]

NewStreak(i) ==
    IF StatusOf(i) = "timeout" /\ ~TakenOver(i) THEN timeoutStreak[i] + 1 ELSE 0

\* Fault: the decision at the takeover comes from no stream.
TakeoverDraws(i) == drawn[i]

Draws(i) == IF TakenOver(i) THEN drawn[i] + 1 ELSE drawn[i]

\* Fault: whoever is in control is whoever answered this turn.
ControlledByAnswer == {i \in Slot : InputBy(i) = "npc" /\ StatusOf(i) # "npc"}

ControlledNext == npcControlled \cup {i \in Slot : TakenOver(i)}

\* Both answers are there: the turn is resolved, rendered and recorded.
ResolveTurn ==
    /\ phase = "collect"
    /\ Len(results) = 2
    /\ \A i \in Slot : StatusOf(i) # "canceled"
    /\ Goto("emit")
    /\ npcControlled' = ControlledNext
    /\ timeoutStreak' = [i \in Slot |-> NewStreak(i)]
    /\ drawn' = [i \in Slot |-> Draws(i)]
    /\ replay' = Append(replay, [i \in Slot |-> InputBy(i)])
    /\ results' = <<>>
    /\ finished' \in BOOLEAN
    /\ UNCHANGED <<playerVars, reader>>

\* Fault: one cancelled answer ends the match.
AbandonTurnAtOnce ==
    /\ phase = "collect" /\ Goto("return")
    /\ \E k \in 1..Len(results) : results[k].status = "canceled"
    /\ results' = <<>>
    /\ UNCHANGED <<playerVars, controlVars, reader>>

\* Fault: the turn is collected again.
AbandonTurnAndRetry ==
    /\ phase = "collect" /\ Goto("check")
    /\ Len(results) = 2
    /\ \E i \in Slot : StatusOf(i) = "canceled"
    /\ results' = <<>>
    /\ UNCHANGED <<playerVars, controlVars, reader>>

\* One of the answers is "canceled"; the other was awaited all the same.
AbandonTurn ==
    /\ phase = "collect" /\ Goto("return")
    /\ Len(results) = 2
    /\ \E i \in Slot : StatusOf(i) = "canceled"
    /\ results' = <<>>
    /\ UNCHANGED <<playerVars, controlVars, reader>>

\* The cinematic frames are out, or the wait between two was cancelled.
Emit ==
    /\ phase = "emit"
    /\ \/ Goto("check")
       \/ canceled /\ Goto("return")
    /\ UNCHANGED <<playerVars, controlVars, turnVars>>

\* FinalizeMatch and the announcement; neither changes what is modelled here.
Finalize ==
    /\ phase = "finalize" /\ Goto("return")
    /\ UNCHANGED <<playerVars, controlVars, turnVars>>

\* The deferred drainSessionInput of the human sessions.
Drain ==
    /\ phase = "return" /\ Goto("drained")
    /\ input' = [i \in Slot |-> IF i \in Human THEN <<>> ELSE input[i]]
    /\ UNCHANGED <<practice, shell, canceled, controlVars, turnVars>>

Release ==
    /\ phase = "drained" /\ Goto("released")
    /\ UNCHANGED <<playerVars, controlVars, turnVars>>

MatchStep ==
    LoopOver \/ StartTurn \/ ResolveTurn \/ AbandonTurn \/ Emit \/ Finalize \/ Drain \/ Release

Next ==
    \/ \E i \in Human : ShellStep(i) \/ ReaderStep(i)
    \/ MatchStep
    \/ Cancel

(***************************************************************************)
(* The match goroutine and its readers run; a reader's timer fires at the  *)
(* latest, so a reader answers.  Nothing is assumed of the players.        *)
(***************************************************************************)
Fairness ==
    /\ WF_vars(MatchStep)
    /\ \A i \in Slot : WF_vars(ReaderStep(i))

Spec == Init /\ [][Next]_vars /\ Fairness

----------------------------------------------------------------------------
TypeOK ==
    /\ practice \in BOOLEAN
    /\ shell \in [Slot -> {"open", "acting", "leaving", "closed"}]
    /\ input \in [Slot -> Seq({"action", "quit"})]
    /\ \A i \in Slot : Len(input[i]) <= BufferSize
    /\ canceled \in BOOLEAN
    /\ phase \in Phases
    /\ finished \in BOOLEAN
    /\ npcControlled \in SUBSET Slot
    /\ timeoutStreak \in [Slot -> 0..(npcTakeoverTimeoutStreak - 1)]
    /\ reader \in SUBSET Human
    /\ results \in Seq([slot : Slot, status : Statuses])
    /\ replay \in Seq([Slot -> {"player", "none", "npc"}])
    /\ Len(replay) <= MaxTurns
    /\ drawn \in [Slot -> Nat]

\* Each reader answers once and only for the slot it reads, so the two results of a
\* turn are one of each slot, whatever order they come in.  No reader outlives its
\* turn: one left behind by a cancelled turn would take the first command of the
\* player's next match.
OneAnswerPerSlot ==
    IF phase = "collect"
    THEN /\ \A j, k \in 1..Len(results) : results[j].slot = results[k].slot => j = k
         /\ {results[k].slot : k \in 1..Len(results)} = Slot \ reader
    ELSE reader = {}

\* docs/m4-replay-persistence.md, takeover policy: control never comes back, and
\* the second of two missed turns in a row is already played by the NPC.
ControlHistory ==
    \A t \in 1..(Len(replay) - 1), i \in Slot :
        /\ replay[t][i] = "npc" => replay[t + 1][i] = "npc"
        /\ ~(replay[t][i] = "none" /\ replay[t + 1][i] = "none")

\* Nobody loses his fighter without cause: the NPC's first turn in a slot follows
\* a missed turn or the player has left (resolveTurnInput, waitForTurnInput).
TakeoverHasCause ==
    \A t \in 1..Len(replay), i \in Human :
        (replay[t][i] = "npc" /\ (t = 1 \/ replay[t - 1][i] = "player"))
            => shell[i] \in {"leaving", "closed"}

\* docs/m4-replay-persistence.md: NPC streams are deterministic.  How far a slot's
\* stream has been read follows from the recorded inputs alone, so that a fight
\* is the same for the same inputs.
StreamFollowsReplay ==
    phase \in {"check", "emit", "finalize"} =>
        \A i \in Slot : drawn[i] = Cardinality({t \in 1..Len(replay) : replay[t][i] = "npc"})

\* Every match ends and releases its players, whatever the players do: this is
\* what Matchmaking assumes of MatchRelease.
MatchEnds == <>(phase = "released")

\* What a match has left to do: at most five steps in each turn that is left, those of
\* the turn it is in, and those after the last (runMatch).
Work ==
    LET turns == 5 * (MaxTurns - Len(replay))
    IN  CASE phase = "check"    -> turns + 4
          [] phase = "collect"  -> turns + 3 - Len(results)
          [] phase = "emit"     -> turns + 5
          [] phase = "finalize" -> 3
          [] phase = "return"   -> 2
          [] phase = "drained"  -> 1
          [] OTHER              -> 0

\* Whatever the match goroutine or a reader does leaves less to do, and nothing that the
\* players or Stop do makes it more: a match of any length comes to its end.
EveryStepCounts ==
    [][matchVars' # matchVars => Work' \in 0..(Work - 1)]_vars

\* What Takeover sees of a match.
gone == {i \in Slot : shell[i] \in {"leaving", "closed"}}
over == phase \in {"finalize", "return", "drained", "released"}
Promise == INSTANCE Takeover
           WITH coached <- Slot \ Human, stopping <- canceled, decided <- finished, log <- replay

\* docs/m4-replay-persistence.md, takeover policy, a turn at a time: readers, timers,
\* closing channels and a cancellation together do what Takeover does in one step, and
\* a match ends only because it is decided, out of turns or stopped (runMatch).
KeepsPromise == Promise!Spec

\* docs/m3-ssh-protocol.md: "disconnect/quit during match activates immediate NPC
\* takeover for that slot".  The reader of a player who has gone does not answer
\* with a move of his.
QuitTakesOver ==
    [][\A i \in Human :
        (i \in reader /\ shell[i] = "closed" /\ i \notin reader')
            => results'[Len(results')].status # "action"]_vars
============================================================================
