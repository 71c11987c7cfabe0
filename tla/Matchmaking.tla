---------------------------- MODULE Matchmaking ----------------------------
(***************************************************************************)
(* The matchmaker (src/internal/matchmaking/service.go) over the lobby,    *)
(* with the shells that call it (src/cmd/server/ssh_server.go).            *)
(*                                                                         *)
(* Three kinds of goroutine interleave: one shell per session, the single  *)
(* queue loop, and one goroutine per match.  The service's mutex and the   *)
(* lobby's are taken and given up several times within one operation; each *)
(* stretch under a lock is a step here.  Neighbouring stretches are joined *)
(* only where the second touches nothing the other goroutines decide on.   *)
(*                                                                         *)
(* What a match does between its start and its release is in TurnLoop and  *)
(* Spectators; here it is held players and an end.                         *)
(***************************************************************************)
EXTENDS Lobby

CONSTANT Match     \* names for match goroutines; one per player suffices

VARIABLES
    inMatch,   \* players marked busy
    shell,     \* where each session's shell is
    loop,      \* where the queue loop is
    survivor,  \* the session to requeue after a failed pairing
    match,     \* the sessions of each match goroutine, {} for none
    waiting,   \* sessions whose last word about the queue was "waiting"
    server     \* up, stopping or stopped

mmVars == <<inMatch, shell, loop, survivor, match, waiting, server>>
vars   == <<lobbyVars, mmVars>>

ShellStates == {"new", "idle", "join", "mark", "npc", "unregister", "closed"}
LoopStates  == {"select", "reserve", "lookup", "undo", "requeue", "done"}

Owners(S) == {Owner(s) : s \in S}
PairSet   == Range(popped.pair)
Open(s)   == shell[s] \notin {"new", "closed"}

Init ==
    /\ LobbyInit
    /\ inMatch = {}
    /\ shell = [s \in Session |-> "new"]
    /\ loop = "select"
    /\ survivor = NoSession
    /\ match = [m \in Match |-> {}]
    /\ waiting = {}
    /\ server = "up"

Goto(s, from, to)  == shell[s] = from /\ shell' = [shell EXCEPT ![s] = to]
LoopGoto(from, to) == loop = from /\ loop' = to

----------------------------------------------------------------------------
(* Shells.  A shell runs one command at a time.                             *)

Connect(s) ==
    /\ Goto(s, "new", "idle")
    /\ Register(s)
    /\ UNCHANGED <<now, popped, inMatch, loop, survivor, match, waiting, server>>

\* q: the busy test, the join and the answer are three steps.
EnqueueCheck(s) ==
    /\ Goto(s, "idle", "join")
    /\ Owner(s) \notin inMatch
    /\ UNCHANGED <<lobbyVars, inMatch, loop, survivor, match, waiting, server>>

EnqueueJoin(s) ==
    /\ Goto(s, "join", "mark")
    /\ JoinQueue(Owner(s))
    /\ UNCHANGED <<now, popped, inMatch, loop, survivor, match, waiting, server>>

EnqueueAnswer(s) ==
    /\ Goto(s, "mark", "idle")
    /\ waiting' = waiting \cup {s}
    /\ UNCHANGED <<lobbyVars, inMatch, loop, survivor, match, server>>

\* l, and the first part of closing a session.
Dequeue(s, next) ==
    /\ Goto(s, "idle", next)
    /\ LeaveQueue(Owner(s))
    /\ waiting' = waiting \ {s}
    /\ UNCHANGED <<now, popped, inMatch, loop, survivor, match, server>>

\* Fault: no test for a running match.
StartNPCAlways(s) ==
    /\ Goto(s, "idle", "npc")
    /\ inMatch' = inMatch \cup {Owner(s)}
    /\ UNCHANGED <<lobbyVars, loop, survivor, match, waiting, server>>

\* npc: the player is marked busy before he is taken out of the queue.
StartNPCReserve(s) ==
    /\ Goto(s, "idle", "npc")
    /\ Owner(s) \notin inMatch
    /\ inMatch' = inMatch \cup {Owner(s)}
    /\ UNCHANGED <<lobbyVars, loop, survivor, match, waiting, server>>

StartNPCMatch(s) ==
    /\ Goto(s, "npc", "idle")
    /\ LeaveQueue(Owner(s))
    /\ waiting' = waiting \ {s}
    /\ \E m \in Match : match[m] = {} /\ match' = [match EXCEPT ![m] = {s}]
    /\ UNCHANGED <<now, popped, inMatch, loop, survivor, server>>

\* quit or a lost connection, last part: the session is unregistered.
Disconnect(s) ==
    /\ Goto(s, "unregister", "closed")
    /\ Unregister(Owner(s))
    /\ UNCHANGED <<now, popped, inMatch, loop, survivor, match, waiting, server>>

\* What a player may do next, and what his shell then has to finish.
Command(s) ==
    \/ Connect(s)
    \/ EnqueueCheck(s)
    \/ Dequeue(s, "idle")
    \/ StartNPCReserve(s)
    \/ Dequeue(s, "unregister")

ShellStep(s) ==
    \/ EnqueueJoin(s)
    \/ EnqueueAnswer(s)
    \/ StartNPCMatch(s)
    \/ Disconnect(s)

----------------------------------------------------------------------------
(* The queue loop (processQueue).                                           *)

\* The select may take a tick although the context is already cancelled.  Who
\* timed out is told so.
LoopPop ==
    /\ \E t \in 0..now : PopNextPair(t)
    /\ LoopGoto("select", IF popped'.pair = <<>> THEN "select" ELSE "reserve")
    /\ waiting' = waiting \ {sessions[p] : p \in Range(popped'.timedOut)}
    /\ UNCHANGED <<now, inMatch, shell, survivor, match, server>>

\* Fault: only the first of the two is tested.
LoopReserveFirst ==
    /\ loop = "reserve"
    /\ IF popped.pair[1] \in inMatch
       THEN LoopGoto("reserve", "select") /\ Forget /\ UNCHANGED inMatch
       ELSE /\ LoopGoto("reserve", "lookup")
            /\ inMatch' = inMatch \cup PairSet
            /\ UNCHANGED lobbyVars
    /\ UNCHANGED <<shell, survivor, match, waiting, server>>

\* If one of the two has become busy the pair is given up.
LoopReserve ==
    /\ IF PairSet \cap inMatch # {}
       THEN LoopGoto("reserve", "select") /\ Forget /\ UNCHANGED inMatch
       ELSE /\ LoopGoto("reserve", "lookup")
            /\ inMatch' = inMatch \cup PairSet
            /\ UNCHANGED lobbyVars
    /\ UNCHANGED <<shell, survivor, match, waiting, server>>

\* Fault: the match starts whether or not the sessions were found.
LoopStartBlindly ==
    /\ LoopGoto("lookup", "select")
    /\ LET both == {sessions[p] : p \in PairSet}
       IN  /\ \E m \in Match : match[m] = {} /\ match' = [match EXCEPT ![m] = both]
           /\ waiting' = waiting \ both
    /\ Forget
    /\ UNCHANGED <<inMatch, shell, survivor, server>>

\* Both sessions are there: the match goroutine starts and says so.
LoopStartMatch ==
    /\ LoopGoto("lookup", "select")
    /\ \A p \in PairSet : Registered(p)
    /\ LET both == {sessions[p] : p \in PairSet}
       IN  /\ \E m \in Match : match[m] = {} /\ match' = [match EXCEPT ![m] = both]
           /\ waiting' = waiting \ both
    /\ Forget
    /\ UNCHANGED <<inMatch, shell, survivor, server>>

LoopPeerMissing ==
    /\ LoopGoto("lookup", "undo")
    /\ \E p \in PairSet : ~Registered(p)
    /\ survivor' = IF \E p \in PairSet : Registered(p)
                   THEN sessions[CHOOSE p \in PairSet : Registered(p)]
                   ELSE NoSession
    /\ UNCHANGED <<lobbyVars, inMatch, shell, match, waiting, server>>

\* Fault: the reservation is not taken back.
LoopUndoNothing ==
    /\ LoopGoto("undo", IF survivor = NoSession THEN "select" ELSE "requeue")
    /\ Forget
    /\ UNCHANGED <<inMatch, shell, survivor, match, waiting, server>>

LoopUndo ==
    /\ LoopGoto("undo", IF survivor = NoSession THEN "select" ELSE "requeue")
    /\ inMatch' = inMatch \ PairSet
    /\ Forget
    /\ UNCHANGED <<shell, survivor, match, waiting, server>>

\* requeueAfterPairFailure: by player id, so a newer session counts as well.
LoopRequeue ==
    /\ LoopGoto("requeue", "select")
    /\ IF Registered(Owner(survivor))
       THEN JoinQueue(Owner(survivor)) /\ waiting' = waiting \cup {survivor}
       ELSE UNCHANGED lobbyState /\ waiting' = waiting \ {survivor}
    /\ survivor' = NoSession
    /\ UNCHANGED <<now, popped, inMatch, shell, match, server>>

LoopExit ==
    /\ LoopGoto("select", "done")
    /\ server # "up"
    /\ UNCHANGED <<lobbyVars, inMatch, shell, survivor, match, waiting, server>>

LoopStep ==
    LoopPop \/ LoopReserve \/ LoopStartMatch \/ LoopPeerMissing \/ LoopUndo \/ LoopRequeue

----------------------------------------------------------------------------
(* Match goroutines, the server, the clock.                                 *)

\* Fault: only one of the players is released.
MatchReleaseOne(m) ==
    /\ match[m] # {}
    /\ inMatch' = inMatch \ {Owner(CHOOSE s \in match[m] : TRUE)}
    /\ match' = [match EXCEPT ![m] = {}]
    /\ UNCHANGED <<lobbyVars, shell, loop, survivor, waiting, server>>

\* runMatch or runNPCMatch has returned, for whatever reason.
MatchRelease(m) ==
    /\ match[m] # {}
    /\ inMatch' = inMatch \ Owners(match[m])
    /\ match' = [match EXCEPT ![m] = {}]
    /\ UNCHANGED <<lobbyVars, shell, loop, survivor, waiting, server>>

\* Stop, and a signal, which cancels the same context and makes Start call Stop.
StopCall ==
    /\ server = "up"
    /\ server' = "stopping"
    /\ UNCHANGED <<lobbyVars, inMatch, shell, loop, survivor, match, waiting>>

\* Fault: open shells are counted as well.
WaitingForShells == loop # "done" \/ \E s \in Session : Open(s)

\* The wait group counts the loop and every match goroutine.
Waiting == loop # "done" \/ \E m \in Match : match[m] # {}

StopReturn ==
    /\ server = "stopping"
    /\ ~Waiting
    /\ server' = "stopped"
    /\ UNCHANGED <<lobbyVars, inMatch, shell, loop, survivor, match, waiting>>

ClockTick == Tick /\ UNCHANGED mmVars

Next ==
    \/ \E s \in Session : Command(s) \/ ShellStep(s)
    \/ LoopStep
    \/ LoopExit
    \/ \E m \in Match : MatchRelease(m)
    \/ StopCall \/ StopReturn
    \/ ClockTick

Spec == Init /\ [][Next]_vars

(***************************************************************************)
(* A goroutine that can run does.  A match always comes to its end: every  *)
(* turn has a timeout and there are at most MaxTurns (TurnLoop).  Nothing  *)
(* is assumed of the players, of Stop's callers or of the clock.  LoopExit *)
(* needs more: the loop's select chooses at random between a tick and a    *)
(* cancelled context, so it does not take the tick for ever.               *)
(***************************************************************************)
Fairness ==
    /\ \A s \in Session : WF_vars(ShellStep(s))
    /\ WF_vars(LoopStep)
    /\ SF_vars(LoopExit)
    /\ \A m \in Match : WF_vars(MatchRelease(m))
    /\ WF_vars(StopReturn)

FairSpec == Spec /\ Fairness

----------------------------------------------------------------------------
TypeOK ==
    /\ LobbyTypeOK
    /\ inMatch \subseteq Player
    /\ shell \in [Session -> ShellStates]
    /\ loop \in LoopStates
    /\ survivor \in Session \cup {NoSession}
    /\ match \in [Match -> SUBSET Session]
    /\ waiting \subseteq Session
    /\ server \in {"up", "stopping", "stopped"}

\* The players each goroutine has marked busy and has yet to release.
LoopHolds     == IF loop \in {"lookup", "undo"} THEN PairSet ELSE {}
ShellHolds(s) == IF shell[s] = "npc" THEN {Owner(s)} ELSE {}
MatchHolds(m) == Owners(match[m])

Holder  == {<<"loop">>} \cup {<<"shell", s>> : s \in Session} \cup {<<"match", m>> : m \in Match}
HeldBy(h) ==
    CASE h[1] = "loop"  -> LoopHolds
      [] h[1] = "shell" -> ShellHolds(h[2])
      [] h[1] = "match" -> MatchHolds(h[2])
held == [h \in Holder |-> HeldBy(h)]

\* Every busy player is held by a goroutine that will release him, and whoever
\* is held is marked busy: nobody stays locked out, nobody can be taken twice.
BusyIsHeld == inMatch = UNION {held[h] : h \in Holder}

\* No player is in two matches, or in a match and about to enter another.
HeldOnce == \A h, k \in Holder : h # k => held[h] \cap held[k] = {}

\* Who is marked busy is held by exactly one goroutine that will release him, although the
\* marks change under the matchmaker's lock, the queue under the lobby's, and shells, loop and
\* matches come between each other's steps (processQueue, StartNPCMatch, runMatch).
HeldByOne == BusyIsHeld /\ HeldOnce

\* A session is registered exactly while its shell is open, so no shell can
\* unregister or dequeue another connection of the same player.
RegisteredWhileOpen ==
    \A s \in Session : Open(s) <=> sessions[Owner(s)] = s

\* When Stop has returned the loop is gone and no ranked match is running or
\* can still start.
StopWaitsForMatches ==
    server = "stopped" =>
        /\ loop = "done"
        /\ \A m \in Match : Cardinality(match[m]) < 2

\* The matchmaker implements exclusive ownership of players.
Abstract == INSTANCE Ownership WITH Holder <- Holder, Player <- Player, held <- held
HoldsExclusively == Abstract!Spec

\* Every busy player is released again (runMatch and the loop's error paths).
BusyEnds == \A p \in Player : p \in inMatch ~> p \notin inMatch

\* While the server is up the loop does not leave two players waiting for ever.
PairsAreServed == []<>(Len(queue) < 2 \/ server # "up")

\* Stop returns, unless shells keep starting practice matches: StartNPCMatch does
\* not ask whether the matchmaker is running, and the wait group counts them.
StopReturns ==
    server = "stopping" ~> (server = "stopped" \/ \E s \in Session : shell[s] = "npc")

----------------------------------------------------------------------------
(* Statements of the documentation that the code does not keep.             *)

\* docs/m3-ssh-protocol.md: "Two queued players are paired FIFO."  When the loop
\* gives up a pair because one of the two is busy, each of them who was told to
\* wait and is still connected is in a match or back in the queue.
PoppedAreServed ==
    [][(loop = "reserve" /\ loop' = "select") =>
        \A s \in Session :
            (Owner(s) \in PairSet /\ sessions[Owner(s)] = s /\ s \in waiting)
                => Owner(s) \in inMatch' \/ queuedAt'[Owner(s)] # NotQueued]_vars
============================================================================
