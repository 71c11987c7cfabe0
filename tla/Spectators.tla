----------------------------- MODULE Spectators -----------------------------
(***************************************************************************)
(* Watching a match: the hub (src/internal/spectator/hub.go), the index of *)
(* active matches and WatchByHandle (src/internal/matchmaking/service.go). *)
(*                                                                         *)
(* A match goroutine broadcasts its frames and takes down the index and    *)
(* the hub when it ends; each watcher is a shell inside a watch command.   *)
(* The hub's mutex covers its map, but neither the sends of a broadcast    *)
(* nor the closing of the channels of a match that ends.                   *)
(***************************************************************************)
EXTENDS Integers, FiniteSets, Functions

CONSTANTS
    Match,       \* ranked matches
    HandlesOf,   \* the two handles of each match
    Fold,        \* the lower-case form of each handle, the key of the index
    Watcher,     \* watch commands
    NoMatch,     \* "no such match"
    Capacity,    \* SpectatorMaxPerMatch
    BufferSize   \* capacity of a watcher's channel

Handle == UNION {HandlesOf[m] : m \in Match}
Key    == {Fold[h] : h \in Handle}
Keys(m) == {Fold[h] : h \in HandlesOf[m]}

ASSUME SpectatorsConstants ==
    /\ Capacity \in Nat \ {0}
    /\ BufferSize \in Nat \ {0}
    /\ NoMatch \notin Match

VARIABLES
    stage,         \* where each match goroutine is
    sending,       \* the channels a broadcast still has to send to
    closing,       \* the channels an ended match still has to close
    activeByHandle,\* the index: key to match
    watchers,      \* the hub: watchers of each match
    registered,    \* the hub: its matches
    call,          \* where each watch command is
    target,        \* the handle it names
    found,         \* the match it found
    buffered,      \* the frames in its channel
    closed,        \* watchers whose channel is closed
    canceled,      \* the run context
    panicked       \* a send on a closed channel, or a second close: the process is gone

hubVars   == <<watchers, registered>>
chanVars  == <<buffered, closed, panicked>>
matchVars == <<stage, sending, closing, activeByHandle>>
callVars  == <<call, target, found>>
vars == <<matchVars, hubVars, chanVars, callVars, canceled>>

Init ==
    /\ stage = [m \in Match |-> "new"]
    /\ sending = [m \in Match |-> {}]
    /\ closing = [m \in Match |-> {}]
    /\ activeByHandle = [k \in Key |-> NoMatch]
    /\ watchers = [m \in Match |-> {}]
    /\ registered = {}
    /\ call = [w \in Watcher |-> "idle"]
    /\ target \in [Watcher -> Handle]
    /\ found = [w \in Watcher |-> NoMatch]
    /\ buffered = [w \in Watcher |-> 0]
    /\ closed = {}
    /\ canceled = FALSE
    /\ panicked = FALSE

Active(m) == stage[m] \in {"running", "done"}

Alive == ~panicked
MatchGoto(m, from, to) == Alive /\ stage[m] = from /\ stage' = [stage EXCEPT ![m] = to]
CallGoto(w, from, to)  == Alive /\ call[w] = from /\ call' = [call EXCEPT ![w] = to]

Close(w) ==
    /\ closed' = closed \cup {w}
    /\ panicked' = (panicked \/ w \in closed)
    /\ UNCHANGED buffered

----------------------------------------------------------------------------
(* A match.                                                                 *)

\* registerActiveMatch.  The players of two matches at a time are different
\* (Matchmaking!HeldOnce): so are their handles.
RegisterMatch(m) ==
    /\ MatchGoto(m, "new", "running")
    /\ \A n \in Match : stage[n] \notin {"new", "over"} => HandlesOf[n] \cap HandlesOf[m] = {}
    /\ activeByHandle' = [k \in Key |-> IF k \in Keys(m) THEN m ELSE activeByHandle[k]]
    /\ registered' = registered \cup {m}
    /\ UNCHANGED <<sending, closing, watchers, chanVars, callVars, canceled>>

\* Broadcast: the watchers are copied under the lock...
Broadcast(m) ==
    /\ Alive /\ stage[m] = "running"
    /\ sending[m] = {} /\ watchers[m] # {}
    /\ sending' = [sending EXCEPT ![m] = watchers[m]]
    /\ UNCHANGED <<stage, closing, activeByHandle, hubVars, chanVars, callVars, canceled>>

\* Fault: a full channel is not told from one with room.
BroadcastToFull(m, w) ==
    /\ Alive /\ w \in sending[m]
    /\ sending' = [sending EXCEPT ![m] = @ \ {w}]
    /\ panicked' = (panicked \/ w \in closed)
    /\ buffered' = [buffered EXCEPT ![w] = @ + 1]
    /\ UNCHANGED <<stage, closing, activeByHandle, hubVars, closed, callVars, canceled>>

\* ... and sent to after it, one by one; a full channel misses the frame.
BroadcastTo(m, w) ==
    /\ Alive /\ w \in sending[m]
    /\ sending' = [sending EXCEPT ![m] = @ \ {w}]
    /\ panicked' = (panicked \/ w \in closed)
    /\ buffered' = IF w \notin closed /\ buffered[w] < BufferSize
                   THEN [buffered EXCEPT ![w] = @ + 1] ELSE buffered
    /\ UNCHANGED <<stage, closing, activeByHandle, hubVars, closed, callVars, canceled>>

\* The turn loop is over, or the run context cancelled.  unregisterActiveMatch:
\* Done is closed, then the index is cleared, then the hub.
EndMatch(m) ==
    /\ MatchGoto(m, "running", "done")
    /\ sending[m] = {}
    /\ UNCHANGED <<sending, closing, activeByHandle, hubVars, chanVars, callVars, canceled>>

\* Fault: only the first handle is cleared.
UnindexOne(m) ==
    /\ MatchGoto(m, "done", "unindexed")
    /\ activeByHandle' = [activeByHandle EXCEPT ![Fold[CHOOSE h \in HandlesOf[m] : TRUE]] = NoMatch]
    /\ UNCHANGED <<sending, closing, hubVars, chanVars, callVars, canceled>>

Unindex(m) ==
    /\ MatchGoto(m, "done", "unindexed")
    /\ activeByHandle' = [k \in Key |-> IF k \in Keys(m) THEN NoMatch ELSE activeByHandle[k]]
    /\ UNCHANGED <<sending, closing, hubVars, chanVars, callVars, canceled>>

\* Fault: the channels are left open.
UnregisterSilently(m) ==
    /\ MatchGoto(m, "unindexed", "over")
    /\ registered' = registered \ {m}
    /\ watchers' = [watchers EXCEPT ![m] = {}]
    /\ UNCHANGED <<sending, closing, activeByHandle, chanVars, callVars, canceled>>

UnregisterMatch(m) ==
    /\ MatchGoto(m, "unindexed", "closing")
    /\ registered' = registered \ {m}
    /\ watchers' = [watchers EXCEPT ![m] = {}]
    /\ closing' = [closing EXCEPT ![m] = watchers[m]]
    /\ UNCHANGED <<sending, activeByHandle, chanVars, callVars, canceled>>

CloseChannel(m, w) ==
    /\ Alive /\ w \in closing[m]
    /\ closing' = [closing EXCEPT ![m] = @ \ {w}]
    /\ Close(w)
    /\ UNCHANGED <<stage, sending, activeByHandle, hubVars, callVars, canceled>>

MatchOver(m) ==
    /\ MatchGoto(m, "closing", "over")
    /\ closing[m] = {}
    /\ UNCHANGED <<sending, closing, activeByHandle, hubVars, chanVars, callVars, canceled>>

MatchStep(m) ==
    \/ EndMatch(m) \/ Unindex(m) \/ UnregisterMatch(m) \/ MatchOver(m)
    \/ \E w \in Watcher : BroadcastTo(m, w) \/ CloseChannel(m, w)

----------------------------------------------------------------------------
(* A watch command.                                                         *)

Watch(w) ==
    /\ CallGoto(w, "idle", "looking")
    /\ UNCHANGED <<target, found, matchVars, hubVars, chanVars, canceled>>

\* lookupActiveMatchByHandle, tried again until the deadline.
Look(w) ==
    /\ activeByHandle[Fold[target[w]]] # NoMatch
    /\ CallGoto(w, "looking", "found")
    /\ found' = [found EXCEPT ![w] = activeByHandle[Fold[target[w]]]]
    /\ UNCHANGED <<target, matchVars, hubVars, chanVars, canceled>>

GiveUp(w) ==
    /\ CallGoto(w, "looking", "returned")
    /\ UNCHANGED <<target, found, matchVars, hubVars, chanVars, canceled>>

\* Fault: the capacity is tested before the lock is taken for the insertion.
AttachUnchecked(w) ==
    /\ IF found[w] \in registered
       THEN /\ CallGoto(w, "found", "watching")
            /\ watchers' = [watchers EXCEPT ![found[w]] = @ \cup {w}]
       ELSE CallGoto(w, "found", "returned") /\ UNCHANGED watchers
    /\ UNCHANGED <<target, found, registered, matchVars, chanVars, canceled>>

\* AddWatcher: the match may have ended since, or be full.
Attach(w) ==
    /\ IF found[w] \in registered /\ Cardinality(watchers[found[w]]) < Capacity
       THEN /\ CallGoto(w, "found", "watching")
            /\ watchers' = [watchers EXCEPT ![found[w]] = @ \cup {w}]
       ELSE CallGoto(w, "found", "returned") /\ UNCHANGED watchers
    /\ UNCHANGED <<target, found, registered, matchVars, chanVars, canceled>>

Receive(w) ==
    /\ Alive /\ call[w] = "watching"
    /\ buffered[w] > 0
    /\ buffered' = [buffered EXCEPT ![w] = @ - 1]
    /\ UNCHANGED <<call, target, found, closed, panicked, matchVars, hubVars, canceled>>

MatchDone(w) == stage[found[w]] \notin {"new", "running"}
StreamClosed(w) == w \in closed /\ buffered[w] = 0

\* Fault: the watcher waits for its frames only.
EndWatchOnCancel(w) ==
    /\ CallGoto(w, "watching", "leaving")
    /\ canceled
    /\ UNCHANGED <<target, found, matchVars, hubVars, chanVars, canceled>>

\* The select of the watch loop: Done, the context, or the closed channel.
EndWatch(w) ==
    /\ CallGoto(w, "watching", "leaving")
    /\ canceled \/ MatchDone(w) \/ StreamClosed(w)
    /\ UNCHANGED <<target, found, matchVars, hubVars, chanVars, canceled>>

\* Fault: the channel is closed whether or not the hub still has it.
RemoveAlways(w) ==
    /\ CallGoto(w, "leaving", "returned")
    /\ watchers' = [watchers EXCEPT ![found[w]] = @ \ {w}]
    /\ Close(w)
    /\ UNCHANGED <<target, found, matchVars, registered, canceled>>

\* The deferred RemoveWatcher.
RemoveWatcher(w) ==
    /\ CallGoto(w, "leaving", "returned")
    /\ watchers' = [watchers EXCEPT ![found[w]] = @ \ {w}]
    /\ IF w \in watchers[found[w]] THEN Close(w) ELSE UNCHANGED chanVars
    /\ UNCHANGED <<target, found, matchVars, registered, canceled>>

WatchStep(w) == GiveUp(w) \/ Attach(w) \/ EndWatch(w) \/ RemoveWatcher(w)

----------------------------------------------------------------------------
Cancel ==
    /\ Alive /\ ~canceled
    /\ canceled' = TRUE
    /\ UNCHANGED <<matchVars, hubVars, chanVars, callVars>>

Next ==
    \/ \E m \in Match : RegisterMatch(m) \/ Broadcast(m) \/ MatchStep(m)
    \/ \E w \in Watcher : Watch(w) \/ Look(w) \/ Receive(w) \/ WatchStep(w)
    \/ Cancel

(***************************************************************************)
(* Match goroutines and watch commands run.  A match ends (TurnLoop), and  *)
(* a watch command that finds no match gives up at its deadline.           *)
(***************************************************************************)
Fairness ==
    /\ \A m \in Match : WF_vars(MatchStep(m)) /\ SF_vars(EndMatch(m))
    /\ \A w \in Watcher : WF_vars(WatchStep(w))

Spec == Init /\ [][Next]_vars /\ Fairness

----------------------------------------------------------------------------
TypeOK ==
    /\ stage \in [Match -> {"new", "running", "done", "unindexed", "closing", "over"}]
    /\ sending \in [Match -> SUBSET Watcher]
    /\ closing \in [Match -> SUBSET Watcher]
    /\ activeByHandle \in [Key -> Match \cup {NoMatch}]
    /\ watchers \in [Match -> SUBSET Watcher]
    /\ registered \subseteq Match
    /\ call \in [Watcher -> {"idle", "looking", "found", "watching", "leaving", "returned"}]
    /\ target \in [Watcher -> Handle]
    /\ found \in [Watcher -> Match \cup {NoMatch}]
    /\ buffered \in [Watcher -> 0..BufferSize]
    /\ closed \subseteq Watcher
    /\ canceled \in BOOLEAN
    /\ panicked \in BOOLEAN

\* No match ever has more spectators than the cap (docs/m3-ssh-protocol.md), and
\* the hub holds watchers only for the matches it has.
CapacityKept ==
    \A m \in Match :
        /\ Cardinality(watchers[m]) <= Capacity
        /\ watchers[m] # {} => m \in registered

\* A stream is read-only: whatever its watcher does, the server and its matches go
\* on.  Both the end of a match and the end of a watch close the watcher's channel,
\* while a broadcast may hold a copy of it: a second close, or a send after it, would
\* end the whole process.
NeverPanics == ~panicked

\* As long as the server is not being stopped, nobody closes a channel twice or
\* sends to a closed one.
OnlyStopPanics == panicked => canceled

\* Whoever is in a watch has an open channel that somebody will close, the hub or the match
\* that has taken it out of the hub; and nobody's channel is in two of these hands, or closed
\* and still in one (RemoveWatcher, UnregisterMatch).
OneCloser ==
    \A w \in Watcher :
        /\ call[w] \in {"watching", "leaving"} /\ w \notin closed
               => w \in watchers[found[w]] \cup closing[found[w]]
        /\ \A m \in Match : w \in watchers[m] \cup closing[m] =>
               /\ w \notin closed
               /\ w \notin watchers[m] \cap closing[m]
               /\ \A n \in Match \ {m} : w \notin watchers[n] \cup closing[n]

\* The index leads from each handle of a running match to a match with a player of
\* that handle, and never to one whose Done channel was closed and cleared.
IndexFollowsMatches ==
    /\ \A m \in Match : Active(m) => \A k \in Keys(m) : activeByHandle[k] = m
    /\ \A k \in Key : activeByHandle[k] # NoMatch => Active(activeByHandle[k])

\* A watch command does not outlive the match it watches: its shell is given back
\* to the player.
WatchEnds ==
    \A w \in Watcher, m \in Match :
        (call[w] = "watching" /\ found[w] = m /\ stage[m] # "running")
            ~> (call[w] = "returned" \/ panicked)

\* Every channel that was handed to the hub is closed in the end, whoever comes
\* first, the watcher or the match.
ChannelsAreClosed ==
    \A w \in Watcher : call[w] = "watching" ~> (w \in closed \/ panicked)
============================================================================
