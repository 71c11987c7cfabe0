------------------------------- MODULE Lobby -------------------------------
(***************************************************************************)
(* The in-memory lobby (src/internal/lobby/service.go): who is connected   *)
(* and who waits in the matchmaking queue.  Every operation runs under the *)
(* service's mutex, so each is one atomic action.                          *)
(*                                                                         *)
(* The actions leave alone everything a caller keeps, so that Matchmaking  *)
(* can use each of them as a conjunct of its own steps.                    *)
(***************************************************************************)
EXTENDS Integers, Sequences, FiniteSets, Functions

CONSTANTS
    Player,        \* player ids
    Conn,          \* names for the connections of one player
    Session,       \* the sessions: pairs of a player and a connection
    NoSession,     \* "the player has no session"
    NotQueued,     \* "the player has no entry in queuedAt"
    QueueTimeout,  \* ticks a player may wait; 0 switches the timeout off
    MaxTime        \* bound on the clock

\* The player a session (player.Session) is a connection of.
Owner(s) == s[1]

ASSUME LobbyConstants ==
    /\ Session \subseteq Player \X Conn
    /\ QueueTimeout \in Nat
    /\ MaxTime \in Nat
    /\ NoSession \notin Session
    /\ NotQueued \notin Int

VARIABLES
    now,       \* the clock
    sessions,  \* the registered session of each player
    queuedAt,  \* when each queued player joined
    queue,     \* the waiting players, oldest first
    popped     \* what the last PopNextPair returned to the queue loop

lobbyState == <<sessions, queuedAt, queue>>
lobbyVars  == <<now, sessions, queuedAt, queue, popped>>

Registered(p) == sessions[p] # NoSession
Queued(p)     == queuedAt[p] # NotQueued

\* No pair and nobody timed out.
NothingPopped == [pair |-> <<>>, timedOut |-> <<>>]

(***************************************************************************)
(* The elements of q that lie in keep, in their order: the n-th of them is *)
(* the one with n kept positions up to and including its own.              *)
(***************************************************************************)
KeptUpTo(q, keep, i) == {j \in 1..i : q[j] \in keep}
Filtered(q, keep) ==
    LET kept == KeptUpTo(q, keep, Len(q))
    IN  [n \in 1..Cardinality(kept) |->
            q[CHOOSE i \in kept : Cardinality(KeptUpTo(q, keep, i)) = n]]

LobbyInit ==
    /\ now = 0
    /\ sessions = [p \in Player |-> NoSession]
    /\ queuedAt = [p \in Player |-> NotQueued]
    /\ queue = <<>>
    /\ popped = NothingPopped

\* Fault: a second connection replaces the first.
RegisterAgain(s) ==
    /\ sessions' = [sessions EXCEPT ![Owner(s)] = s]
    /\ UNCHANGED <<queuedAt, queue>>

\* Register refuses a player who already has a session.
Register(s) ==
    /\ ~Registered(Owner(s))
    /\ sessions' = [sessions EXCEPT ![Owner(s)] = s]
    /\ UNCHANGED <<queuedAt, queue>>

removeQueueLocked(p) ==
    /\ queuedAt' = [queuedAt EXCEPT ![p] = NotQueued]
    /\ queue' = IF Queued(p) THEN Filtered(queue, Player \ {p}) ELSE queue

\* Fault: a disconnect leaves the queue entry behind.
UnregisterOnly(p) ==
    /\ sessions' = [sessions EXCEPT ![p] = NoSession]
    /\ UNCHANGED <<queuedAt, queue>>

Unregister(p) ==
    /\ sessions' = [sessions EXCEPT ![p] = NoSession]
    /\ removeQueueLocked(p)

\* Fault: a second join is a fresh one, at the end of the queue.
JoinQueueAgain(p) ==
    /\ Registered(p)
    /\ queue' = Append(Filtered(queue, Player \ {p}), p)
    /\ queuedAt' = [queuedAt EXCEPT ![p] = now]
    /\ UNCHANGED sessions

\* JoinQueue needs a session; a second join changes nothing.
JoinQueue(p) ==
    /\ Registered(p)
    /\ IF Queued(p)
       THEN UNCHANGED <<queuedAt, queue>>
       ELSE /\ queue' = Append(queue, p)
            /\ queuedAt' = [queuedAt EXCEPT ![p] = now]
    /\ UNCHANGED sessions

LeaveQueue(p) ==
    /\ Registered(p)
    /\ removeQueueLocked(p)
    /\ UNCHANGED sessions

\* At time t player p has waited QueueTimeout or longer.
Expired(p, t) == QueueTimeout > 0 /\ t >= queuedAt[p] + QueueTimeout

ExpiredAt(t) == {p \in Player : Queued(p) /\ Expired(p, t)}
StaysAt(t) ==
    IF QueueTimeout > 0 THEN {p \in Player : Queued(p) /\ ~Expired(p, t)} ELSE Player

(***************************************************************************)
(* PopNextPair(t) drops the entries that are too old at t and then takes   *)
(* the two oldest of the rest, if there are two.                           *)
(***************************************************************************)
Returns(timedOut, pair, rest) ==
    /\ queue' = rest
    /\ queuedAt' = [p \in Player |-> IF p \in Range(timedOut) \cup Range(pair)
                                    THEN NotQueued ELSE queuedAt[p]]
    /\ popped' = [pair |-> pair, timedOut |-> timedOut]
    /\ UNCHANGED sessions

\* Fault: expired entries are dropped from the queue but not reported.
PopForgetsExpired(t) ==
    LET live == Filtered(queue, StaysAt(t))
    IN  Returns(<<>>, <<>>, live)

\* Fault: two waiting players are not enough.
PopNextOfThree(t) ==
    LET timedOut == Filtered(queue, ExpiredAt(t))
        live     == Filtered(queue, StaysAt(t))
    IN  IF Len(live) <= 2
        THEN Returns(timedOut, <<>>, live)
        ELSE Returns(timedOut, <<live[1], live[2]>>, SubSeq(live, 3, Len(live)))

PopNextPair(t) ==
    LET timedOut == Filtered(queue, ExpiredAt(t))
        live     == Filtered(queue, StaysAt(t))
    IN  IF Len(live) < 2
        THEN Returns(timedOut, <<>>, live)
        ELSE Returns(timedOut, <<live[1], live[2]>>, SubSeq(live, 3, Len(live)))

\* The clock: time.Now is monotonic.
Tick ==
    /\ now < MaxTime
    /\ now' = now + 1
    /\ UNCHANGED <<sessions, queuedAt, queue, popped>>

\* The two reports the shell prints.
Snapshot ==
    [Online  |-> Cardinality({p \in Player : Registered(p)}),
     InQueue |-> Cardinality({p \in Player : Queued(p)})]

QueueStatus(p, t) ==
    LET places == {i \in 1..Len(queue) : queue[i] = p}
    IN  IF ~Queued(p)
        THEN [inQueue |-> FALSE, position |-> 0, wait |-> 0]
        ELSE [inQueue  |-> TRUE,
              position |-> IF places = {} THEN 0
                           ELSE CHOOSE i \in places : \A j \in places : i <= j,
              wait     |-> IF t < queuedAt[p] THEN 0 ELSE t - queuedAt[p]]

(***************************************************************************)
(* The lobby on its own: any caller, any order.  The time the queue loop   *)
(* passes to PopNextPair was read before the lock, so it may be in the     *)
(* past.                                                                   *)
(***************************************************************************)
Pop == \E t \in 0..now : PopNextPair(t) /\ UNCHANGED now

\* The queue loop is done with what it popped.
Forget == popped' = NothingPopped /\ UNCHANGED <<now, lobbyState>>

LobbyCall ==
    \/ \E s \in Session : Register(s)
    \/ \E p \in Player : Unregister(p) \/ JoinQueue(p) \/ LeaveQueue(p)

LobbyNext ==
    \/ LobbyCall /\ UNCHANGED <<now, popped>>
    \/ Pop
    \/ Forget
    \/ Tick

LobbySpec == LobbyInit /\ [][LobbyNext]_lobbyVars

----------------------------------------------------------------------------
LobbyTypeOK ==
    /\ now \in Nat
    /\ sessions \in [Player -> Session \cup {NoSession}]
    /\ queuedAt \in [Player -> Nat \cup {NotQueued}]
    /\ queue \in Seq(Player)
    /\ popped \in [pair : {<<>>} \cup (Player \X Player), timedOut : Seq(Player)]

\* The slice queue and the map queuedAt describe the same set of players, and
\* nobody waits twice: two structures that five operations update separately.
QueueMatchesIndex ==
    /\ \A i, j \in 1..Len(queue) : queue[i] = queue[j] => i = j
    /\ Range(queue) = {p \in Player : Queued(p)}

\* Nobody waits who has no session: a disconnect leaves no entry behind that
\* the loop could pair.
QueuedAreRegistered == \A p \in Player : Queued(p) => Registered(p)

\* The queue is in order of arrival, which the timeout pass and the FIFO
\* pairing both rely on; no entry is younger than the clock.
QueueInArrivalOrder ==
    \A i \in 1..Len(queue) :
        /\ queuedAt[queue[i]] <= now
        /\ \A j \in i..Len(queue) : queuedAt[queue[i]] <= queuedAt[queue[j]]

\* What the shell reports (QueueStatus, Snapshot) agrees with the queue: every
\* waiting player has a position of its own in it, and the counts are right.
ReportsAgree ==
    /\ Snapshot.InQueue = Len(queue)
    /\ \A p \in Player :
        LET status == QueueStatus(p, now)
        IN  status.inQueue => status.position \in 1..Len(queue)
                              /\ queue[status.position] = p

LobbyInv ==
    /\ LobbyTypeOK
    /\ QueueMatchesIndex
    /\ QueuedAreRegistered
    /\ QueueInArrivalOrder

\* Two structures that four operations and the timeout change one after the other, the
\* sessions and both reports say the same, whatever shells and loop do in between.
LobbyAgrees == LobbyInv /\ ReportsAgree

\* In q, p stands before r.
Before(q, p, r) == \E i, j \in 1..Len(q) : i < j /\ q[i] = p /\ q[j] = r

\* The pair are the two who have waited longest among those that have not expired.
PairsTheOldest(t) ==
    \A i \in DOMAIN popped'.pair :
        LET p == popped'.pair[i]
        IN  /\ ~Expired(p, t)
            /\ \A r \in Range(queue') : queuedAt[p] <= queuedAt[r] /\ Before(queue, p, r)

\* Everybody stays or is returned, and nobody both or twice; a pair is returned if
\* there are two to return.
AccountsForAll(t) ==
    LET pair == Range(popped'.pair)
        late == Range(popped'.timedOut)
    IN  /\ Range(queue) = Range(queue') \cup pair \cup late
        /\ Range(queue') \cap (pair \cup late) = {} /\ pair \cap late = {}
        /\ \A p \in late : Expired(p, t)
        /\ popped'.pair # <<>> => popped'.pair[1] # popped'.pair[2]
        /\ Len(queue') >= 2 => popped'.pair # <<>>

\* Whoever waits on keeps everybody behind him who was behind him or was not there yet.
KeepsHisPlace(p) ==
    \A r \in Range(queue') :
        Before(queue, p, r) \/ r \notin Range(queue) => Before(queue', p, r)

\* docs/m3-ssh-protocol.md, "Two queued players are paired FIFO.": a pop takes the first two,
\* passes over nobody and loses nobody, whatever the clock says and whoever has expired; and
\* between two pops nobody overtakes anybody, however often players join, join again, leave,
\* vanish or time out, and whoever comes, a player put back by the loop included, comes last
\* (PopNextPair, JoinQueue, removeQueueLocked).
FirstComeFirstServed ==
    [][/\ \A p \in Range(queue) \cap Range(queue') : KeepsHisPlace(p)
       /\ \A t \in 0..now : PopNextPair(t) => PairsTheOldest(t) /\ AccountsForAll(t)]_lobbyVars
============================================================================
