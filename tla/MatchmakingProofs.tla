------------------------- MODULE MatchmakingProofs -------------------------
(***************************************************************************)
(* What the matchmaker guarantees for every number of players, connections *)
(* and matches.  The argument: each step takes players nobody holds, hands *)
(* what one goroutine holds to another, gives it back whole, or leaves all *)
(* holders alone (StepOwns); and these four keep holders disjoint and the  *)
(* busy marks equal to what is held (OwnershipKeeps).                      *)
(***************************************************************************)
EXTENDS Matchmaking, LobbyProofs

----------------------------------------------------------------------------
(* The inductive invariant.                                                 *)

SessionsOwned == \A p \in Player : Registered(p) => Owner(sessions[p]) = p

\* The loop has a pair between popping it and deciding about it.
PoppedWhilePairing ==
    /\ loop \in {"reserve", "lookup", "undo"} => popped.pair # <<>>
    /\ loop = "requeue" => survivor \in Session

MMTypeOK ==
    /\ inMatch \subseteq Player
    /\ shell \in [Session -> ShellStates]
    /\ loop \in LoopStates
    /\ survivor \in Session \cup {NoSession}
    /\ match \in [Match -> SUBSET Session]
    /\ waiting \subseteq Session
    /\ server \in {"up", "stopping", "stopped"}

MMInv ==
    /\ LobbyInv
    /\ MMTypeOK
    /\ SessionsOwned
    /\ RegisteredWhileOpen
    /\ PoppedWhilePairing
    /\ BusyIsHeld
    /\ HeldOnce
    /\ StopWaitsForMatches

LEMMA OwnersArePlayers == \A s \in Session : Owner(s) \in Player
  BY LobbyConstants DEF Owner

LEMMA LobbyTypes ==
    ASSUME LobbyInv
    PROVE  /\ now \in Nat
           /\ sessions \in [Player -> Session \cup {NoSession}]
           /\ popped \in Poppable
           /\ popped.pair \in {<<>>} \cup (Player \X Player)
           /\ PairSet \subseteq Player
           /\ popped.pair # <<>> => PairSet # {}
<1>1. popped.pair \in {<<>>} \cup (Player \X Player)
  BY DEF LobbyInv, LobbyTypeOK
<1>2. CASE popped.pair = <<>>
  BY <1>1, <1>2 DEF LobbyInv, LobbyTypeOK, Poppable, PairSet, Range
<1>3. CASE popped.pair # <<>>
  <2>1. PICK p, r \in Player : popped.pair = <<p, r>>
    BY <1>1, <1>3
  <2>2. PairSet = {p, r}
    BY <2>1 DEF PairSet, Range
  <2>3. QED
    BY <1>1, <2>2 DEF LobbyInv, LobbyTypeOK, Poppable
<1>4. QED
  BY <1>2, <1>3

----------------------------------------------------------------------------
(* Every step makes at most one call to the lobby.                          *)

LEMMA StepKeepsLobby ==
    ASSUME MMInv, Next
    PROVE  LobbyInv'
<1>1. LobbyInv /\ popped \in Poppable /\ now \in Nat /\ NothingPopped \in Poppable
  BY LobbyTypes, NothingIsPoppable DEF MMInv
<1>2. ASSUME UNCHANGED lobbyVars PROVE LobbyInv'
  BY <1>1, <1>2, LobbyKept DEF lobbyVars, lobbyState
<1>3. ASSUME Forget PROVE LobbyInv'
  BY <1>1, <1>3, LobbyKept DEF Forget
<1>4. ASSUME NEW s \in Session, Command(s) PROVE LobbyInv'
  <2>1. CASE Connect(s)
    BY <1>1, <2>1, RegisterKeepsInv DEF Connect
  <2>2. CASE EnqueueCheck(s) \/ StartNPCReserve(s)
    BY <1>2, <2>2 DEF EnqueueCheck, StartNPCReserve
  <2>3. CASE Dequeue(s, "idle") \/ Dequeue(s, "unregister")
    BY <1>1, <2>3, OwnersArePlayers, LeaveQueueKeepsInv DEF Dequeue
  <2>4. QED
    BY <1>4, <2>1, <2>2, <2>3 DEF Command
<1>5. ASSUME NEW s \in Session, ShellStep(s) PROVE LobbyInv'
  <2>1. CASE EnqueueJoin(s)
    BY <1>1, <2>1, OwnersArePlayers, JoinQueueKeepsInv DEF EnqueueJoin
  <2>2. CASE EnqueueAnswer(s)
    BY <1>2, <2>2 DEF EnqueueAnswer
  <2>3. CASE StartNPCMatch(s)
    BY <1>1, <2>3, OwnersArePlayers, LeaveQueueKeepsInv DEF StartNPCMatch
  <2>4. CASE Disconnect(s)
    BY <1>1, <2>4, OwnersArePlayers, UnregisterKeepsInv DEF Disconnect
  <2>5. QED
    BY <1>5, <2>1, <2>2, <2>3, <2>4 DEF ShellStep
<1>6. ASSUME LoopStep PROVE LobbyInv'
  <2>1. CASE LoopPop
    BY <1>1, <2>1, PopNextPairKeepsInv DEF LoopPop
  <2>2. CASE LoopReserve
    BY <1>2, <1>3, <2>2 DEF LoopReserve
  <2>3. CASE LoopStartMatch \/ LoopUndo
    BY <1>3, <2>3 DEF LoopStartMatch, LoopUndo
  <2>4. CASE LoopPeerMissing
    BY <1>2, <2>4 DEF LoopPeerMissing
  <2>5. CASE LoopRequeue
    <3>1. Owner(survivor) \in Player
      BY <2>5, OwnersArePlayers DEF MMInv, PoppedWhilePairing, LoopRequeue, LoopGoto
    <3>2. CASE Registered(Owner(survivor))
      BY <1>1, <2>5, <3>1, <3>2, JoinQueueKeepsInv DEF LoopRequeue
    <3>3. CASE ~Registered(Owner(survivor))
      BY <1>1, <2>5, <3>3, LobbyKept DEF LoopRequeue, lobbyState
    <3>4. QED
      BY <3>2, <3>3
  <2>6. QED
    BY <1>6, <2>1, <2>2, <2>3, <2>4, <2>5 DEF LoopStep
<1>7. CASE ClockTick
  BY <1>1, <1>7, LobbyKept DEF ClockTick, Tick, lobbyState
<1>8. CASE LoopExit \/ StopCall \/ StopReturn \/ \E m \in Match : MatchRelease(m)
  BY <1>2, <1>8 DEF LoopExit, StopCall, StopReturn, MatchRelease
<1>9. QED
  BY <1>4, <1>5, <1>6, <1>7, <1>8 DEF Next

----------------------------------------------------------------------------
(* Types.                                                                   *)

LEMMA StepKeepsTypes ==
    ASSUME MMInv, Next
    PROVE  MMTypeOK'
<1>1. MMTypeOK /\ LobbyInv /\ LobbyInv' /\ PairSet \subseteq Player
      /\ sessions \in [Player -> Session \cup {NoSession}]
  BY StepKeepsLobby, LobbyTypes DEF MMInv
<1>2. ASSUME NEW s \in Session, Command(s) \/ ShellStep(s) PROVE MMTypeOK'
  BY <1>1, <1>2, OwnersArePlayers
     DEF MMTypeOK, Command, ShellStep, Goto, ShellStates, Connect, EnqueueCheck, EnqueueJoin,
         EnqueueAnswer, Dequeue, StartNPCReserve, StartNPCMatch, Disconnect
<1>3. ASSUME LoopStep PROVE MMTypeOK'
  <2>1. CASE LoopPop
    BY <1>1, <2>1 DEF MMTypeOK, LoopPop, LoopGoto, LoopStates
  <2>2. CASE LoopReserve
    BY <1>1, <2>2 DEF MMTypeOK, LoopReserve, LoopGoto, LoopStates
  <2>3. CASE LoopStartMatch
    <3>1. {sessions[p] : p \in PairSet} \in SUBSET Session
      BY <1>1, <2>3 DEF LoopStartMatch, Registered
    <3>2. QED
      BY <1>1, <2>3, <3>1 DEF MMTypeOK, LoopStartMatch, LoopGoto, LoopStates
  <2>4. CASE LoopPeerMissing
    BY <1>1, <2>4 DEF MMTypeOK, LoopPeerMissing, LoopGoto, LoopStates
  <2>5. CASE LoopUndo
    BY <1>1, <2>5 DEF MMTypeOK, LoopUndo, LoopGoto, LoopStates
  <2>6. CASE LoopRequeue
    BY <1>1, <2>6 DEF MMTypeOK, LoopRequeue, LoopGoto, LoopStates, MMInv, PoppedWhilePairing
  <2>7. QED
    BY <1>3, <2>1, <2>2, <2>3, <2>4, <2>5, <2>6 DEF LoopStep
<1>4. CASE LoopExit \/ StopCall \/ StopReturn \/ \E m \in Match : MatchRelease(m)
  BY <1>1, <1>4 DEF MMTypeOK, LoopExit, LoopGoto, LoopStates, StopCall, StopReturn, MatchRelease
<1>5. CASE ClockTick
  BY <1>1, <1>5 DEF MMTypeOK, ClockTick, mmVars
<1>6. QED
  BY <1>2, <1>3, <1>4, <1>5 DEF Next

----------------------------------------------------------------------------
(* The lobby's session of a player is the one whose shell is open: Connect  *)
(* meets no open shell, and Disconnect removes its own.                     *)

LEMMA SessionsFollowShells ==
    ASSUME MMInv, Next
    PROVE  SessionsOwned' /\ RegisteredWhileOpen'
<1>1. /\ shell \in [Session -> ShellStates]
      /\ sessions \in [Player -> Session \cup {NoSession}]
      /\ SessionsOwned /\ RegisteredWhileOpen
      /\ NoSession \notin Session
  BY LobbyTypes, LobbyConstants DEF MMInv, MMTypeOK
<1>2. ASSUME sessions' = sessions, \A s \in Session : Open(s)' <=> Open(s)
      PROVE  SessionsOwned' /\ RegisteredWhileOpen'
  BY <1>1, <1>2 DEF SessionsOwned, RegisteredWhileOpen, Registered
<1>3. ASSUME UNCHANGED <<sessions, shell>> PROVE SessionsOwned' /\ RegisteredWhileOpen'
  BY <1>2, <1>3 DEF Open
<1>4. ASSUME NEW s \in Session, Command(s) \/ ShellStep(s)
      PROVE  SessionsOwned' /\ RegisteredWhileOpen'
  <2>1. CASE Connect(s)
    <3>1. /\ sessions' = [sessions EXCEPT ![Owner(s)] = s] /\ sessions[Owner(s)] = NoSession
          /\ shell' = [shell EXCEPT ![s] = "idle"]
      BY <2>1 DEF Connect, Register, Registered, Goto
    <3>2. ASSUME NEW r \in Session PROVE Open(r)' <=> sessions'[Owner(r)] = r
      <4>1. CASE r = s
        BY <4>1, <3>1, <1>1, OwnersArePlayers DEF Open
      <4>2. CASE r # s /\ Owner(r) = Owner(s)
        BY <4>2, <3>1, <1>1, OwnersArePlayers DEF Open, RegisteredWhileOpen
      <4>3. CASE r # s /\ Owner(r) # Owner(s)
        BY <4>3, <3>1, <1>1, OwnersArePlayers DEF Open, RegisteredWhileOpen
      <4>4. QED
        BY <4>1, <4>2, <4>3
    <3>3. SessionsOwned'
      BY <3>1, <1>1, OwnersArePlayers DEF SessionsOwned, Registered
    <3>4. QED
      BY <3>2, <3>3 DEF RegisteredWhileOpen
  <2>2. CASE Disconnect(s)
    <3>1. /\ sessions' = [sessions EXCEPT ![Owner(s)] = NoSession]
          /\ shell[s] = "unregister" /\ shell' = [shell EXCEPT ![s] = "closed"]
      BY <2>2 DEF Disconnect, Unregister, Goto
    <3>2. sessions[Owner(s)] = s
      BY <3>1, <1>1 DEF RegisteredWhileOpen, Open
    <3>3. ASSUME NEW r \in Session PROVE Open(r)' <=> sessions'[Owner(r)] = r
      <4>1. CASE r = s
        BY <4>1, <3>1, <1>1, OwnersArePlayers DEF Open
      <4>2. CASE r # s /\ Owner(r) = Owner(s)
        BY <4>2, <3>1, <3>2, <1>1, OwnersArePlayers DEF Open, RegisteredWhileOpen
      <4>3. CASE r # s /\ Owner(r) # Owner(s)
        BY <4>3, <3>1, <1>1, OwnersArePlayers DEF Open, RegisteredWhileOpen
      <4>4. QED
        BY <4>1, <4>2, <4>3
    <3>4. SessionsOwned'
      BY <3>1, <1>1, OwnersArePlayers DEF SessionsOwned, Registered
    <3>5. QED
      BY <3>3, <3>4 DEF RegisteredWhileOpen
  <2>3. CASE ~Connect(s) /\ ~Disconnect(s)
    <3>1. sessions' = sessions
      BY <1>4, <2>3 DEF Command, ShellStep, EnqueueCheck, EnqueueJoin, EnqueueAnswer, Dequeue,
                        StartNPCReserve, StartNPCMatch, JoinQueue, LeaveQueue, lobbyVars
    <3>2. /\ shell[s] \notin {"new", "closed"} /\ shell'[s] \notin {"new", "closed"}
          /\ \A r \in Session : r # s => shell'[r] = shell[r]
      BY <1>1, <1>4, <2>3 DEF Command, ShellStep, Goto, EnqueueCheck, EnqueueJoin, EnqueueAnswer,
                              Dequeue, StartNPCReserve, StartNPCMatch
    <3>3. \A r \in Session : Open(r)' <=> Open(r)
      BY <3>2 DEF Open
    <3>4. QED
      BY <1>2, <3>1, <3>3
  <2>4. QED
    BY <2>1, <2>2, <2>3
<1>5. CASE LoopStep
  BY <1>3, <1>5 DEF LoopStep, LoopPop, LoopReserve, LoopStartMatch, LoopPeerMissing, LoopUndo,
                    LoopRequeue, PopNextPair, Returns, Forget, JoinQueue, lobbyVars, lobbyState
<1>6. CASE LoopExit \/ StopCall \/ StopReturn \/ ClockTick \/ \E m \in Match : MatchRelease(m)
  BY <1>3, <1>6 DEF LoopExit, StopCall, StopReturn, ClockTick, Tick, MatchRelease, mmVars, lobbyVars
<1>7. QED
  BY <1>4, <1>5, <1>6 DEF Next

----------------------------------------------------------------------------
(* The loop holds a pair while it decides about it.                         *)

LEMMA StepKeepsPopped ==
    ASSUME MMInv, Next
    PROVE  PoppedWhilePairing'
<1>1. PoppedWhilePairing /\ MMTypeOK /\ LobbyInv
  BY DEF MMInv
<1>2. ASSUME UNCHANGED <<loop, popped, survivor>> PROVE PoppedWhilePairing'
  BY <1>1, <1>2 DEF PoppedWhilePairing
<1>3. ASSUME NEW s \in Session, Command(s) \/ ShellStep(s) PROVE PoppedWhilePairing'
  BY <1>2, <1>3 DEF Command, ShellStep, Connect, EnqueueCheck, EnqueueJoin, EnqueueAnswer,
                    Dequeue, StartNPCReserve, StartNPCMatch, Disconnect, lobbyVars
<1>4. CASE LoopStep
  <2>1. CASE LoopPop
    BY <2>1 DEF PoppedWhilePairing, LoopPop, LoopGoto
  <2>2. CASE LoopReserve
    BY <1>1, <2>2 DEF PoppedWhilePairing, LoopReserve, LoopGoto, lobbyVars
  <2>3. CASE LoopStartMatch \/ LoopRequeue
    BY <2>3 DEF PoppedWhilePairing, LoopStartMatch, LoopRequeue, LoopGoto
  <2>4. CASE LoopPeerMissing
    BY <1>1, <2>4 DEF PoppedWhilePairing, LoopPeerMissing, LoopGoto, lobbyVars
  <2>5. CASE LoopUndo
    BY <1>1, <2>5 DEF PoppedWhilePairing, LoopUndo, LoopGoto, MMTypeOK
  <2>6. QED
    BY <1>4, <2>1, <2>2, <2>3, <2>4, <2>5 DEF LoopStep
<1>5. CASE LoopExit
  BY <1>5 DEF PoppedWhilePairing, LoopExit, LoopGoto
<1>6. CASE StopCall \/ StopReturn \/ ClockTick \/ \E m \in Match : MatchRelease(m)
  BY <1>2, <1>6 DEF StopCall, StopReturn, ClockTick, Tick, MatchRelease, mmVars, lobbyVars
<1>7. QED
  BY <1>3, <1>4, <1>5, <1>6 DEF Next

----------------------------------------------------------------------------
(* Stop.  Once the loop is done it stays done, and only it starts ranked    *)
(* matches.                                                                 *)

LEMMA StepKeepsStopped ==
    ASSUME MMInv, Next
    PROVE  StopWaitsForMatches'
<1>1. /\ StopWaitsForMatches /\ match \in [Match -> SUBSET Session]
      /\ server \in {"up", "stopping", "stopped"}
  BY DEF MMInv, MMTypeOK
<1>2. ASSUME UNCHANGED <<server, loop, match>> PROVE StopWaitsForMatches'
  BY <1>1, <1>2 DEF StopWaitsForMatches
<1>3. Cardinality({}) < 2 /\ \A s \in Session : Cardinality({s}) < 2
  BY FS_EmptySet, FS_Singleton
<1>4. ASSUME NEW s \in Session, Command(s) \/ ShellStep(s) PROVE StopWaitsForMatches'
  <2>1. CASE StartNPCMatch(s)
    BY <1>1, <1>3, <2>1 DEF StopWaitsForMatches, StartNPCMatch
  <2>2. CASE ~StartNPCMatch(s)
    BY <1>2, <1>4, <2>2 DEF Command, ShellStep, Connect, EnqueueCheck, EnqueueJoin, EnqueueAnswer,
                            Dequeue, StartNPCReserve, Disconnect
  <2>3. QED
    BY <2>1, <2>2
<1>5. CASE LoopStep \/ LoopExit
  BY <1>1, <1>5 DEF StopWaitsForMatches, LoopStep, LoopPop, LoopReserve, LoopStartMatch, LoopGoto,
                    LoopPeerMissing, LoopUndo, LoopRequeue, LoopExit
<1>6. CASE \E m \in Match : MatchRelease(m)
  BY <1>1, <1>3, <1>6 DEF StopWaitsForMatches, MatchRelease
<1>7. CASE StopCall
  BY <1>7 DEF StopWaitsForMatches, StopCall
<1>8. CASE StopReturn
  BY <1>1, <1>3, <1>8 DEF StopWaitsForMatches, StopReturn, Waiting
<1>9. CASE ClockTick
  BY <1>2, <1>9 DEF ClockTick, mmVars
<1>10. QED
  BY <1>4, <1>5, <1>6, <1>7, <1>8, <1>9 DEF Next

----------------------------------------------------------------------------
(* Ownership.                                                               *)

LoopHolder     == <<"loop">>
ShellHolder(s) == <<"shell", s>>
MatchHolder(m) == <<"match", m>>

LEMMA Holders ==
    /\ LoopHolder \in Holder
    /\ \A s \in Session : ShellHolder(s) \in Holder /\ ShellHolder(s) # LoopHolder
    /\ \A m \in Match : MatchHolder(m) \in Holder /\ MatchHolder(m) # LoopHolder
    /\ \A s \in Session, m \in Match : ShellHolder(s) # MatchHolder(m)
    /\ \A s, r \in Session : ShellHolder(s) = ShellHolder(r) => s = r
    /\ \A m, n \in Match : MatchHolder(m) = MatchHolder(n) => m = n
    /\ \A h \in Holder : \/ h = LoopHolder
                         \/ \E s \in Session : h = ShellHolder(s)
                         \/ \E m \in Match : h = MatchHolder(m)
  BY DEF Holder, LoopHolder, ShellHolder, MatchHolder

LEMMA HeldValues ==
    /\ held = [h \in Holder |-> held[h]]
    /\ held[LoopHolder] = LoopHolds
    /\ \A s \in Session : held[ShellHolder(s)] = ShellHolds(s)
    /\ \A m \in Match : held[MatchHolder(m)] = MatchHolds(m)
<1>1. held = [h \in Holder |-> held[h]]
  BY DEF held
<1>2. held[LoopHolder] = LoopHolds
  BY Holders DEF held, HeldBy, LoopHolder
<1>3. ASSUME NEW s \in Session PROVE held[ShellHolder(s)] = ShellHolds(s)
  BY Holders DEF held, HeldBy, ShellHolder
<1>4. ASSUME NEW m \in Match PROVE held[MatchHolder(m)] = MatchHolds(m)
  BY Holders DEF held, HeldBy, MatchHolder
<1>5. QED
  BY <1>1, <1>2, <1>3, <1>4

LEMMA HeldValuesNext ==
    /\ held' = [h \in Holder |-> held'[h]]
    /\ held'[LoopHolder] = LoopHolds'
    /\ \A s \in Session : held'[ShellHolder(s)] = ShellHolds(s)'
    /\ \A m \in Match : held'[MatchHolder(m)] = MatchHolds(m)'
<1>1. held' = [h \in Holder |-> held'[h]]
  BY DEF held
<1>2. held'[LoopHolder] = LoopHolds'
  BY Holders DEF held, HeldBy, LoopHolder
<1>3. ASSUME NEW s \in Session PROVE held'[ShellHolder(s)] = ShellHolds(s)'
  BY Holders DEF held, HeldBy, ShellHolder
<1>4. ASSUME NEW m \in Match PROVE held'[MatchHolder(m)] = MatchHolds(m)'
  BY Holders DEF held, HeldBy, MatchHolder
<1>5. QED
  BY <1>1, <1>2, <1>3, <1>4

\* held' from what the three kinds of holders hold after the step.
LEMMA HeldPointwise ==
    ASSUME NEW f, f = [h \in Holder |-> f[h]],
           f[LoopHolder] = LoopHolds',
           \A s \in Session : f[ShellHolder(s)] = ShellHolds(s)',
           \A m \in Match : f[MatchHolder(m)] = MatchHolds(m)'
    PROVE  held' = f
<1>1. \A h \in Holder : held'[h] = f[h]
  BY Holders, HeldValuesNext
<1>2. QED
  BY <1>1, HeldValuesNext, Zenon

(***************************************************************************)
(* The four things a step may do to the holders.                           *)
(***************************************************************************)
Takes(h, S) ==
    /\ held[h] = {} /\ S # {} /\ S \subseteq Player /\ S \cap inMatch = {}
    /\ inMatch' = inMatch \cup S
    /\ held' = [held EXCEPT ![h] = S]
Hands(h, k) ==
    /\ h # k /\ held[h] # {} /\ held[k] = {}
    /\ inMatch' = inMatch
    /\ held' = [held EXCEPT ![h] = {}, ![k] = held[h]]
GivesBack(h) ==
    /\ held[h] # {}
    /\ inMatch' = inMatch \ held[h]
    /\ held' = [held EXCEPT ![h] = {}]
LeavesAll == inMatch' = inMatch /\ held' = held

OwnershipStep ==
    \/ \E h \in Holder, S \in SUBSET Player : Takes(h, S)
    \/ \E h, k \in Holder : Hands(h, k)
    \/ \E h \in Holder : GivesBack(h)
    \/ LeavesAll

LEMMA OwnershipKeeps ==
    ASSUME BusyIsHeld, HeldOnce, OwnershipStep
    PROVE  BusyIsHeld' /\ HeldOnce'
<1> DEFINE H == held
<1>1. H = [h \in Holder |-> H[h]]
  BY HeldValues
<1>2. Holder' = Holder
  BY DEF Holder
<1>3. ASSUME NEW h \in Holder, NEW S \in SUBSET Player, Takes(h, S)
      PROVE  BusyIsHeld' /\ HeldOnce'
  <2>1. /\ H[h] = {} /\ S \cap inMatch = {} /\ inMatch' = inMatch \cup S
        /\ held'[h] = S /\ \A k \in Holder : k # h => held'[k] = H[k]
    BY <1>1, <1>3 DEF Takes
  <2>2. inMatch = UNION {H[k] : k \in Holder} /\ \A k, l \in Holder : k # l => H[k] \cap H[l] = {}
    BY DEF BusyIsHeld, HeldOnce
  <2> HIDE DEF H
  <2>3. inMatch' = UNION {held'[k] : k \in Holder}
    BY <2>1, <2>2
  <2>4. \A k, l \in Holder : k # l => held'[k] \cap held'[l] = {}
    BY <2>1, <2>2
  <2>5. QED
    BY <1>2, <2>3, <2>4 DEF BusyIsHeld, HeldOnce
<1>4. ASSUME NEW h \in Holder, NEW k \in Holder, Hands(h, k)
      PROVE  BusyIsHeld' /\ HeldOnce'
  <2>1. /\ h # k /\ H[k] = {} /\ inMatch' = inMatch
        /\ held'[h] = {} /\ held'[k] = H[h]
        /\ \A l \in Holder : l # h /\ l # k => held'[l] = H[l]
    BY <1>1, <1>4 DEF Hands
  <2>2. inMatch = UNION {H[l] : l \in Holder} /\ \A l, n \in Holder : l # n => H[l] \cap H[n] = {}
    BY DEF BusyIsHeld, HeldOnce
  <2> HIDE DEF H
  <2>3. UNION {held'[l] : l \in Holder} = UNION {H[l] : l \in Holder}
    BY <2>1
  <2>4. \A l, n \in Holder : l # n => held'[l] \cap held'[n] = {}
    BY <2>1, <2>2
  <2>5. QED
    BY <1>2, <2>1, <2>2, <2>3, <2>4 DEF BusyIsHeld, HeldOnce
<1>5. ASSUME NEW h \in Holder, GivesBack(h)
      PROVE  BusyIsHeld' /\ HeldOnce'
  <2>1. /\ inMatch' = inMatch \ H[h]
        /\ held'[h] = {} /\ \A k \in Holder : k # h => held'[k] = H[k]
    BY <1>1, <1>5 DEF GivesBack
  <2>2. inMatch = UNION {H[k] : k \in Holder} /\ \A k, l \in Holder : k # l => H[k] \cap H[l] = {}
    BY DEF BusyIsHeld, HeldOnce
  <2> HIDE DEF H
  <2>3. inMatch' = UNION {held'[k] : k \in Holder}
    BY <2>1, <2>2
  <2>4. \A k, l \in Holder : k # l => held'[k] \cap held'[l] = {}
    BY <2>1, <2>2
  <2>5. QED
    BY <1>2, <2>3, <2>4 DEF BusyIsHeld, HeldOnce
<1>6. CASE LeavesAll
  BY <1>2, <1>6 DEF LeavesAll, BusyIsHeld, HeldOnce
<1>7. QED
  BY <1>3, <1>4, <1>5, <1>6 DEF OwnershipStep

\* A step that moves neither a shell into or out of "npc" nor the loop's pair
\* nor a match leaves the holders alone.
LEMMA HoldersUntouched ==
    ASSUME LoopHolds' = LoopHolds, match' = match, inMatch' = inMatch,
           \A s \in Session : ShellHolds(s)' = ShellHolds(s)
    PROVE  LeavesAll
<1>1. \A m \in Match : MatchHolds(m)' = MatchHolds(m)
  BY DEF MatchHolds
<1>2. held' = held
  <2> DEFINE H == held
  <2>1. /\ H = [h \in Holder |-> H[h]]
        /\ H[LoopHolder] = LoopHolds'
        /\ \A s \in Session : H[ShellHolder(s)] = ShellHolds(s)'
        /\ \A m \in Match : H[MatchHolder(m)] = MatchHolds(m)'
    BY HeldValues, <1>1
  <2> HIDE DEF H
  <2>2. held' = H
    BY <2>1, HeldPointwise
  <2>3. QED
    BY <2>2 DEF H
<1>3. QED
  BY <1>2 DEF LeavesAll

\* One holder's players change.
LEMMA OneHolderChanges ==
    ASSUME NEW h \in Holder, NEW S,
           h # LoopHolder => LoopHolds' = LoopHolds,
           \A s \in Session : h # ShellHolder(s) => ShellHolds(s)' = ShellHolds(s),
           \A m \in Match : h # MatchHolder(m) => MatchHolds(m)' = MatchHolds(m),
           held'[h] = S
    PROVE  held' = [held EXCEPT ![h] = S]
<1> DEFINE f == [held EXCEPT ![h] = S]
<1>1. f = [k \in Holder |-> f[k]] /\ f[h] = S /\ \A k \in Holder : k # h => f[k] = held[k]
  BY HeldValues
<1> HIDE DEF f
<1>2. f[LoopHolder] = LoopHolds'
  BY <1>1, Holders, HeldValues, HeldValuesNext
<1>3. \A s \in Session : f[ShellHolder(s)] = ShellHolds(s)'
  BY <1>1, Holders, HeldValues, HeldValuesNext
<1>4. \A m \in Match : f[MatchHolder(m)] = MatchHolds(m)'
  BY <1>1, Holders, HeldValues, HeldValuesNext
<1>5. held' = f
  BY <1>1, <1>2, <1>3, <1>4, HeldPointwise
<1>6. QED
  BY <1>5 DEF f

\* What one holder gives another takes.
LEMMA TwoHoldersChange ==
    ASSUME NEW h \in Holder, NEW k \in Holder, h # k,
           h # LoopHolder => LoopHolds' = LoopHolds,
           \A s \in Session : h # ShellHolder(s) => ShellHolds(s)' = ShellHolds(s),
           \A m \in Match : k # MatchHolder(m) => MatchHolds(m)' = MatchHolds(m),
           \A s \in Session : k # ShellHolder(s), \A m \in Match : h # MatchHolder(m),
           k # LoopHolder,
           held'[h] = {}, held'[k] = held[h]
    PROVE  held' = [held EXCEPT ![h] = {}, ![k] = held[h]]
<1> DEFINE f == [held EXCEPT ![h] = {}, ![k] = held[h]]
<1>1. /\ f = [l \in Holder |-> f[l]] /\ f[h] = {} /\ f[k] = held[h]
      /\ \A l \in Holder : l # h /\ l # k => f[l] = held[l]
  BY HeldValues
<1> HIDE DEF f
<1>2. f[LoopHolder] = LoopHolds'
  BY <1>1, Holders, HeldValues, HeldValuesNext
<1>3. \A s \in Session : f[ShellHolder(s)] = ShellHolds(s)'
  BY <1>1, Holders, HeldValues, HeldValuesNext
<1>4. \A m \in Match : f[MatchHolder(m)] = MatchHolds(m)'
  BY <1>1, Holders, HeldValues, HeldValuesNext
<1>5. held' = f
  BY <1>1, <1>2, <1>3, <1>4, HeldPointwise
<1>6. QED
  BY <1>5 DEF f

----------------------------------------------------------------------------
(* The shells: npc takes the player, and its match goroutine gets him.      *)

LEMMA ShellOwns ==
    ASSUME MMInv, NEW s \in Session, Command(s) \/ ShellStep(s)
    PROVE  OwnershipStep
<1>1. /\ shell \in [Session -> ShellStates]
      /\ Owner(s) \in Player
      /\ match \in [Match -> SUBSET Session]
  BY OwnersArePlayers DEF MMInv, MMTypeOK
<1>2. CASE StartNPCReserve(s)
  <2>1. /\ shell[s] = "idle" /\ shell' = [shell EXCEPT ![s] = "npc"]
        /\ Owner(s) \notin inMatch /\ inMatch' = inMatch \cup {Owner(s)}
        /\ loop' = loop /\ popped' = popped /\ match' = match
    BY <1>2 DEF StartNPCReserve, Goto, lobbyVars
  <2> DEFINE h == ShellHolder(s)
  <2>2. h \in Holder /\ held[h] = {} /\ held'[h] = {Owner(s)}
    BY <2>1, <1>1, Holders, HeldValues, HeldValuesNext DEF ShellHolds
  <2>3. LoopHolds' = LoopHolds /\ \A m \in Match : MatchHolds(m)' = MatchHolds(m)
    BY <2>1 DEF LoopHolds, PairSet, MatchHolds
  <2>4. \A r \in Session : h # ShellHolder(r) => ShellHolds(r)' = ShellHolds(r)
    BY <2>1, <1>1 DEF ShellHolds
  <2> HIDE DEF h
  <2>5. held' = [held EXCEPT ![h] = {Owner(s)}]
    BY <2>2, <2>3, <2>4, OneHolderChanges
  <2>6. Takes(h, {Owner(s)})
    BY <2>1, <2>2, <2>5, <1>1 DEF Takes
  <2>7. QED
    BY <2>2, <2>6, <1>1 DEF OwnershipStep
<1>3. CASE StartNPCMatch(s)
  <2>1. PICK m \in Match : match[m] = {} /\ match' = [match EXCEPT ![m] = {s}]
    BY <1>3 DEF StartNPCMatch
  <2>2. /\ shell[s] = "npc" /\ shell' = [shell EXCEPT ![s] = "idle"]
        /\ inMatch' = inMatch /\ loop' = loop /\ popped' = popped
    BY <1>3 DEF StartNPCMatch, Goto
  <2> DEFINE h == ShellHolder(s)
             k == MatchHolder(m)
  <2>3. h \in Holder /\ k \in Holder /\ h # k /\ h # LoopHolder /\ k # LoopHolder
        /\ (\A r \in Session : k # ShellHolder(r)) /\ (\A n \in Match : h # MatchHolder(n))
    BY Holders
  <2>4. held[h] = {Owner(s)} /\ held'[h] = {}
    BY <2>2, <1>1, HeldValues, HeldValuesNext DEF ShellHolds
  <2>5. held[k] = {} /\ held'[k] = {Owner(s)}
    BY <2>1, <1>1, HeldValues, HeldValuesNext DEF MatchHolds, Owners
  <2>6. LoopHolds' = LoopHolds
    BY <2>2 DEF LoopHolds, PairSet
  <2>7. \A r \in Session : h # ShellHolder(r) => ShellHolds(r)' = ShellHolds(r)
    BY <2>2, <1>1 DEF ShellHolds
  <2>8. \A n \in Match : k # MatchHolder(n) => MatchHolds(n)' = MatchHolds(n)
    BY <2>1, <1>1 DEF MatchHolds
  <2> HIDE DEF h, k
  <2>9. held' = [held EXCEPT ![h] = {}, ![k] = held[h]]
    BY <2>3, <2>4, <2>5, <2>6, <2>7, <2>8, TwoHoldersChange
  <2>10. Hands(h, k)
    BY <2>2, <2>3, <2>4, <2>5, <2>9 DEF Hands
  <2>11. QED
    BY <2>3, <2>10 DEF OwnershipStep
<1>4. CASE ~StartNPCReserve(s) /\ ~StartNPCMatch(s)
  <2>1. loop' = loop /\ popped' = popped /\ match' = match /\ inMatch' = inMatch
    BY <1>4 DEF Command, ShellStep, Connect, EnqueueCheck, EnqueueJoin, EnqueueAnswer,
                Dequeue, Disconnect, lobbyVars
  <2>2. \A r \in Session : ShellHolds(r)' = ShellHolds(r)
    BY <1>1, <1>4 DEF Command, ShellStep, Connect, EnqueueCheck, EnqueueJoin, EnqueueAnswer,
                      Dequeue, Disconnect, Goto, ShellHolds
  <2>3. LoopHolds' = LoopHolds
    BY <2>1 DEF LoopHolds, PairSet
  <2>4. QED
    BY <2>1, <2>2, <2>3, HoldersUntouched DEF OwnershipStep
<1>5. QED
  BY <1>2, <1>3, <1>4

----------------------------------------------------------------------------
(* The loop: it takes the pair, and a match goroutine gets it or the loop   *)
(* gives it back.                                                           *)

LEMMA LoopOwns ==
    ASSUME MMInv, LoopStep
    PROVE  OwnershipStep
<1>1. /\ LobbyInv /\ match \in [Match -> SUBSET Session]
      /\ PairSet \subseteq Player
      /\ loop \in {"reserve", "lookup", "undo"} => PairSet # {}
      /\ SessionsOwned
  BY LobbyTypes DEF MMInv, MMTypeOK, PoppedWhilePairing
<1>2. shell' = shell /\ \A s \in Session : ShellHolds(s)' = ShellHolds(s)
  BY DEF LoopStep, LoopPop, LoopReserve, LoopStartMatch, LoopPeerMissing, LoopUndo, LoopRequeue,
         ShellHolds
<1>3. LoopHolder \in Holder
  BY Holders
<1>4. CASE LoopPop \/ LoopRequeue
  <2>1. LoopHolds' = LoopHolds /\ match' = match /\ inMatch' = inMatch
    BY <1>4 DEF LoopPop, LoopRequeue, LoopGoto, LoopHolds
  <2>2. QED
    BY <1>2, <2>1, HoldersUntouched DEF OwnershipStep
<1>5. CASE LoopReserve
  <2>1. CASE PairSet \cap inMatch # {}
    <3>1. LoopHolds' = LoopHolds /\ match' = match /\ inMatch' = inMatch
      BY <1>5, <2>1 DEF LoopReserve, LoopGoto, LoopHolds
    <3>2. QED
      BY <1>2, <3>1, HoldersUntouched DEF OwnershipStep
  <2>2. CASE PairSet \cap inMatch = {}
    <3>1. /\ loop = "reserve" /\ loop' = "lookup" /\ popped' = popped /\ match' = match
          /\ inMatch' = inMatch \cup PairSet
      BY <1>5, <2>2 DEF LoopReserve, LoopGoto, lobbyVars
    <3>2. held[LoopHolder] = {} /\ held'[LoopHolder] = PairSet
      BY <3>1, HeldValues, HeldValuesNext DEF LoopHolds, PairSet
    <3>3. \A m \in Match : MatchHolds(m)' = MatchHolds(m)
      BY <3>1 DEF MatchHolds
    <3>4. held' = [held EXCEPT ![LoopHolder] = PairSet]
      BY <1>2, <1>3, <3>2, <3>3, OneHolderChanges
    <3>5. Takes(LoopHolder, PairSet)
      BY <1>1, <2>2, <3>1, <3>2, <3>4 DEF Takes
    <3>6. QED
      BY <1>1, <1>3, <3>5 DEF OwnershipStep
  <2>3. QED
    BY <2>1, <2>2
<1>6. CASE LoopStartMatch
  <2> DEFINE both == {sessions[p] : p \in PairSet}
  <2>1. PICK m \in Match : match[m] = {} /\ match' = [match EXCEPT ![m] = both]
    BY <1>6 DEF LoopStartMatch
  <2>2. /\ loop = "lookup" /\ loop' = "select" /\ inMatch' = inMatch
        /\ \A p \in PairSet : Registered(p)
    BY <1>6 DEF LoopStartMatch, LoopGoto
  <2>3. Owners(both) = PairSet
    BY <1>1, <2>2 DEF Owners, SessionsOwned
  <2> DEFINE k == MatchHolder(m)
  <2>4. k \in Holder /\ k # LoopHolder /\ (\A r \in Session : k # ShellHolder(r))
        /\ (\A n \in Match : LoopHolder # MatchHolder(n))
    BY Holders
  <2>5. held[LoopHolder] = PairSet /\ held'[LoopHolder] = {}
    BY <2>2, HeldValues, HeldValuesNext DEF LoopHolds
  <2>6. held[k] = {} /\ held'[k] = PairSet
    <3>1. MatchHolds(m) = {}
      BY <2>1 DEF MatchHolds, Owners
    <3>2. MatchHolds(m)' = Owners(both)
      <4> HIDE DEF both
      <4>1. match'[m] = both
        BY <2>1, <1>1
      <4>2. QED
        BY <4>1 DEF MatchHolds, Owners
    <3>3. QED
      BY <3>1, <3>2, <2>3, HeldValues, HeldValuesNext
  <2>7. \A n \in Match : k # MatchHolder(n) => MatchHolds(n)' = MatchHolds(n)
    BY <2>1, <1>1 DEF MatchHolds
  <2> HIDE DEF k
  <2>8. held' = [held EXCEPT ![LoopHolder] = {}, ![k] = held[LoopHolder]]
    BY <1>2, <1>3, <2>4, <2>5, <2>6, <2>7, TwoHoldersChange
  <2>9. Hands(LoopHolder, k)
    BY <1>1, <2>2, <2>4, <2>5, <2>6, <2>8 DEF Hands
  <2>10. QED
    BY <1>3, <2>4, <2>9 DEF OwnershipStep
<1>7. CASE LoopPeerMissing
  <2>1. LoopHolds' = LoopHolds /\ match' = match /\ inMatch' = inMatch
    BY <1>7 DEF LoopPeerMissing, LoopGoto, LoopHolds, lobbyVars, PairSet
  <2>2. QED
    BY <1>2, <2>1, HoldersUntouched DEF OwnershipStep
<1>8. CASE LoopUndo
  <2>1. /\ loop = "undo" /\ loop' \in {"select", "requeue"}
        /\ inMatch' = inMatch \ PairSet /\ match' = match
    BY <1>8 DEF LoopUndo, LoopGoto
  <2>2. held[LoopHolder] = PairSet /\ held'[LoopHolder] = {}
    BY <2>1, HeldValues, HeldValuesNext DEF LoopHolds
  <2>3. \A m \in Match : MatchHolds(m)' = MatchHolds(m)
    BY <2>1 DEF MatchHolds
  <2>4. held' = [held EXCEPT ![LoopHolder] = {}]
    BY <1>2, <1>3, <2>2, <2>3, OneHolderChanges
  <2>5. GivesBack(LoopHolder)
    BY <1>1, <2>1, <2>2, <2>4 DEF GivesBack
  <2>6. QED
    BY <1>3, <2>5 DEF OwnershipStep
<1>9. QED
  BY <1>4, <1>5, <1>6, <1>7, <1>8 DEF LoopStep

\* A match goroutine gives its players back when it ends.
LEMMA MatchOwns ==
    ASSUME MMInv, NEW m \in Match, MatchRelease(m)
    PROVE  OwnershipStep
<1> DEFINE h == MatchHolder(m)
<1>1. /\ match \in [Match -> SUBSET Session] /\ match[m] # {}
      /\ inMatch' = inMatch \ Owners(match[m])
      /\ match' = [match EXCEPT ![m] = {}]
      /\ loop' = loop /\ popped' = popped /\ shell' = shell
  BY DEF MatchRelease, MMInv, MMTypeOK, lobbyVars
<1>2. h \in Holder /\ held[h] = Owners(match[m]) /\ held[h] # {}
  BY <1>1, Holders, HeldValues DEF MatchHolds, Owners
<1>3. held'[h] = {}
  <2>1. MatchHolds(m)' = {}
    BY <1>1 DEF MatchHolds, Owners
  <2>2. QED
    BY <2>1, HeldValuesNext
<1>4. LoopHolds' = LoopHolds /\ \A s \in Session : ShellHolds(s)' = ShellHolds(s)
  BY <1>1 DEF LoopHolds, PairSet, ShellHolds
<1>5. \A n \in Match : h # MatchHolder(n) => MatchHolds(n)' = MatchHolds(n)
  BY <1>1 DEF MatchHolds
<1> HIDE DEF h
<1>6. held' = [held EXCEPT ![h] = {}]
  BY <1>2, <1>3, <1>4, <1>5, OneHolderChanges
<1>7. GivesBack(h)
  BY <1>1, <1>2, <1>6 DEF GivesBack
<1>8. QED
  BY <1>2, <1>7 DEF OwnershipStep

LEMMA StepOwns ==
    ASSUME MMInv, [Next]_vars
    PROVE  OwnershipStep
<1>1. CASE LoopExit
  <2>1. LoopHolds' = LoopHolds /\ match' = match /\ inMatch' = inMatch /\ shell' = shell
    BY <1>1 DEF LoopExit, LoopGoto, LoopHolds
  <2>2. QED
    BY <2>1, HoldersUntouched DEF OwnershipStep, ShellHolds
<1>2. CASE StopCall \/ StopReturn \/ ClockTick \/ UNCHANGED vars
  <2>1. UNCHANGED <<loop, popped, match, inMatch, shell>>
    BY <1>2 DEF StopCall, StopReturn, ClockTick, Tick, mmVars, lobbyVars, vars
  <2>2. LoopHolds' = LoopHolds
    BY <2>1 DEF LoopHolds, PairSet
  <2>3. QED
    BY <2>1, <2>2, HoldersUntouched DEF OwnershipStep, ShellHolds
<1>3. QED
  BY <1>1, <1>2, ShellOwns, LoopOwns, MatchOwns DEF Next

----------------------------------------------------------------------------
(* The theorems.                                                            *)

LEMMA InitEstablishes == Init => MMInv
<1> SUFFICES ASSUME Init PROVE MMInv
  OBVIOUS
<1>1. LobbyInit /\ inMatch = {} /\ loop = "select" /\ server = "up"
      /\ shell = [s \in Session |-> "new"] /\ match = [m \in Match |-> {}]
      /\ sessions = [p \in Player |-> NoSession]
  BY DEF Init, LobbyInit
<1>2. LobbyInv
  BY <1>1, LobbyInitEstablishes
<1>3. MMTypeOK
  BY DEF Init, MMTypeOK, ShellStates, LoopStates
<1>4. SessionsOwned /\ RegisteredWhileOpen
  BY <1>1, LobbyConstants, OwnersArePlayers DEF SessionsOwned, Registered, RegisteredWhileOpen, Open
<1>5. PoppedWhilePairing /\ StopWaitsForMatches
  BY <1>1 DEF PoppedWhilePairing, StopWaitsForMatches
<1>6. \A h \in Holder : held[h] = {}
  <2>1. LoopHolds = {} /\ (\A s \in Session : ShellHolds(s) = {}) /\ \A m \in Match : MatchHolds(m) = {}
    BY <1>1 DEF LoopHolds, ShellHolds, MatchHolds, Owners
  <2>2. QED
    BY <2>1, Holders, HeldValues
<1>7. BusyIsHeld /\ HeldOnce
  BY <1>1, <1>6 DEF BusyIsHeld, HeldOnce
<1>8. QED
  BY <1>2, <1>3, <1>4, <1>5, <1>7 DEF MMInv

LEMMA NextPreserves == MMInv /\ [Next]_vars => MMInv'
<1> SUFFICES ASSUME MMInv, [Next]_vars PROVE MMInv'
  OBVIOUS
<1>1. BusyIsHeld' /\ HeldOnce'
  BY StepOwns, OwnershipKeeps DEF MMInv
<1>2. CASE Next
  BY <1>1, <1>2, StepKeepsLobby, StepKeepsTypes, SessionsFollowShells, StepKeepsPopped,
     StepKeepsStopped DEF MMInv
<1>3. CASE UNCHANGED vars
  <2>1. LobbyInv'
    <3>1. popped \in Poppable /\ now \in Nat
      BY LobbyTypes DEF MMInv
    <3>2. QED
      BY <1>3, <3>1, LobbyKept DEF MMInv, vars, lobbyVars, lobbyState
  <2>2. MMTypeOK' /\ PoppedWhilePairing' /\ StopWaitsForMatches'
    BY <1>3 DEF MMInv, vars, mmVars, lobbyVars, MMTypeOK, PoppedWhilePairing, StopWaitsForMatches
  <2>3. SessionsOwned' /\ RegisteredWhileOpen'
    BY <1>3 DEF MMInv, vars, mmVars, lobbyVars, SessionsOwned, RegisteredWhileOpen, Registered, Open
  <2>4. QED
    BY <1>1, <2>1, <2>2, <2>3 DEF MMInv
<1>4. QED
  BY <1>2, <1>3

THEOREM MatchmakingInvariant == Spec => []MMInv
  BY InitEstablishes, NextPreserves, PTL DEF Spec

(***************************************************************************)
(* Every variable keeps its type.                                          *)
(***************************************************************************)
THEOREM MatchmakingTyped == Spec => []TypeOK
<1>1. MMInv => TypeOK
  BY DEF MMInv, LobbyInv, MMTypeOK, TypeOK
<1>2. QED
  BY <1>1, MatchmakingInvariant, PTL

(***************************************************************************)
(* The busy marks are exactly the players some goroutine still holds, and  *)
(* no two hold the same, so nobody is locked out of matches for good by a  *)
(* lost reservation.                                                       *)
(***************************************************************************)
THEOREM BusyPlayersAreHeld == Spec => []HeldByOne
<1>1. MMInv => HeldByOne
  BY DEF MMInv, HeldByOne
<1>2. QED
  BY <1>1, MatchmakingInvariant, PTL

(***************************************************************************)
(* No player is in two matches at once, or in one and about to start       *)
(* another: the check-then-act steps of q, npc and the loop do not race.   *)
(***************************************************************************)
THEOREM MatchesAreExclusive == Spec => []HeldOnce
<1>1. MMInv => HeldOnce
  BY DEF MMInv
<1>2. QED
  BY <1>1, MatchmakingInvariant, PTL

(***************************************************************************)
(* The lobby stays consistent under this caller as under any other: shells *)
(* and the queue loop do not unbalance its queue, index and sessions.      *)
(***************************************************************************)
THEOREM LobbyStaysConsistent == Spec => []LobbyAgrees
<1>1. MMInv => LobbyAgrees
  BY ReportsFollow DEF MMInv, LobbyAgrees
<1>2. QED
  BY <1>1, MatchmakingInvariant, PTL

\* In the running matchmaker too: what a step does to the queue is at most one call of the
\* lobby, and none of them lets anybody overtake.
LEMMA StepKeepsPlaces ==
    ASSUME MMInv, Next, NEW p \in Range(queue) \cap Range(queue')
    PROVE  KeepsHisPlace(p)
<1>1. LobbyInv
  BY DEF MMInv
<1>2. ASSUME queue' = queue PROVE KeepsHisPlace(p)
  BY <1>2 DEF KeepsHisPlace
<1>3. ASSUME NEW x \in Player, JoinQueue(x) \/ LeaveQueue(x) \/ Unregister(x)
      PROVE  KeepsHisPlace(p)
  BY <1>1, <1>3, JoiningKeepsPlaces, RemovalKeepsPlaces DEF LeaveQueue, Unregister
<1>4. ASSUME NEW s \in Session, Command(s) \/ ShellStep(s) PROVE KeepsHisPlace(p)
  <2>1. Owner(s) \in Player
    BY OwnersArePlayers
  <2>2. CASE queue' = queue
    BY <1>2, <2>2
  <2>3. CASE EnqueueJoin(s) \/ Dequeue(s, "idle") \/ Dequeue(s, "unregister")
             \/ StartNPCMatch(s) \/ Disconnect(s)
    BY <1>3, <2>1, <2>3 DEF EnqueueJoin, Dequeue, StartNPCMatch, Disconnect
  <2>4. QED
    BY <1>4, <2>2, <2>3 DEF Command, ShellStep, Connect, Register, EnqueueCheck, EnqueueAnswer,
                            StartNPCReserve, lobbyVars
<1>5. CASE LoopStep
  <2>1. CASE LoopPop
    BY <1>1, <2>1, PopKeepsPlaces DEF LoopPop
  <2>2. CASE LoopRequeue
    <3>1. Owner(survivor) \in Player
      BY <2>2, OwnersArePlayers DEF MMInv, PoppedWhilePairing, LoopRequeue, LoopGoto
    <3>2. CASE Registered(Owner(survivor))
      BY <1>3, <2>2, <3>1, <3>2 DEF LoopRequeue
    <3>3. CASE ~Registered(Owner(survivor))
      BY <1>2, <2>2, <3>3 DEF LoopRequeue, lobbyState
    <3> QED
      BY <3>2, <3>3
  <2>3. CASE LoopReserve \/ LoopStartMatch \/ LoopUndo \/ LoopPeerMissing
    BY <1>2, <2>3 DEF LoopReserve, LoopStartMatch, LoopUndo, LoopPeerMissing, Forget,
                      lobbyVars, lobbyState
  <2> QED
    BY <1>5, <2>1, <2>2, <2>3 DEF LoopStep
<1>6. CASE LoopExit \/ StopCall \/ StopReturn \/ ClockTick \/ \E m \in Match : MatchRelease(m)
  BY <1>2, <1>6 DEF LoopExit, StopCall, StopReturn, ClockTick, Tick, MatchRelease, lobbyVars
<1>7. QED
  BY <1>4, <1>5, <1>6 DEF Next

(***************************************************************************)
(* With any number of shells and matches, every pop of the queue loop      *)
(* takes the two at the head, nobody disappears between the queue and what *)
(* the loop gets, and nobody overtakes anybody.                            *)
(***************************************************************************)
THEOREM LoopServesInOrder == Spec => FirstComeFirstServed
<1>1. MMInv /\ [Next]_vars =>
        [/\ \A p \in Range(queue) \cap Range(queue') : KeepsHisPlace(p)
         /\ \A t \in 0..now : PopNextPair(t) => PairsTheOldest(t) /\ AccountsForAll(t)]_lobbyVars
  BY StepKeepsPlaces, PopPairsTheOldest, PopAccounts DEF vars, MMInv
<1>2. QED
  BY <1>1, MatchmakingInvariant, PTL DEF Spec, FirstComeFirstServed

(***************************************************************************)
(* A session is registered while its shell is open and not otherwise.      *)
(***************************************************************************)
THEOREM SessionsAreRegistered == Spec => []RegisteredWhileOpen
<1>1. MMInv => RegisteredWhileOpen
  BY DEF MMInv
<1>2. QED
  BY <1>1, MatchmakingInvariant, PTL

(***************************************************************************)
(* Once Stop has returned no ranked match runs or starts.                  *)
(***************************************************************************)
THEOREM StopIsFinal == Spec => []StopWaitsForMatches
<1>1. MMInv => StopWaitsForMatches
  BY DEF MMInv
<1>2. QED
  BY <1>1, MatchmakingInvariant, PTL

(***************************************************************************)
(* Match only names the running matches: the code starts as many as it     *)
(* needs.  With a name for every player there is one to spare whenever a   *)
(* match is about to start, so no behaviour is lost by the bound.          *)
(***************************************************************************)
Starting   == loop = "lookup" \/ \E s \in Session : shell[s] = "npc"
NameIsFree == Starting => \E m \in Match : match[m] = {}

\* Some player is held by the goroutine that starts the match, and by none that runs one.
LEMMA StartersHold ==
    ASSUME MMInv, Starting
    PROVE  \E p \in Player : \A m \in Match : p \notin MatchHolds(m)
<1>1. \A h, k \in Holder : h # k => held[h] \cap held[k] = {}
  BY DEF MMInv, HeldOnce
<1>2. CASE loop = "lookup"
  <2>1. PairSet \subseteq Player /\ PairSet # {}
    BY <1>2, LobbyTypes DEF MMInv, PoppedWhilePairing
  <2>2. PICK p \in Player : p \in LoopHolds
    BY <1>2, <2>1 DEF LoopHolds
  <2>3. ASSUME NEW m \in Match PROVE p \notin MatchHolds(m)
    BY <1>1, <2>2, Holders, HeldValues
  <2> QED
    BY <2>3
<1>3. ASSUME NEW s \in Session, shell[s] = "npc"
      PROVE  \A m \in Match : Owner(s) \notin MatchHolds(m)
  <2>1. Owner(s) \in ShellHolds(s)
    BY <1>3 DEF ShellHolds
  <2> QED
    BY <1>1, <2>1, Holders, HeldValues
<1> QED
  BY <1>2, <1>3, OwnersArePlayers DEF Starting

\* The matches hold different players, so there are fewer of them than players.
THEOREM NamesSuffice ==
    ASSUME IsFiniteSet(Player), IsFiniteSet(Match) => Cardinality(Match) >= Cardinality(Player)
    PROVE  Spec => []NameIsFree
<1>1. MMInv => NameIsFree
  <2> SUFFICES ASSUME MMInv, Starting, \A m \in Match : match[m] # {}
               PROVE  FALSE
    BY DEF NameIsFree
  <2>1. PICK p \in Player : \A m \in Match : p \notin MatchHolds(m)
    BY StartersHold
  <2> DEFINE Others   == Player \ {p}
             PlayerOf == [m \in Match |-> CHOOSE r \in Player : r \in MatchHolds(m)]
  <2>2. ASSUME NEW m \in Match PROVE PlayerOf[m] \in Player /\ PlayerOf[m] \in MatchHolds(m)
    <3>1. \E r \in Player : r \in MatchHolds(m)
      BY OwnersArePlayers DEF MMInv, MMTypeOK, MatchHolds, Owners
    <3> QED
      BY <3>1
  <2> HIDE DEF PlayerOf
  <2>3. PlayerOf \in [Match -> Others]
    BY <2>1, <2>2 DEF PlayerOf
  <2>4. ASSUME NEW m \in Match, NEW n \in Match, PlayerOf[m] = PlayerOf[n] PROVE m = n
    <3>1. \A h, k \in Holder : h # k => held[h] \cap held[k] = {}
      BY DEF MMInv, HeldOnce
    <3> QED
      BY <2>2, <2>4, <3>1, Holders, HeldValues
  <2>5. PlayerOf \in Injection(Match, Others)
    BY <2>3, <2>4, Fun_IsInj
  <2>6. IsFiniteSet(Others) /\ Cardinality(Others) = Cardinality(Player) - 1
    BY FS_RemoveElement
  <2>7. IsFiniteSet(Match) /\ Cardinality(Match) <= Cardinality(Others)
    BY <2>5, <2>6, FS_Injection
  <2>8. Cardinality(Match) \in Nat /\ Cardinality(Player) \in Nat
    BY <2>7, FS_CardinalityType
  <2> QED
    BY <2>6, <2>7, <2>8
<1>2. QED
  BY <1>1, MatchmakingInvariant, PTL

(***************************************************************************)
(* The matchmaker implements the exclusive ownership of players.           *)
(***************************************************************************)
THEOREM OwnershipImplemented == Spec => HoldsExclusively
<1>1. Init => Abstract!Init
  <2> SUFFICES ASSUME Init PROVE Abstract!Init
    OBVIOUS
  <2>1. LoopHolds = {} /\ (\A s \in Session : ShellHolds(s) = {}) /\ \A m \in Match : MatchHolds(m) = {}
    BY DEF Init, LoopHolds, ShellHolds, MatchHolds, Owners
  <2>2. \A h \in Holder : held[h] = {}
    BY <2>1, Holders, HeldValues
  <2>3. QED
    BY <2>2, HeldValues, Zenon DEF Abstract!Init
<1>2. MMInv /\ [Next]_vars => [Abstract!Next]_held
  <2> SUFFICES ASSUME MMInv, [Next]_vars PROVE [Abstract!Next]_held
    OBVIOUS
  <2>1. OwnershipStep
    BY StepOwns
  <2>2. Abstract!Free = Player \ inMatch
    BY DEF Abstract!Free, MMInv, BusyIsHeld
  <2>3. ASSUME NEW h \in Holder, NEW S \in SUBSET Player, Takes(h, S) PROVE Abstract!Next
    <3>1. Abstract!Take(h, S)
      BY <2>2, <2>3 DEF Takes, Abstract!Take
    <3>2. QED
      BY <3>1 DEF Abstract!Next
  <2>4. ASSUME NEW h \in Holder, NEW k \in Holder, Hands(h, k) PROVE Abstract!Next
    <3>1. Abstract!Hand(h, k)
      BY <2>4 DEF Hands, Abstract!Hand
    <3>2. QED
      BY <3>1 DEF Abstract!Next
  <2>5. ASSUME NEW h \in Holder, GivesBack(h) PROVE Abstract!Next
    <3>1. Abstract!GiveBack(h)
      BY <2>5 DEF GivesBack, Abstract!GiveBack
    <3>2. QED
      BY <3>1 DEF Abstract!Next
  <2>6. QED
    BY <2>1, <2>3, <2>4, <2>5 DEF OwnershipStep, LeavesAll
<1>3. QED
  BY <1>1, <1>2, MatchmakingInvariant, PTL DEF Spec, HoldsExclusively, Abstract!Spec
============================================================================
