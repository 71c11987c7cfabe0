--------------------------- MODULE SpectatorsProofs ---------------------------
(***************************************************************************)
(* What holds of the hub and of the index of active matches for any number *)
(* of matches and watchers, any cap, any handles and any size of the       *)
(* channels.                                                               *)
(***************************************************************************)
EXTENDS Spectators, FiniteSetTheorems, TLAPS

\* The index tells two handles apart: they differ in more than case.
FoldTellsApart == \A g, h \in Handle : Fold[g] = Fold[h] => g = h

----------------------------------------------------------------------------
(* The invariant.                                                           *)

\* The hub has exactly the matches that have begun and not yet left it.
HubFollowsMatches ==
    \A m \in Match : /\ m \in registered <=> stage[m] \in {"running", "done", "unindexed"}
                     /\ watchers[m] # {} => m \in registered
                     /\ closing[m] # {} => stage[m] = "closing"
                     /\ sending[m] # {} => stage[m] = "running"

\* A watcher the hub has is watching that match, and its channel is open.
HubHoldsItsWatchers ==
    \A m \in Match : \A w \in watchers[m] :
        call[w] \in {"watching", "leaving"} /\ found[w] = m /\ w \notin closed

\* A channel that an ended match will close is open, and no longer in the hub.
ClosingOnce ==
    \A m \in Match : \A w \in closing[m] :
        found[w] = m /\ call[w] \in {"watching", "leaving", "returned"} /\ w \notin closed

\* Only a cancelled run takes a watcher from a match that still sends.
OpenWhileRunning ==
    /\ \A w \in Watcher :
          (found[w] # NoMatch /\ stage[found[w]] = "running" /\ (call[w] = "leaving" \/ w \in closed))
              => canceled
    /\ \A m \in Match : \A w \in sending[m] : found[w] = m

\* A watch command that has found a match has found one that has begun.
FoundHaveBegun ==
    /\ \A w \in Watcher : call[w] \in {"idle", "looking"} => found[w] = NoMatch
    /\ \A w \in Watcher : call[w] \in {"found", "watching", "leaving"} => found[w] # NoMatch
    /\ \A w \in Watcher : found[w] # NoMatch => stage[found[w]] # "new"
    /\ \A w \in closed : found[w] # NoMatch /\ call[w] \in {"watching", "leaving", "returned"}
    /\ \A k \in Key : activeByHandle[k] # NoMatch => stage[activeByHandle[k]] # "new"

HubInv ==
    /\ TypeOK /\ HubFollowsMatches /\ HubHoldsItsWatchers /\ ClosingOnce
    /\ OpenWhileRunning /\ FoundHaveBegun /\ OnlyStopPanics

----------------------------------------------------------------------------
(* The match's side.                                                        *)

LEMMA InitHub == Init => HubInv
<1> SUFFICES ASSUME Init PROVE HubInv
  OBVIOUS
<1>1. TypeOK
  <2>1. 0 \in 0..BufferSize
    BY SpectatorsConstants
  <2>2. canceled \in BOOLEAN /\ panicked \in BOOLEAN
    BY DEF Init
  <2>3. QED
    BY <2>1, <2>2 DEF Init, TypeOK
<1>2. HubFollowsMatches /\ HubHoldsItsWatchers /\ ClosingOnce /\ OpenWhileRunning
  BY DEF Init, HubFollowsMatches, HubHoldsItsWatchers, ClosingOnce, OpenWhileRunning
<1>3. FoundHaveBegun /\ OnlyStopPanics
  BY DEF Init, FoundHaveBegun, OnlyStopPanics
<1>4. QED
  BY <1>1, <1>2, <1>3 DEF HubInv

LEMMA MatchMoves ==
    ASSUME HubInv, NEW m \in Match,
           RegisterMatch(m) \/ Broadcast(m) \/ EndMatch(m) \/ Unindex(m)
               \/ UnregisterMatch(m) \/ MatchOver(m)
    PROVE  HubInv'
<1> USE DEF HubInv
<1>1. /\ stage \in [Match -> {"new", "running", "done", "unindexed", "closing", "over"}]
      /\ sending \in [Match -> SUBSET Watcher] /\ closing \in [Match -> SUBSET Watcher]
      /\ watchers \in [Match -> SUBSET Watcher] /\ found \in [Watcher -> Match \cup {NoMatch}]
      /\ activeByHandle \in [Key -> Match \cup {NoMatch}]
  BY DEF TypeOK
<1>2. UNCHANGED <<chanVars, callVars, canceled>> /\ ~panicked
  BY DEF RegisterMatch, Broadcast, EndMatch, Unindex, UnregisterMatch, MatchOver, MatchGoto, Alive
<1>3. TypeOK'
  BY <1>1, <1>2 DEF TypeOK, RegisterMatch, Broadcast, EndMatch, Unindex, UnregisterMatch, MatchOver,
     MatchGoto, hubVars, chanVars, callVars
<1>4. CASE RegisterMatch(m)
  <2>1. HubFollowsMatches'
    BY <1>1, <1>4 DEF HubFollowsMatches, RegisterMatch, MatchGoto
  <2>2. HubHoldsItsWatchers' /\ ClosingOnce'
    BY <1>1, <1>2, <1>4 DEF HubHoldsItsWatchers, ClosingOnce, RegisterMatch, chanVars, callVars
  <2>3. OpenWhileRunning'
    BY <1>1, <1>2, <1>4 DEF OpenWhileRunning, FoundHaveBegun, RegisterMatch, MatchGoto, chanVars, callVars, TypeOK
  <2>4. FoundHaveBegun'
    BY <1>1, <1>2, <1>4 DEF FoundHaveBegun, RegisterMatch, MatchGoto, chanVars, callVars, TypeOK
  <2>5. QED
    BY <1>2, <1>3, <2>1, <2>2, <2>3, <2>4 DEF OnlyStopPanics, chanVars
<1>5. CASE Broadcast(m)
  BY <1>1, <1>2, <1>3, <1>5 DEF HubFollowsMatches, HubHoldsItsWatchers, ClosingOnce, OpenWhileRunning,
     FoundHaveBegun, OnlyStopPanics, Broadcast, chanVars, callVars, hubVars
<1>6. CASE EndMatch(m) \/ Unindex(m) \/ MatchOver(m)
  <2>1. /\ UNCHANGED <<sending, closing, watchers, registered>>
        /\ stage[m] # "new" /\ stage'[m] \notin {"new", "running"}
        /\ stage' = [stage EXCEPT ![m] = stage'[m]]
        /\ \A k \in Key : activeByHandle'[k] \in {NoMatch, activeByHandle[k]}
        /\ stage[m] \in {"running", "done", "unindexed"} <=> stage'[m] \in {"running", "done", "unindexed"}
        /\ stage[m] = "closing" => closing[m] = {}
        /\ stage[m] = "running" => sending[m] = {}
    BY <1>1, <1>6 DEF EndMatch, Unindex, MatchOver, MatchGoto, hubVars
  <2>2. HubFollowsMatches'
    BY <1>1, <2>1 DEF HubFollowsMatches
  <2>3. HubHoldsItsWatchers' /\ ClosingOnce'
    BY <1>2, <2>1 DEF HubHoldsItsWatchers, ClosingOnce, chanVars, callVars
  <2>4. OpenWhileRunning'
    BY <1>1, <1>2, <2>1 DEF OpenWhileRunning, chanVars, callVars
  <2>5. FoundHaveBegun'
    BY <1>1, <1>2, <2>1 DEF FoundHaveBegun, chanVars, callVars, TypeOK
  <2>6. QED
    BY <1>2, <1>3, <2>2, <2>3, <2>4, <2>5 DEF OnlyStopPanics, chanVars
<1>7. CASE UnregisterMatch(m)
  <2>1. HubFollowsMatches' /\ HubHoldsItsWatchers' /\ ClosingOnce'
    BY <1>1, <1>2, <1>7 DEF HubFollowsMatches, HubHoldsItsWatchers, ClosingOnce, UnregisterMatch, MatchGoto,
       chanVars, callVars
  <2>2. OpenWhileRunning' /\ FoundHaveBegun'
    BY <1>1, <1>2, <1>7 DEF OpenWhileRunning, FoundHaveBegun, UnregisterMatch, MatchGoto, chanVars, callVars, TypeOK
  <2>3. QED
    BY <1>2, <1>3, <2>1, <2>2 DEF OnlyStopPanics, chanVars
<1>8. QED
  BY <1>4, <1>5, <1>6, <1>7

\* A send to a closed channel is possible only in a run that was cancelled.
LEMMA SendsAreSafe ==
    ASSUME HubInv, NEW m \in Match, NEW w \in Watcher, BroadcastTo(m, w)
    PROVE  HubInv'
<1> USE DEF HubInv
<1>1. /\ w \in sending[m] /\ sending' = [sending EXCEPT ![m] = sending[m] \ {w}]
      /\ panicked' = (w \in closed)
      /\ UNCHANGED <<stage, closing, activeByHandle, hubVars, closed, callVars, canceled>>
  BY DEF BroadcastTo, Alive, TypeOK
<1>2. w \in closed => canceled
  BY <1>1, SpectatorsConstants DEF OpenWhileRunning, HubFollowsMatches
<1>3. TypeOK'
  <2>1. buffered' \in [Watcher -> 0..BufferSize]
    BY SpectatorsConstants DEF BroadcastTo, TypeOK
  <2>2. QED
    BY <1>1, <2>1 DEF TypeOK, hubVars, callVars
<1>4. HubFollowsMatches' /\ HubHoldsItsWatchers' /\ ClosingOnce' /\ OpenWhileRunning'
  BY <1>1 DEF HubFollowsMatches, HubHoldsItsWatchers, ClosingOnce, OpenWhileRunning, TypeOK, hubVars, callVars
<1>5. FoundHaveBegun'
  BY <1>1 DEF FoundHaveBegun, callVars
<1>6. QED
  BY <1>1, <1>2, <1>3, <1>4, <1>5 DEF OnlyStopPanics

\* The end of a match closes each of its channels for the first time.
LEMMA ClosesAreFirst ==
    ASSUME HubInv, NEW m \in Match, NEW w \in Watcher, CloseChannel(m, w)
    PROVE  HubInv'
<1> USE DEF HubInv
<1>1. /\ w \in closing[m] /\ closing' = [closing EXCEPT ![m] = closing[m] \ {w}]
      /\ closed' = closed \cup {w} /\ ~panicked /\ panicked' = (panicked \/ w \in closed)
      /\ UNCHANGED <<stage, sending, activeByHandle, hubVars, callVars, canceled, buffered>>
  BY DEF CloseChannel, Close, Alive
<1>2. w \notin closed /\ found[w] = m /\ stage[m] = "closing"
  BY <1>1 DEF ClosingOnce, HubFollowsMatches
<1>3. ~panicked'
  BY <1>1, <1>2
<1>4. TypeOK'
  BY <1>1, <1>3 DEF TypeOK, hubVars, callVars
<1>5. watchers[m] = {}
  BY <1>2 DEF HubFollowsMatches
<1>6. HubFollowsMatches'
  BY <1>1 DEF HubFollowsMatches, TypeOK, hubVars
<1>7. HubHoldsItsWatchers' /\ ClosingOnce'
  BY <1>1, <1>2, <1>5 DEF HubHoldsItsWatchers, ClosingOnce, TypeOK, hubVars, callVars
<1>8. OpenWhileRunning' /\ FoundHaveBegun'
  BY <1>1, <1>2, SpectatorsConstants DEF OpenWhileRunning, FoundHaveBegun, ClosingOnce, callVars
<1>9. QED
  BY <1>3, <1>4, <1>6, <1>7, <1>8 DEF OnlyStopPanics

----------------------------------------------------------------------------
(* The watcher's side.                                                      *)

LEMMA WatchMoves ==
    ASSUME HubInv, NEW w \in Watcher,
           Watch(w) \/ Look(w) \/ GiveUp(w) \/ Attach(w) \/ EndWatch(w) \/ Receive(w)
    PROVE  HubInv'
<1> USE DEF HubInv
<1>1. /\ call \in [Watcher -> {"idle", "looking", "found", "watching", "leaving", "returned"}]
      /\ found \in [Watcher -> Match \cup {NoMatch}] /\ watchers \in [Match -> SUBSET Watcher]
      /\ target \in [Watcher -> Handle] /\ activeByHandle \in [Key -> Match \cup {NoMatch}]
      /\ buffered \in [Watcher -> 0..BufferSize]
  BY DEF TypeOK
<1>2. UNCHANGED <<target, matchVars, registered, closed, panicked, canceled>> /\ ~panicked
  BY DEF Watch, Look, GiveUp, Attach, EndWatch, Receive, CallGoto, Alive, chanVars, hubVars
<1>3. activeByHandle[Fold[target[w]]] \in Match \cup {NoMatch}
  BY <1>1 DEF Key
<1>4. call[w] = "found" => found[w] \in Match
  BY <1>1 DEF FoundHaveBegun
<1>5. TypeOK'
  <2>1. /\ call' \in [Watcher -> {"idle", "looking", "found", "watching", "leaving", "returned"}]
        /\ found' \in [Watcher -> Match \cup {NoMatch}]
    BY <1>1, <1>3 DEF Watch, Look, GiveUp, Attach, EndWatch, Receive, CallGoto
  <2>2. watchers' \in [Match -> SUBSET Watcher]
    BY <1>1, <1>4 DEF Watch, Look, GiveUp, Attach, EndWatch, Receive, CallGoto, hubVars
  <2>3. buffered' \in [Watcher -> 0..BufferSize]
    <3>1. CASE UNCHANGED buffered
      BY <1>1, <3>1
    <3>2. CASE Receive(w)
      BY <1>1, <3>2, SpectatorsConstants DEF Receive
    <3>3. QED
      BY <3>1, <3>2 DEF Watch, Look, GiveUp, Attach, EndWatch, chanVars
  <2>4. QED
    BY <1>2, <2>1, <2>2, <2>3 DEF TypeOK, matchVars
<1>6. CASE Watch(w) \/ GiveUp(w)
  <2>1. /\ call[w] \in {"idle", "looking"} /\ call'[w] \in {"looking", "returned"}
        /\ UNCHANGED <<found, watchers>>
        /\ \A v \in Watcher \ {w} : call'[v] = call[v]
    BY <1>1, <1>6 DEF Watch, GiveUp, CallGoto, hubVars
  <2>2. found[w] = NoMatch /\ w \notin closed /\ \A m \in Match : w \notin closing[m] /\ w \notin watchers[m]
    BY <2>1 DEF FoundHaveBegun, ClosingOnce, HubHoldsItsWatchers
  <2>3. HubFollowsMatches' /\ HubHoldsItsWatchers' /\ ClosingOnce'
    BY <1>2, <2>1, <2>2 DEF HubFollowsMatches, HubHoldsItsWatchers, ClosingOnce, matchVars, TypeOK
  <2>4. OpenWhileRunning' /\ FoundHaveBegun'
    BY <1>2, <2>1, <2>2 DEF OpenWhileRunning, FoundHaveBegun, matchVars, TypeOK
  <2>5. QED
    BY <1>2, <1>5, <2>3, <2>4 DEF OnlyStopPanics
<1>7. CASE Look(w)
  <2>1. /\ found[w] = NoMatch /\ w \notin closed /\ call'[w] = "found" /\ found'[w] \in Match
        /\ stage[found'[w]] # "new"
        /\ \A v \in Watcher \ {w} : found'[v] = found[v] /\ call'[v] = call[v]
        /\ watchers' = watchers
    BY <1>1, <1>3, <1>7, SpectatorsConstants DEF Look, CallGoto, FoundHaveBegun, hubVars, Key
  <2>2. HubFollowsMatches'
    BY <1>2, <2>1 DEF HubFollowsMatches, matchVars
  <2>3. HubHoldsItsWatchers' /\ ClosingOnce'
    BY <1>1, <1>2, <2>1, SpectatorsConstants DEF HubHoldsItsWatchers, ClosingOnce, matchVars, TypeOK
  <2>4. OpenWhileRunning' /\ FoundHaveBegun'
    BY <1>1, <1>2, <2>1, SpectatorsConstants DEF OpenWhileRunning, FoundHaveBegun, matchVars, TypeOK
  <2>5. QED
    BY <1>2, <1>5, <2>2, <2>3, <2>4 DEF OnlyStopPanics
<1>8. CASE Attach(w)
  <2>1. /\ call[w] = "found" /\ found[w] \in Match /\ UNCHANGED found
        /\ \A v \in Watcher \ {w} : call'[v] = call[v]
        /\ w \notin closed /\ \A m \in Match : w \notin closing[m] /\ w \notin watchers[m]
    BY <1>1, <1>4, <1>8 DEF Attach, CallGoto, FoundHaveBegun, ClosingOnce, HubHoldsItsWatchers
  <2>2. \/ /\ call'[w] = "watching" /\ found[w] \in registered
           /\ watchers' = [watchers EXCEPT ![found[w]] = watchers[found[w]] \cup {w}]
        \/ call'[w] = "returned" /\ UNCHANGED watchers
    BY <1>1, <1>8 DEF Attach, CallGoto
  <2>3. HubFollowsMatches'
    BY <1>1, <1>2, <2>1, <2>2 DEF HubFollowsMatches, matchVars
  <2>4. HubHoldsItsWatchers' /\ ClosingOnce'
    BY <1>1, <1>2, <2>1, <2>2 DEF HubHoldsItsWatchers, ClosingOnce, matchVars, TypeOK
  <2>5. OpenWhileRunning' /\ FoundHaveBegun'
    BY <1>1, <1>2, <2>1, <2>2, SpectatorsConstants DEF OpenWhileRunning, FoundHaveBegun, matchVars, TypeOK
  <2>6. QED
    BY <1>2, <1>5, <2>3, <2>4, <2>5 DEF OnlyStopPanics
<1>9. CASE EndWatch(w)
  <2>1. /\ call[w] = "watching" /\ call'[w] = "leaving" /\ UNCHANGED <<found, watchers>>
        /\ \A v \in Watcher \ {w} : call'[v] = call[v]
        /\ canceled \/ MatchDone(w) \/ w \in closed
    BY <1>1, <1>9 DEF EndWatch, CallGoto, StreamClosed, hubVars
  <2>2. HubFollowsMatches' /\ HubHoldsItsWatchers' /\ ClosingOnce'
    BY <1>1, <1>2, <2>1 DEF HubFollowsMatches, HubHoldsItsWatchers, ClosingOnce, matchVars, TypeOK
  <2>3. OpenWhileRunning' /\ FoundHaveBegun'
    BY <1>1, <1>2, <2>1 DEF OpenWhileRunning, FoundHaveBegun, MatchDone, matchVars, TypeOK
  <2>4. QED
    BY <1>2, <1>5, <2>2, <2>3 DEF OnlyStopPanics
<1>10. CASE Receive(w)
  BY <1>2, <1>5, <1>10 DEF HubFollowsMatches, HubHoldsItsWatchers, ClosingOnce, OpenWhileRunning,
     FoundHaveBegun, OnlyStopPanics, Receive, matchVars, hubVars
<1>11. QED
  BY <1>6, <1>7, <1>8, <1>9, <1>10

\* The deferred call closes the channel only if the hub still has it.
LEMMA RemovesAreFirst ==
    ASSUME HubInv, NEW w \in Watcher, RemoveWatcher(w)
    PROVE  HubInv'
<1> USE DEF HubInv
<1>1. /\ call \in [Watcher -> {"idle", "looking", "found", "watching", "leaving", "returned"}]
      /\ found \in [Watcher -> Match \cup {NoMatch}] /\ watchers \in [Match -> SUBSET Watcher]
  BY DEF TypeOK
<1>2. /\ call[w] = "leaving" /\ call' = [call EXCEPT ![w] = "returned"] /\ ~panicked
      /\ watchers' = [watchers EXCEPT ![found[w]] = watchers[found[w]] \ {w}]
      /\ UNCHANGED <<target, found, matchVars, registered, canceled, buffered>>
      /\ found[w] \in Match
  BY <1>1 DEF RemoveWatcher, CallGoto, Alive, Close, chanVars, FoundHaveBegun
<1>3. \/ w \in watchers[found[w]] /\ w \notin closed /\ closed' = closed \cup {w}
      \/ w \notin watchers[found[w]] /\ closed' = closed
  BY <1>2 DEF RemoveWatcher, Close, chanVars, HubHoldsItsWatchers
<1>4. panicked' = FALSE
  <2>1. panicked \in BOOLEAN
    BY DEF TypeOK
  <2>2. CASE w \in watchers[found[w]]
    BY <1>2, <1>3, <2>2 DEF RemoveWatcher, Close
  <2>3. CASE w \notin watchers[found[w]]
    BY <1>2, <2>1, <2>3 DEF RemoveWatcher, chanVars
  <2>4. QED
    BY <2>2, <2>3
<1>5. TypeOK'
  <2>1. /\ call' \in [Watcher -> {"idle", "looking", "found", "watching", "leaving", "returned"}]
        /\ watchers' \in [Match -> SUBSET Watcher] /\ closed' \subseteq Watcher
    BY <1>1, <1>2, <1>3 DEF TypeOK
  <2>2. panicked' \in BOOLEAN
    BY <1>4
  <2>3. QED
    BY <1>2, <2>1, <2>2 DEF TypeOK, matchVars
<1>6. HubFollowsMatches'
  BY <1>1, <1>2 DEF HubFollowsMatches, matchVars
<1>7. HubHoldsItsWatchers'
  BY <1>1, <1>2, <1>3 DEF HubHoldsItsWatchers
<1>8. ClosingOnce'
  <2>1. w \in watchers[found[w]] => \A m \in Match : w \notin closing[m]
    BY <1>2 DEF HubFollowsMatches, ClosingOnce
  <2>2. QED
    BY <1>1, <1>2, <1>3, <2>1 DEF ClosingOnce, matchVars, TypeOK
<1>9. OpenWhileRunning'
  BY <1>1, <1>2, <1>3 DEF OpenWhileRunning, matchVars, TypeOK
<1>10. FoundHaveBegun'
  BY <1>1, <1>2, <1>3, SpectatorsConstants DEF FoundHaveBegun, matchVars
<1>11. QED
  BY <1>4, <1>5, <1>6, <1>7, <1>8, <1>9, <1>10 DEF OnlyStopPanics

LEMMA StepKeepsHub == HubInv /\ [Next]_vars => HubInv'
<1> SUFFICES ASSUME HubInv, [Next]_vars PROVE HubInv'
  OBVIOUS
<1>1. ASSUME NEW m \in Match,
             RegisterMatch(m) \/ Broadcast(m) \/ EndMatch(m) \/ Unindex(m)
                 \/ UnregisterMatch(m) \/ MatchOver(m)
      PROVE  HubInv'
  BY <1>1, MatchMoves
<1>2. ASSUME NEW m \in Match, NEW w \in Watcher, BroadcastTo(m, w) \/ CloseChannel(m, w)
      PROVE  HubInv'
  BY <1>2, SendsAreSafe, ClosesAreFirst
<1>3. ASSUME NEW w \in Watcher, Watch(w) \/ Look(w) \/ Receive(w) \/ WatchStep(w)
      PROVE  HubInv'
  BY <1>3, WatchMoves, RemovesAreFirst DEF WatchStep
<1>4. CASE Cancel
  BY <1>4 DEF HubInv, TypeOK, HubFollowsMatches, HubHoldsItsWatchers, ClosingOnce, OpenWhileRunning,
     FoundHaveBegun, OnlyStopPanics, Cancel, matchVars, hubVars, chanVars, callVars
<1>5. CASE UNCHANGED vars
  BY <1>5 DEF HubInv, TypeOK, HubFollowsMatches, HubHoldsItsWatchers, ClosingOnce, OpenWhileRunning,
     FoundHaveBegun, OnlyStopPanics, vars, matchVars, hubVars, chanVars, callVars
<1>6. QED
  BY <1>1, <1>2, <1>3, <1>4, <1>5 DEF Next, MatchStep

\* The invariant of the hub holds in every state.
LEMMA HubKept == Spec => []HubInv
BY InitHub, StepKeepsHub, PTL DEF Spec

\* Every variable of the hub, the index, the matches and the watch commands keeps
\* its type; in particular no channel holds more frames than it has room for (Broadcast).
THEOREM SpectatorsTyped == Spec => []TypeOK
<1>1. HubInv => TypeOK
  BY DEF HubInv
<1>2. QED
  BY <1>1, HubKept, PTL

\* Until the server is being stopped no channel is closed twice and nothing is sent
\* to a closed one, however matches and watchers end (UnregisterMatch, RemoveWatcher,
\* Broadcast).
THEOREM PanicsOnlyWhenStopped == Spec => []OnlyStopPanics
<1>1. HubInv => OnlyStopPanics
  BY DEF HubInv
<1>2. QED
  BY <1>1, HubKept, PTL

----------------------------------------------------------------------------
(* The cap.                                                                 *)

CapInv == \A m \in Match : IsFiniteSet(watchers[m]) /\ Cardinality(watchers[m]) <= Capacity

LEMMA StepKeepsCap == HubInv /\ CapInv /\ [Next]_vars => CapInv'
<1> SUFFICES ASSUME HubInv, CapInv, [Next]_vars PROVE CapInv'
  OBVIOUS
<1>1. watchers \in [Match -> SUBSET Watcher] /\ found \in [Watcher -> Match \cup {NoMatch}]
  BY DEF HubInv, TypeOK
<1>2. IsFiniteSet({}) /\ Cardinality({}) = 0 /\ Capacity \in Nat
  BY FS_EmptySet, SpectatorsConstants
<1>3. CASE UNCHANGED watchers
  BY <1>3 DEF CapInv
<1>4. ASSUME NEW m \in Match, UnregisterMatch(m)
      PROVE  CapInv'
  BY <1>1, <1>2, <1>4 DEF CapInv, UnregisterMatch
<1>5. ASSUME NEW w \in Watcher, Attach(w)
      PROVE  CapInv'
  <2>1. CASE UNCHANGED watchers
    BY <1>3, <2>1
  <2>2. CASE /\ found[w] \in registered /\ Cardinality(watchers[found[w]]) < Capacity
             /\ watchers' = [watchers EXCEPT ![found[w]] = watchers[found[w]] \cup {w}]
    <3> DEFINE W == watchers[found[w]]
    <3>1. found[w] \in Match
      BY <2>2 DEF HubInv, TypeOK
    <3>2. IsFiniteSet(W) /\ Cardinality(W) < Capacity
      BY <2>2, <3>1 DEF CapInv
    <3>3. /\ IsFiniteSet(W \cup {w}) /\ Cardinality(W) \in Nat
          /\ Cardinality(W \cup {w}) = IF w \in W THEN Cardinality(W) ELSE Cardinality(W) + 1
      BY <3>2, FS_AddElement, FS_CardinalityType
    <3>4. Cardinality(W \cup {w}) <= Capacity
      BY <1>2, <3>2, <3>3
    <3>5. QED
      BY <1>1, <2>2, <3>1, <3>3, <3>4 DEF CapInv
  <2>3. QED
    BY <1>5, <2>1, <2>2 DEF Attach
<1>6. ASSUME NEW w \in Watcher, RemoveWatcher(w)
      PROVE  CapInv'
  <2>1. found[w] \in Match
    BY <1>1, <1>6 DEF HubInv, FoundHaveBegun, RemoveWatcher, CallGoto
  <2>2. /\ IsFiniteSet(watchers[found[w]] \ {w})
        /\ Cardinality(watchers[found[w]] \ {w}) <= Cardinality(watchers[found[w]])
        /\ Cardinality(watchers[found[w]] \ {w}) \in Nat /\ Cardinality(watchers[found[w]]) \in Nat
    BY <2>1, FS_Subset, FS_CardinalityType DEF CapInv
  <2>3. QED
    BY <1>1, <1>2, <1>6, <2>1, <2>2 DEF CapInv, RemoveWatcher
<1>7. CASE UNCHANGED vars \/ Cancel
  BY <1>3, <1>7 DEF vars, hubVars, Cancel
<1>8. ASSUME NEW m \in Match, RegisterMatch(m) \/ Broadcast(m) \/ EndMatch(m) \/ Unindex(m) \/ MatchOver(m)
      PROVE  CapInv'
  BY <1>3, <1>8 DEF RegisterMatch, Broadcast, EndMatch, Unindex, MatchOver, hubVars
<1>9. ASSUME NEW m \in Match, NEW w \in Watcher, BroadcastTo(m, w) \/ CloseChannel(m, w)
      PROVE  CapInv'
  BY <1>3, <1>9 DEF BroadcastTo, CloseChannel, hubVars
<1>10. ASSUME NEW w \in Watcher, Watch(w) \/ Look(w) \/ Receive(w) \/ GiveUp(w) \/ EndWatch(w)
       PROVE  CapInv'
  BY <1>3, <1>10 DEF Watch, Look, Receive, GiveUp, EndWatch, hubVars
<1>11. QED
  BY <1>4, <1>5, <1>6, <1>7, <1>8, <1>9, <1>10 DEF Next, MatchStep, WatchStep

\* No match has more watchers than the cap, and a match that has left the hub has
\* none (AddWatcher, RemoveWatcher, UnregisterMatch), however many attach at once.
THEOREM CapHolds == Spec => []CapacityKept
<1>1. Init => CapInv
  <2>1. IsFiniteSet({}) /\ Cardinality({}) = 0
    BY FS_EmptySet
  <2>2. QED
    BY <2>1, SpectatorsConstants DEF Init, CapInv
<1>2. HubInv /\ CapInv => CapacityKept
  BY DEF HubInv, HubFollowsMatches, CapInv, CapacityKept
<1>3. QED
  BY <1>1, <1>2, HubKept, StepKeepsCap, PTL DEF Spec

----------------------------------------------------------------------------
(* Who closes a channel.                                                    *)

\* An open channel of a watch is in the hands of the hub or of the end of its match.
InOneHand ==
    \A w \in Watcher :
        call[w] \in {"watching", "leaving"} /\ w \notin closed
            => w \in watchers[found[w]] \cup closing[found[w]]

\* With the invariant of the hub no channel is in two hands.
LEMMA Hands == HubInv /\ InOneHand => OneCloser
<1> SUFFICES ASSUME HubInv, InOneHand, NEW w \in Watcher, NEW m \in Match,
                    w \in watchers[m] \cup closing[m]
             PROVE  /\ w \notin closed
                    /\ w \notin watchers[m] \cap closing[m]
                    /\ \A n \in Match \ {m} : w \notin watchers[n] \cup closing[n]
  BY DEF OneCloser, InOneHand
<1>1. \A n \in Match : w \in watchers[n] \cup closing[n] => w \notin closed /\ found[w] = n
  BY DEF HubInv, HubHoldsItsWatchers, ClosingOnce
<1>2. w \notin watchers[m] \cap closing[m]
  BY DEF HubInv, HubFollowsMatches
<1>3. QED
  BY <1>1, <1>2

LEMMA StepKeepsHands == HubInv /\ InOneHand /\ [Next]_vars => InOneHand'
<1> SUFFICES ASSUME HubInv, InOneHand, [Next]_vars PROVE InOneHand'
  OBVIOUS
<1>1. /\ watchers \in [Match -> SUBSET Watcher] /\ closing \in [Match -> SUBSET Watcher]
      /\ found \in [Watcher -> Match \cup {NoMatch}]
      /\ call \in [Watcher -> {"idle", "looking", "found", "watching", "leaving", "returned"}]
      /\ \A w \in Watcher : call[w] \in {"found", "watching", "leaving"} => found[w] \in Match
  BY DEF HubInv, TypeOK, FoundHaveBegun
<1>2. CASE UNCHANGED <<watchers, closing, call, found, closed>>
  BY <1>2 DEF InOneHand
<1>3. ASSUME NEW m \in Match,
             \/ RegisterMatch(m) \/ Broadcast(m) \/ EndMatch(m) \/ Unindex(m) \/ MatchOver(m)
             \/ \E w \in Watcher : BroadcastTo(m, w)
      PROVE  InOneHand'
  BY <1>2, <1>3 DEF RegisterMatch, Broadcast, EndMatch, Unindex, MatchOver, BroadcastTo,
                    hubVars, chanVars, callVars
<1>4. ASSUME NEW m \in Match, UnregisterMatch(m)
      PROVE  InOneHand'
  <2>1. /\ watchers' = [watchers EXCEPT ![m] = {}] /\ closing' = [closing EXCEPT ![m] = watchers[m]]
        /\ UNCHANGED <<call, found, closed>> /\ stage[m] = "unindexed"
    BY <1>4 DEF UnregisterMatch, MatchGoto, chanVars, callVars
  <2>2. closing[m] = {}
    BY <2>1 DEF HubInv, HubFollowsMatches
  <2>3. QED
    BY <1>1, <2>1, <2>2 DEF InOneHand
<1>5. ASSUME NEW m \in Match, NEW w \in Watcher, CloseChannel(m, w)
      PROVE  InOneHand'
  BY <1>1, <1>5 DEF InOneHand, CloseChannel, Close, hubVars, callVars
<1>6. ASSUME NEW w \in Watcher, Watch(w) \/ Look(w) \/ Receive(w) \/ GiveUp(w) \/ EndWatch(w)
      PROVE  InOneHand'
  <2>1. /\ UNCHANGED <<watchers, closing, closed>>
        /\ call' = [call EXCEPT ![w] = call'[w]] /\ found' = [found EXCEPT ![w] = found'[w]]
    BY <1>1, <1>6 DEF Watch, Look, Receive, GiveUp, EndWatch, CallGoto, matchVars, hubVars, chanVars
  <2>2. call'[w] \in {"watching", "leaving"} =>
            call[w] \in {"watching", "leaving"} /\ found'[w] = found[w]
    BY <1>1, <1>6 DEF Watch, Look, Receive, GiveUp, EndWatch, CallGoto
  <2>3. QED
    BY <1>1, <2>1, <2>2 DEF InOneHand
<1>7. ASSUME NEW w \in Watcher, Attach(w)
      PROVE  InOneHand'
  <2>1. /\ call[w] = "found" /\ found[w] \in Match /\ UNCHANGED <<found, closing, closed>>
        /\ \A v \in Watcher \ {w} : call'[v] = call[v]
    BY <1>1, <1>7 DEF Attach, CallGoto, matchVars, chanVars
  <2>2. \/ watchers' = [watchers EXCEPT ![found[w]] = @ \cup {w}]
        \/ call'[w] = "returned" /\ UNCHANGED watchers
    BY <1>1, <1>7 DEF Attach, CallGoto
  <2>3. QED
    BY <1>1, <2>1, <2>2 DEF InOneHand
<1>8. ASSUME NEW w \in Watcher, RemoveWatcher(w)
      PROVE  InOneHand'
  <2>1. /\ call' = [call EXCEPT ![w] = "returned"] /\ UNCHANGED <<found, closing>>
        /\ watchers' = [watchers EXCEPT ![found[w]] = @ \ {w}] /\ closed \subseteq closed'
    BY <1>8 DEF RemoveWatcher, CallGoto, Close, matchVars, chanVars
  <2>2. QED
    BY <1>1, <2>1 DEF InOneHand
<1>9. CASE Cancel \/ UNCHANGED vars
  BY <1>2, <1>9 DEF Cancel, vars, matchVars, hubVars, chanVars, callVars
<1>10. QED
  BY <1>3, <1>4, <1>5, <1>6, <1>7, <1>8, <1>9 DEF Next, MatchStep, WatchStep

\* The channel of a watch is always somebody's to close, and never two's: however many
\* matches and watches end at the same time, and also when the server is being stopped
\* (AddWatcher, RemoveWatcher, UnregisterMatch).
THEOREM ChannelsHaveOneCloser == Spec => []OneCloser
<1>1. Init => InOneHand
  BY DEF Init, InOneHand
<1>2. QED
  BY <1>1, HubKept, StepKeepsHands, Hands, PTL DEF Spec

----------------------------------------------------------------------------
(* The index.                                                               *)

\* The matches that run at a time have no handle in common.
HandlesApart ==
    \A m, n \in Match :
        (m # n /\ stage[m] \notin {"new", "over"} /\ stage[n] \notin {"new", "over"})
            => HandlesOf[m] \cap HandlesOf[n] = {}

\* An entry is one of the match's own keys.
EntriesAreOwn ==
    \A k \in Key : activeByHandle[k] # NoMatch => k \in Keys(activeByHandle[k])

IndexInv == HandlesApart /\ EntriesAreOwn /\ IndexFollowsMatches

LEMMA KeysApart ==
    ASSUME FoldTellsApart, NEW m \in Match, NEW n \in Match, HandlesOf[m] \cap HandlesOf[n] = {}
    PROVE  Keys(m) \cap Keys(n) = {}
<1>1. HandlesOf[m] \subseteq Handle /\ HandlesOf[n] \subseteq Handle
  BY DEF Handle
<1>2. QED
  BY <1>1 DEF FoldTellsApart, Keys

LEMMA StepKeepsIndex ==
    ASSUME FoldTellsApart
    PROVE  TypeOK /\ IndexInv /\ [Next]_vars => IndexInv'
<1> SUFFICES ASSUME TypeOK, IndexInv, [Next]_vars PROVE IndexInv'
  OBVIOUS
<1>1. /\ stage \in [Match -> {"new", "running", "done", "unindexed", "closing", "over"}]
      /\ activeByHandle \in [Key -> Match \cup {NoMatch}]
      /\ \A m \in Match : Keys(m) \subseteq Key
  BY DEF TypeOK, Keys, Key, Handle
<1>2. CASE UNCHANGED <<stage, activeByHandle>>
  BY <1>2 DEF IndexInv, HandlesApart, EntriesAreOwn, IndexFollowsMatches, Active
<1>3. ASSUME NEW m \in Match, RegisterMatch(m)
      PROVE  IndexInv'
  <2>1. /\ stage[m] = "new" /\ stage' = [stage EXCEPT ![m] = "running"]
        /\ \A n \in Match : stage[n] \notin {"new", "over"} => HandlesOf[n] \cap HandlesOf[m] = {}
        /\ activeByHandle' = [k \in Key |-> IF k \in Keys(m) THEN m ELSE activeByHandle[k]]
    BY <1>3 DEF RegisterMatch, MatchGoto
  <2>2. HandlesApart'
    BY <1>1, <2>1 DEF IndexInv, HandlesApart
  <2>3. \A n \in Match : n # m /\ Active(n) => Keys(n) \cap Keys(m) = {}
    BY <1>1, <2>1, KeysApart DEF Active
  <2>4. \A n \in Match : Active(n)' <=> (n = m \/ Active(n))
    BY <1>1, <2>1 DEF Active
  <2>5. EntriesAreOwn'
    BY <1>1, <2>1 DEF IndexInv, EntriesAreOwn, Keys
  <2>6. IndexFollowsMatches'
    BY <1>1, <2>1, <2>3, <2>4, SpectatorsConstants DEF IndexInv, IndexFollowsMatches, Keys
  <2>7. QED
    BY <2>2, <2>5, <2>6 DEF IndexInv
<1>4. ASSUME NEW m \in Match, Unindex(m)
      PROVE  IndexInv'
  <2>1. /\ stage[m] = "done" /\ stage' = [stage EXCEPT ![m] = "unindexed"]
        /\ activeByHandle' = [k \in Key |-> IF k \in Keys(m) THEN NoMatch ELSE activeByHandle[k]]
    BY <1>4 DEF Unindex, MatchGoto
  <2>2. HandlesApart'
    BY <1>1, <2>1 DEF IndexInv, HandlesApart
  <2>3. \A n \in Match : n # m /\ Active(n) => Keys(n) \cap Keys(m) = {}
    BY <1>1, <2>1, KeysApart DEF IndexInv, HandlesApart, Active
  <2>4. \A n \in Match : Active(n)' <=> (n # m /\ Active(n))
    BY <1>1, <2>1 DEF Active
  <2>5. EntriesAreOwn'
    BY <1>1, <2>1 DEF IndexInv, EntriesAreOwn, Keys
  <2>6. IndexFollowsMatches'
    <3>1. \A n \in Match : Active(n)' => \A k \in Keys(n) : activeByHandle'[k] = n
      BY <1>1, <2>1, <2>3, <2>4 DEF IndexInv, IndexFollowsMatches
    <3>2. ASSUME NEW k \in Key, activeByHandle'[k] # NoMatch
          PROVE  Active(activeByHandle[k])' /\ activeByHandle'[k] = activeByHandle[k]
      <4>1. k \notin Keys(m) /\ activeByHandle'[k] = activeByHandle[k]
        BY <2>1, <3>2
      <4>2. activeByHandle[k] # m /\ activeByHandle[k] \in Match
        BY <1>1, <3>2, <4>1 DEF IndexInv, EntriesAreOwn
      <4>3. Active(activeByHandle[k])
        BY <3>2, <4>1 DEF IndexInv, IndexFollowsMatches
      <4>4. stage'[activeByHandle[k]] = stage[activeByHandle[k]]
        BY <1>1, <2>1, <4>2
      <4>5. QED
        BY <4>1, <4>3, <4>4 DEF Active
    <3>3. QED
      BY <3>1, <3>2 DEF IndexFollowsMatches, Active, Keys
  <2>7. QED
    BY <2>2, <2>5, <2>6 DEF IndexInv
<1>5. ASSUME NEW m \in Match, EndMatch(m) \/ UnregisterMatch(m) \/ MatchOver(m)
      PROVE  IndexInv'
  <2>1. /\ UNCHANGED activeByHandle
        /\ stage' = [stage EXCEPT ![m] = stage'[m]]
        /\ stage[m] # "new" /\ stage[m] # "over" /\ Active(m)' = Active(m)
    BY <1>1, <1>5 DEF EndMatch, UnregisterMatch, MatchOver, MatchGoto, Active
  <2>2. HandlesApart'
    BY <1>1, <2>1 DEF IndexInv, HandlesApart
  <2>3. \A n \in Match : Active(n)' <=> Active(n)
    BY <1>1, <2>1 DEF Active
  <2>4. QED
    BY <1>1, <2>1, <2>2, <2>3 DEF IndexInv, EntriesAreOwn, IndexFollowsMatches, Active, Keys
<1>6. ASSUME NEW m \in Match, Broadcast(m) \/ \E w \in Watcher : BroadcastTo(m, w) \/ CloseChannel(m, w)
      PROVE  IndexInv'
  BY <1>2, <1>6 DEF Broadcast, BroadcastTo, CloseChannel
<1>7. ASSUME NEW w \in Watcher, Watch(w) \/ Look(w) \/ Receive(w) \/ WatchStep(w)
      PROVE  IndexInv'
  BY <1>2, <1>7 DEF Watch, Look, Receive, WatchStep, GiveUp, Attach, EndWatch, RemoveWatcher, matchVars
<1>8. CASE Cancel \/ UNCHANGED vars
  BY <1>2, <1>8 DEF Cancel, vars, matchVars
<1>9. QED
  BY <1>3, <1>4, <1>5, <1>6, <1>7, <1>8 DEF Next, MatchStep

\* If no two handles differ in case only, the index leads from the handles of every
\* running match to it, and to nothing else, however matches of the same players
\* follow each other (registerActiveMatch, unregisterActiveMatch).
THEOREM IndexIsRight ==
    ASSUME FoldTellsApart
    PROVE  Spec => []IndexFollowsMatches
<1>1. Init => IndexInv
  BY DEF Init, IndexInv, HandlesApart, EntriesAreOwn, IndexFollowsMatches, Active
<1>2. IndexInv => IndexFollowsMatches
  BY DEF IndexInv
<1>3. QED
  BY <1>1, <1>2, SpectatorsTyped, StepKeepsIndex, PTL DEF Spec
============================================================================
