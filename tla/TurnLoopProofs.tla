---------------------------- MODULE TurnLoopProofs ----------------------------
(***************************************************************************)
(* What holds of a match for any number of turns, any size of the Input    *)
(* channels, any players and any order of the answers.                     *)
(***************************************************************************)
EXTENDS TurnLoop, FiniteSetTheorems, TLAPS

Commands == {"action", "quit"}
Ans      == [slot : Slot, status : Statuses]
Who      == {"player", "none", "npc"}

----------------------------------------------------------------------------
(* The answers of a turn.                                                   *)

\* An answer says "npc" exactly for the slots the NPC plays, which have no reader.
AnswersKnowControl ==
    IF phase = "collect"
    THEN /\ reader \cap npcControlled = {}
         /\ \A k \in 1..Len(results) :
                results[k].status = "npc" <=> results[k].slot \in npcControlled
    ELSE results = <<>>

\* Nobody is taken for gone who has not left.
GoneHaveLeft ==
    /\ \A i \in Slot : \A k \in 1..Len(input[i]) : input[i][k] = "quit" => shell[i] \in {"leaving", "closed"}
    /\ \A k \in 1..Len(results) :
           results[k].status = "disconnect" => shell[results[k].slot] \in {"leaving", "closed"}

AnswerInv == TypeOK /\ OneAnswerPerSlot /\ AnswersKnowControl /\ GoneHaveLeft

\* With two answers each slot has exactly one.
LEMMA BothAnswered ==
    ASSUME AnswerInv, phase = "collect", Len(results) = 2
    PROVE  /\ reader = {}
           /\ \A i \in Slot : \E k \in 1..2 : results[k].slot = i /\ StatusOf(i) = results[k].status
<1>1. results \in Seq(Ans) /\ reader \subseteq Slot
  BY DEF AnswerInv, TypeOK, Ans, Human, Slot
<1>2. /\ results[1] \in Ans /\ results[2] \in Ans
      /\ \A j, k \in 1..2 : results[j].slot = results[k].slot => j = k
      /\ {results[k].slot : k \in 1..2} = Slot \ reader
  BY <1>1 DEF AnswerInv, OneAnswerPerSlot
<1>3. results[1].slot # results[2].slot /\ results[1].slot \in Slot /\ results[2].slot \in Slot
  BY <1>2 DEF Ans
<1>4. reader = {}
  BY <1>1, <1>2, <1>3 DEF Slot
<1>5. ASSUME NEW i \in Slot
      PROVE  \E k \in 1..2 : results[k].slot = i /\ StatusOf(i) = results[k].status
  <2>1. PICK k \in 1..2 : results[k].slot = i
    BY <1>3 DEF Slot
  <2>2. \A r \in {results[j] : j \in 1..2} : r.slot = i => r = results[k]
    BY <1>2, <2>1
  <2>3. (CHOOSE r \in {results[j] : j \in 1..2} : r.slot = i) = results[k]
    BY <2>1, <2>2
  <2>4. QED
    BY <2>1, <2>3 DEF StatusOf
<1>6. QED
  BY <1>4, <1>5

\* What the slots of the NPC answer at the start of a turn.
LEMMA NPCAnswersProperties ==
    ASSUME npcControlled \subseteq Slot
    PROVE  /\ NPCAnswers \in Seq(Ans)
           /\ \A k \in 1..Len(NPCAnswers) : NPCAnswers[k].status = "npc"
           /\ \A j, k \in 1..Len(NPCAnswers) : NPCAnswers[j].slot = NPCAnswers[k].slot => j = k
           /\ {NPCAnswers[k].slot : k \in 1..Len(NPCAnswers)} = npcControlled
<1> DEFINE a == [slot |-> 1, status |-> "npc"]
           b == [slot |-> 2, status |-> "npc"]
<1>1. /\ a \in Ans /\ a.slot = 1 /\ a.status = "npc"
      /\ b \in Ans /\ b.slot = 2 /\ b.status = "npc"
  BY DEF Ans, Slot, Statuses
<1>2. NPCAnswers = (IF 1 \in npcControlled THEN <<a>> ELSE <<>>)
                     \o (IF 2 \in npcControlled THEN <<b>> ELSE <<>>)
  BY DEF NPCAnswers
<1>3. npcControlled \in {{}, {1}, {2}, {1, 2}}
  BY DEF Slot
<1> HIDE DEF a, b
<1>4. CASE npcControlled = {}
  <2>1. NPCAnswers = <<>>
    BY <1>2, <1>4
  <2>2. QED
    BY <1>4, <2>1
<1>5. CASE npcControlled = {1}
  <2>1. NPCAnswers = <<a>>
    BY <1>1, <1>2, <1>5
  <2>2. QED
    BY <1>1, <1>5, <2>1
<1>6. CASE npcControlled = {2}
  <2>1. NPCAnswers = <<b>>
    BY <1>1, <1>2, <1>6
  <2>2. QED
    BY <1>1, <1>6, <2>1
<1>7. CASE npcControlled = {1, 2}
  <2>1. NPCAnswers = <<a>> \o <<b>>
    BY <1>2, <1>7
  <2>2. <<a>> \in Seq(Ans) /\ <<b>> \in Seq(Ans) /\ Len(<<a>>) = 1 /\ Len(<<b>>) = 1
    BY <1>1
  <2>3. Len(NPCAnswers) = 2 /\ NPCAnswers[1] = a /\ NPCAnswers[2] = b
    BY <2>1, <2>2
  <2>4. NPCAnswers \in Seq(Ans)
    BY <2>1, <2>2
  <2>5. QED
    BY <1>1, <1>7, <2>3, <2>4
<1>8. QED
  BY <1>3, <1>4, <1>5, <1>6, <1>7

----------------------------------------------------------------------------
(* The shells and the readers.                                              *)

LEMMA Unfolded ==
    TypeOK <=> /\ practice \in BOOLEAN
               /\ shell \in [Slot -> {"open", "acting", "leaving", "closed"}]
               /\ input \in [Slot -> Seq(Commands)] /\ \A i \in Slot : Len(input[i]) <= BufferSize
               /\ canceled \in BOOLEAN /\ phase \in Phases /\ finished \in BOOLEAN
               /\ npcControlled \subseteq Slot /\ timeoutStreak \in [Slot -> 0..1]
               /\ reader \subseteq Human /\ results \in Seq(Ans)
               /\ replay \in Seq([Slot -> Who]) /\ Len(replay) <= MaxTurns
               /\ drawn \in [Slot -> Nat]
  BY DEF TypeOK, Commands, Ans, Who, npcTakeoverTimeoutStreak

\* What a shell does to its slot; it leaves the match alone.
LEMMA ShellMoves ==
    ASSUME AnswerInv, NEW i \in Human, ShellStep(i)
    PROVE  AnswerInv' /\ UNCHANGED <<practice, canceled, matchVars>>
<1>1. /\ shell \in [Slot -> {"open", "acting", "leaving", "closed"}]
      /\ input \in [Slot -> Seq(Commands)] /\ input[i] \in Seq(Commands) /\ i \in Slot
      /\ \A j \in Slot : Len(input[j]) <= BufferSize
      /\ results \in Seq(Ans)
  BY Unfolded DEF AnswerInv, Human, Slot
<1>2. UNCHANGED <<practice, canceled, matchVars>>
  BY DEF ShellStep, ActCheck, ActSend, Quit, ConnectionLost, CloseInput
<1>3. /\ shell' \in [Slot -> {"open", "acting", "leaving", "closed"}]
      /\ \A j \in Slot : shell[j] \in {"leaving", "closed"} => shell'[j] \in {"leaving", "closed"}
  BY <1>1 DEF ShellStep, ActCheck, ActSend, Quit, ConnectionLost, CloseInput, ShellGoto
<1>4. \/ input' = input
      \/ \E cmd \in Commands :
            /\ input' = [input EXCEPT ![i] = Append(input[i], cmd)]
            /\ Len(input[i]) < BufferSize
            /\ cmd = "quit" => shell'[i] = "leaving"
  <2>1. CASE ActSend(i)
    BY <1>1, <2>1 DEF ActSend, Put, Commands
  <2>2. CASE Quit(i)
    BY <1>1, <2>2 DEF Quit, Put, Commands, ShellGoto
  <2>3. CASE ActCheck(i) \/ ConnectionLost(i) \/ CloseInput(i)
    BY <2>3 DEF ActCheck, ConnectionLost, CloseInput
  <2>4. QED
    BY <2>1, <2>2, <2>3 DEF ShellStep
<1>5. /\ input' \in [Slot -> Seq(Commands)] /\ \A j \in Slot : Len(input'[j]) <= BufferSize
      /\ \A j \in Slot : \A k \in 1..Len(input'[j]) :
              input'[j][k] = "quit" => shell'[j] \in {"leaving", "closed"}
  <2>1. CASE input' = input
    BY <1>1, <1>3, <2>1 DEF AnswerInv, GoneHaveLeft
  <2>2. ASSUME NEW cmd \in Commands, input' = [input EXCEPT ![i] = Append(input[i], cmd)],
               Len(input[i]) < BufferSize, cmd = "quit" => shell'[i] = "leaving"
        PROVE  /\ input' \in [Slot -> Seq(Commands)] /\ \A j \in Slot : Len(input'[j]) <= BufferSize
               /\ \A j \in Slot : \A k \in 1..Len(input'[j]) :
                      input'[j][k] = "quit" => shell'[j] \in {"leaving", "closed"}
    <3>1. /\ Append(input[i], cmd) \in Seq(Commands) /\ Len(Append(input[i], cmd)) = Len(input[i]) + 1
          /\ Len(input[i]) \in Nat
          /\ \A k \in 1..Len(input[i]) : Append(input[i], cmd)[k] = input[i][k]
          /\ Append(input[i], cmd)[Len(input[i]) + 1] = cmd
      BY <1>1
    <3>2. input'[i] = Append(input[i], cmd) /\ \A j \in Slot \ {i} : input'[j] = input[j]
      BY <1>1, <2>2
    <3>3. input' \in [Slot -> Seq(Commands)]
      BY <1>1, <2>2, <3>1
    <3>4. Len(input'[i]) <= BufferSize
      BY <2>2, <3>1, <3>2, TurnLoopConstants
    <3>5. \A k \in 1..Len(input'[i]) : k \in 1..Len(input[i]) \/ k = Len(input[i]) + 1
      BY <3>1, <3>2
    <3>6. \A k \in 1..Len(input'[i]) : input'[i][k] = "quit" => shell'[i] \in {"leaving", "closed"}
      BY <1>1, <1>3, <2>2, <3>1, <3>2, <3>5 DEF AnswerInv, GoneHaveLeft
    <3>7. QED
      BY <1>1, <1>3, <3>2, <3>3, <3>4, <3>6 DEF AnswerInv, GoneHaveLeft
  <2>3. CASE input' # input
    <3>1. PICK cmd \in Commands :
              /\ input' = [input EXCEPT ![i] = Append(input[i], cmd)]
              /\ Len(input[i]) < BufferSize
              /\ cmd = "quit" => shell'[i] = "leaving"
      BY <1>4, <2>3
    <3>2. QED
      BY <2>2, <3>1
  <2>4. QED
    BY <2>1, <2>3
<1>6. TypeOK'
  BY <1>2, <1>3, <1>5, Unfolded
     DEF AnswerInv, TypeOK, Commands, matchVars, controlVars, turnVars, Human
<1>7. OneAnswerPerSlot' /\ AnswersKnowControl'
  BY <1>2 DEF AnswerInv, OneAnswerPerSlot, AnswersKnowControl, matchVars, controlVars, turnVars
<1>8. GoneHaveLeft'
  <2>1. \A k \in 1..Len(results) : results[k].slot \in Slot
    <3>1. \A k \in 1..Len(results) : results[k] \in Ans
      BY <1>1
    <3>2. QED
      BY <3>1 DEF Ans
  <2>2. results' = results
    BY <1>2 DEF matchVars, turnVars
  <2>3. \A k \in 1..Len(results') :
            results'[k].status = "disconnect" => shell'[results'[k].slot] \in {"leaving", "closed"}
    BY <1>3, <2>1, <2>2 DEF AnswerInv, GoneHaveLeft
  <2>4. QED
    BY <1>5, <2>3 DEF GoneHaveLeft
<1>9. QED
  BY <1>2, <1>6, <1>7, <1>8 DEF AnswerInv

\* A reader's answer is one more of its slot; it says that the player is gone only if he is.
LEMMA ReaderMoves ==
    ASSUME AnswerInv, NEW i \in Human, ReaderStep(i)
    PROVE  AnswerInv' /\ UNCHANGED <<practice, shell, canceled, phase, controlVars>>
<1>1. /\ shell \in [Slot -> {"open", "acting", "leaving", "closed"}]
      /\ input \in [Slot -> Seq(Commands)] /\ input[i] \in Seq(Commands) /\ i \in Slot
      /\ \A j \in Slot : Len(input[j]) <= BufferSize
      /\ results \in Seq(Ans) /\ reader \subseteq Human /\ Len(results) \in Nat
  BY Unfolded DEF AnswerInv, Human, Slot
<1>2. PICK st \in {"action", "timeout", "disconnect", "canceled"} :
          /\ Answer(i, st)
          /\ st = "disconnect" => shell[i] \in {"leaving", "closed"}
  <2>1. CASE ReadCommand(i)
    <3>1. input[i] # <<>> /\ Head(input[i]) = input[i][1] /\ 1 \in 1..Len(input[i])
          /\ Head(input[i]) \in Commands
      BY <1>1, <2>1 DEF ReadCommand
    <3>2. QED
      BY <1>1, <2>1, <3>1 DEF ReadCommand, AnswerInv, GoneHaveLeft, Commands
  <2>2. CASE ReadClosed(i) \/ Timeout(i) \/ Canceled(i)
    BY <2>2 DEF ReadClosed, Timeout, Canceled
  <2>3. QED
    BY <2>1, <2>2 DEF ReaderStep
<1>3. /\ i \in reader /\ reader' = reader \ {i}
      /\ results' = Append(results, [slot |-> i, status |-> st])
      /\ UNCHANGED <<practice, shell, canceled, phase, controlVars>>
  BY <1>2 DEF Answer
<1>4. [slot |-> i, status |-> st] \in Ans
  BY <1>1 DEF Ans, Statuses
<1>5. /\ results' \in Seq(Ans) /\ Len(results') = Len(results) + 1
      /\ \A k \in 1..Len(results) : results'[k] = results[k]
      /\ results'[Len(results) + 1].slot = i /\ results'[Len(results) + 1].status = st
      /\ 1..Len(results') = 1..Len(results) \cup {Len(results) + 1}
  <2>1. /\ results' \in Seq(Ans) /\ Len(results') = Len(results) + 1
        /\ \A k \in 1..Len(results) : results'[k] = results[k]
        /\ results'[Len(results) + 1] = [slot |-> i, status |-> st]
    BY <1>1, <1>3, <1>4
  <2>2. QED
    BY <1>1, <2>1
<1>6. /\ input' \in [Slot -> Seq(Commands)] /\ \A j \in Slot : Len(input'[j]) <= BufferSize
      /\ \A j \in Slot : \A k \in 1..Len(input'[j]) :
              input'[j][k] = "quit" => shell[j] \in {"leaving", "closed"}
  <2>1. CASE input' = input
    BY <1>1, <2>1 DEF AnswerInv, GoneHaveLeft
  <2>2. CASE input[i] # <<>> /\ input' = [input EXCEPT ![i] = Tail(input[i])]
    <3>1. /\ Tail(input[i]) \in Seq(Commands) /\ Len(Tail(input[i])) = Len(input[i]) - 1
          /\ Len(input[i]) \in Nat \ {0}
          /\ \A k \in 1..Len(Tail(input[i])) :
                 k + 1 \in 1..Len(input[i]) /\ Tail(input[i])[k] = input[i][k + 1]
      BY <1>1, <2>2
    <3>2. input'[i] = Tail(input[i]) /\ \A j \in Slot \ {i} : input'[j] = input[j]
      BY <1>1, <2>2
    <3>3. input' \in [Slot -> Seq(Commands)]
      BY <1>1, <2>2, <3>1
    <3>4. Len(input'[i]) <= BufferSize
      BY <1>1, <3>1, <3>2, TurnLoopConstants
    <3>5. \A k \in 1..Len(input'[i]) : input'[i][k] = "quit" => shell[i] \in {"leaving", "closed"}
      BY <1>1, <3>1, <3>2 DEF AnswerInv, GoneHaveLeft
    <3>6. QED
      BY <1>1, <3>2, <3>3, <3>4, <3>5 DEF AnswerInv, GoneHaveLeft
  <2>3. QED
    BY <2>1, <2>2 DEF ReaderStep, ReadCommand, ReadClosed, Timeout, Canceled
<1>7. phase = "collect" /\ i \notin npcControlled
  BY <1>3 DEF AnswerInv, OneAnswerPerSlot, AnswersKnowControl
<1>8. TypeOK'
  BY <1>3, <1>5, <1>6, Unfolded DEF AnswerInv, TypeOK, Commands, Ans, controlVars, Human
<1>9. OneAnswerPerSlot'
  <2>1. /\ \A j, k \in 1..Len(results) : results[j].slot = results[k].slot => j = k
        /\ {results[k].slot : k \in 1..Len(results)} = Slot \ reader
    BY <1>7 DEF AnswerInv, OneAnswerPerSlot
  <2>2. \A k \in 1..Len(results) : results[k].slot # i
    BY <1>3, <2>1
  <2>3. \A j, k \in 1..Len(results') : results'[j].slot = results'[k].slot => j = k
    BY <1>5, <2>1, <2>2
  <2>4. {results'[k].slot : k \in 1..Len(results')} = {results[k].slot : k \in 1..Len(results)} \cup {i}
    BY <1>5
  <2>5. {results'[k].slot : k \in 1..Len(results')} = Slot \ reader'
    BY <1>1, <1>3, <2>1, <2>4
  <2>6. QED
    BY <1>3, <1>7, <2>3, <2>5 DEF OneAnswerPerSlot
<1>10. AnswersKnowControl'
  BY <1>2, <1>3, <1>5, <1>7 DEF AnswerInv, AnswersKnowControl, controlVars
<1>11. GoneHaveLeft'
  BY <1>2, <1>3, <1>5, <1>6 DEF AnswerInv, GoneHaveLeft
<1>12. QED
  BY <1>3, <1>8, <1>9, <1>10, <1>11 DEF AnswerInv

----------------------------------------------------------------------------
(* The match goroutine: who controls a slot, and since when.                *)

\* The last recorded turn says who controls each slot now, and whom it missed.
ControlFollowsReplay ==
    \A i \in Slot :
        IF replay = <<>>
        THEN (i \in npcControlled <=> i \notin Human) /\ timeoutStreak[i] = 0
        ELSE /\ replay[Len(replay)][i] = "npc" <=> i \in npcControlled
             /\ replay[Len(replay)][i] = "none" <=> timeoutStreak[i] # 0

\* The turns the NPC has played, and how far its stream is ahead of them.
NPCTurns(i) == {t \in 1..Len(replay) : replay[t][i] = "npc"}
Ahead(i)    == IF phase = "collect" /\ i \in npcControlled THEN 1 ELSE 0

StreamInv ==
    phase \in {"check", "collect", "emit", "finalize"} =>
        \A i \in Slot : drawn[i] = Cardinality(NPCTurns(i)) + Ahead(i)

\* A turn is only started when there is one left.
RoomForTurn == phase = "collect" => Len(replay) < MaxTurns

\* The coach keeps his slot.
NPCKeeps == Slot \ npcControlled \subseteq Human

TurnInv ==
    /\ AnswerInv /\ ControlFollowsReplay /\ RoomForTurn /\ NPCKeeps
    /\ ControlHistory /\ TakeoverHasCause /\ StreamInv

LEMMA NPCTurnsCount ==
    ASSUME TypeOK, NEW i
    PROVE  IsFiniteSet(NPCTurns(i)) /\ Cardinality(NPCTurns(i)) \in Nat
<1>1. replay \in Seq([Slot -> Who])
  BY Unfolded
<1>2. NPCTurns(i) \subseteq 1..Len(replay) /\ IsFiniteSet(1..Len(replay))
  BY <1>1, FS_Interval DEF NPCTurns
<1>3. QED
  BY <1>2, FS_Subset, FS_CardinalityType

\* What becomes of a slot when its turn is resolved.
LEMMA SlotResolved ==
    ASSUME TurnInv, ResolveTurn, NEW i \in Slot
    PROVE  /\ InputBy(i) \in Who /\ NewStreak(i) \in 0..1
           /\ InputBy(i) = "npc" <=> i \in ControlledNext
           /\ InputBy(i) = "none" <=> NewStreak(i) # 0
           /\ i \in npcControlled => InputBy(i) = "npc" /\ Draws(i) = drawn[i]
           /\ InputBy(i) = "none" => timeoutStreak[i] = 0
           /\ i \notin npcControlled =>
                Draws(i) = IF InputBy(i) = "npc" THEN drawn[i] + 1 ELSE drawn[i]
           /\ i \notin npcControlled /\ InputBy(i) = "npc" /\ timeoutStreak[i] = 0 =>
                shell[i] \in {"leaving", "closed"}
<1>1. AnswerInv /\ phase = "collect" /\ Len(results) = 2 /\ StatusOf(i) # "canceled"
  BY DEF TurnInv, ResolveTurn
<1>2. PICK k \in 1..2 : results[k].slot = i /\ StatusOf(i) = results[k].status
  BY <1>1, BothAnswered
<1>3. results[k] \in Ans /\ timeoutStreak[i] \in 0..1 /\ npcControlled \subseteq Slot
  <2>1. /\ results \in Seq(Ans) /\ timeoutStreak \in [Slot -> 0..1] /\ npcControlled \subseteq Slot
        /\ k \in 1..Len(results)
    BY <1>1, Unfolded DEF AnswerInv
  <2>2. QED
    BY <2>1
<1>4. StatusOf(i) \in {"action", "timeout", "disconnect", "npc"}
  <2>1. results[k].status \in Statuses
    BY <1>3 DEF Ans
  <2>2. QED
    BY <1>1, <1>2, <2>1 DEF Statuses
<1>5. StatusOf(i) = "npc" <=> i \in npcControlled
  BY <1>1, <1>2 DEF AnswerInv, AnswersKnowControl
<1>6. StatusOf(i) = "disconnect" => shell[i] \in {"leaving", "closed"}
  BY <1>1, <1>2 DEF AnswerInv, GoneHaveLeft
<1>7. i \in ControlledNext <=> i \in npcControlled \/ TakenOver(i)
  BY DEF ControlledNext
<1>8. MissesAgain(i) <=> StatusOf(i) = "timeout" /\ timeoutStreak[i] = 1
  BY <1>3 DEF MissesAgain, npcTakeoverTimeoutStreak
<1>9. TakenOver(i) <=> StatusOf(i) = "disconnect" \/ (StatusOf(i) = "timeout" /\ timeoutStreak[i] = 1)
  BY <1>8 DEF TakenOver
<1>10. CASE StatusOf(i) = "npc"
  BY <1>5, <1>7, <1>9, <1>10 DEF InputBy, NewStreak, Draws, Who
<1>11. CASE StatusOf(i) = "action"
  BY <1>5, <1>7, <1>9, <1>11 DEF InputBy, NewStreak, Draws, Who
<1>12. CASE StatusOf(i) = "disconnect"
  BY <1>5, <1>6, <1>7, <1>9, <1>12 DEF InputBy, NewStreak, Draws, Who
<1>13. CASE StatusOf(i) = "timeout"
  BY <1>3, <1>5, <1>7, <1>9, <1>13 DEF InputBy, NewStreak, Draws, Who
<1>14. QED
  BY <1>4, <1>10, <1>11, <1>12, <1>13

\* The recorded turn.
LEMMA TurnRecorded ==
    ASSUME TurnInv, ResolveTurn
    PROVE  /\ replay' \in Seq([Slot -> Who]) /\ Len(replay') = Len(replay) + 1 /\ Len(replay) \in Nat
           /\ \A t \in 1..Len(replay) : replay'[t] = replay[t]
           /\ \A i \in Slot : replay'[Len(replay')][i] = InputBy(i)
           /\ replay' # <<>>
<1> DEFINE turn == [i \in Slot |-> InputBy(i)]
<1>1. turn \in [Slot -> Who]
  BY SlotResolved
<1>2. replay \in Seq([Slot -> Who]) /\ replay' = Append(replay, turn)
  BY Unfolded DEF TurnInv, AnswerInv, ResolveTurn
<1>3. \A i \in Slot : turn[i] = InputBy(i)
  OBVIOUS
<1> HIDE DEF turn
<1>4. /\ replay' \in Seq([Slot -> Who]) /\ Len(replay') = Len(replay) + 1 /\ Len(replay) \in Nat
      /\ \A t \in 1..Len(replay) : replay'[t] = replay[t]
      /\ replay'[Len(replay) + 1] = turn
  BY <1>1, <1>2
<1>5. QED
  BY <1>3, <1>4

\* A turn leaves the answers as the next one needs them.
LEMMA ResolveKeepsAnswers ==
    ASSUME TurnInv, ResolveTurn
    PROVE  AnswerInv'
<1>1. /\ AnswerInv /\ phase = "collect" /\ Len(results) = 2 /\ Len(replay) <= MaxTurns
      /\ npcControlled \subseteq Slot
  BY Unfolded DEF TurnInv, AnswerInv, ResolveTurn
<1>2. reader = {}
  BY <1>1, BothAnswered
<1>3. /\ phase' = "emit" /\ results' = <<>> /\ reader' = reader /\ UNCHANGED playerVars
      /\ npcControlled' = ControlledNext /\ finished' \in BOOLEAN
      /\ timeoutStreak' = [i \in Slot |-> NewStreak(i)]
      /\ drawn' = [i \in Slot |-> Draws(i)]
  BY DEF ResolveTurn, Goto
<1>4. timeoutStreak' \in [Slot -> 0..1]
  BY <1>3, SlotResolved
<1>5. drawn' \in [Slot -> Nat]
  <2>1. \A i \in Slot : Draws(i) \in {drawn[i], drawn[i] + 1}
    BY DEF Draws
  <2>2. \A i \in Slot : drawn[i] \in Nat
    BY <1>1, Unfolded DEF AnswerInv
  <2>3. QED
    BY <1>3, <2>1, <2>2
<1>6. Len(replay') <= MaxTurns /\ replay' \in Seq([Slot -> Who])
  <2>1. Len(replay) < MaxTurns
    BY <1>1 DEF TurnInv, RoomForTurn
  <2>2. QED
    BY <2>1, TurnRecorded, TurnLoopConstants
<1>7. npcControlled' \subseteq Slot
  BY <1>1, <1>3 DEF ControlledNext
<1>8. TypeOK'
  BY <1>1, <1>2, <1>3, <1>4, <1>5, <1>6, <1>7, Unfolded
     DEF AnswerInv, TypeOK, Phases, playerVars, Human, Who, npcTakeoverTimeoutStreak
<1>9. OneAnswerPerSlot' /\ AnswersKnowControl'
  BY <1>2, <1>3 DEF OneAnswerPerSlot, AnswersKnowControl
<1>10. GoneHaveLeft'
  BY <1>1, <1>3 DEF AnswerInv, GoneHaveLeft, playerVars
<1>11. QED
  BY <1>8, <1>9, <1>10 DEF AnswerInv

LEMMA ResolveKeepsControl ==
    ASSUME TurnInv, ResolveTurn
    PROVE  ControlFollowsReplay' /\ ControlHistory' /\ TakeoverHasCause'
<1>1. /\ replay' # <<>> /\ Len(replay') = Len(replay) + 1 /\ Len(replay) \in Nat
      /\ \A t \in 1..Len(replay) : replay'[t] = replay[t]
      /\ \A i \in Slot : replay'[Len(replay')][i] = InputBy(i)
  BY TurnRecorded
<1>2. /\ npcControlled' = ControlledNext /\ practice' = practice /\ shell' = shell
      /\ \A i \in Slot : timeoutStreak'[i] = NewStreak(i)
  BY DEF ResolveTurn, playerVars
<1>3. Human' = Human /\ Human \subseteq Slot
  BY <1>2 DEF Human, Slot
<1>4. ControlFollowsReplay'
  BY <1>1, <1>2, SlotResolved DEF ControlFollowsReplay
<1>5. Len(replay) = 0 <=> replay = <<>>
  BY Unfolded DEF TurnInv, AnswerInv
<1>6. ControlHistory'
  <2>1. ASSUME NEW t \in 1..(Len(replay) - 1), NEW i \in Slot
        PROVE  /\ replay[t][i] = "npc" => replay[t + 1][i] = "npc"
               /\ ~(replay[t][i] = "none" /\ replay[t + 1][i] = "none")
    BY <2>1 DEF TurnInv, ControlHistory
  <2>2. ASSUME NEW i \in Slot, replay # <<>>
        PROVE  /\ replay[Len(replay)][i] = "npc" => InputBy(i) = "npc"
               /\ ~(replay[Len(replay)][i] = "none" /\ InputBy(i) = "none")
    BY <2>2, SlotResolved DEF TurnInv, ControlFollowsReplay
  <2>3. ASSUME NEW t \in 1..(Len(replay') - 1), NEW i \in Slot
        PROVE  /\ replay'[t][i] = "npc" => replay'[t + 1][i] = "npc"
               /\ ~(replay'[t][i] = "none" /\ replay'[t + 1][i] = "none")
    <3>1. CASE t = Len(replay)
      BY <1>1, <1>5, <2>2, <3>1
    <3>2. CASE t # Len(replay)
      <4>1. t \in 1..(Len(replay) - 1) /\ replay'[t] = replay[t] /\ replay'[t + 1] = replay[t + 1]
        BY <1>1, <3>2
      <4>2. QED
        BY <2>1, <4>1
    <3>3. QED
      BY <3>1, <3>2
  <2>4. QED
    BY <2>3 DEF ControlHistory
<1>7. TakeoverHasCause'
  <2>1. ASSUME NEW t \in 1..Len(replay'), NEW i \in Human,
               replay'[t][i] = "npc", t = 1 \/ replay'[t - 1][i] = "player"
        PROVE  shell[i] \in {"leaving", "closed"}
    <3>1. CASE t <= Len(replay)
      <4>1. t \in 1..Len(replay) /\ replay'[t] = replay[t]
        BY <1>1, <3>1
      <4>2. t = 1 \/ (t - 1 \in 1..Len(replay) /\ replay'[t - 1] = replay[t - 1])
        BY <1>1, <3>1
      <4>3. QED
        BY <2>1, <4>1, <4>2 DEF TurnInv, TakeoverHasCause
    <3>2. CASE t = Len(replay')
      <4>1. i \in Slot /\ InputBy(i) = "npc"
        BY <1>1, <1>3, <2>1, <3>2
      <4>2. CASE replay = <<>>
        <5>1. i \notin npcControlled /\ timeoutStreak[i] = 0
          BY <4>1, <4>2 DEF TurnInv, ControlFollowsReplay
        <5>2. QED
          BY <4>1, <5>1, SlotResolved
      <4>3. CASE replay # <<>>
        <5>1. Len(replay) \in 1..Len(replay) /\ t - 1 = Len(replay) /\ t # 1
          BY <1>1, <1>5, <3>2, <4>3
        <5>2. replay[Len(replay)][i] = "player"
          BY <1>1, <2>1, <5>1
        <5>3. i \notin npcControlled /\ timeoutStreak[i] = 0
          BY <4>1, <4>3, <5>2 DEF TurnInv, ControlFollowsReplay
        <5>4. QED
          BY <4>1, <5>3, SlotResolved
      <4>4. QED
        BY <4>2, <4>3
    <3>3. QED
      BY <1>1, <3>1, <3>2
  <2>2. QED
    BY <1>2, <1>3, <2>1 DEF TakeoverHasCause
<1>8. QED
  BY <1>4, <1>6, <1>7

\* An NPC turn more in the record is a decision more taken from the stream.
LEMMA ResolveKeepsStream ==
    ASSUME TurnInv, ResolveTurn
    PROVE  StreamInv'
<1>1. /\ Len(replay') = Len(replay) + 1 /\ Len(replay) \in Nat
      /\ \A t \in 1..Len(replay) : replay'[t] = replay[t]
      /\ \A i \in Slot : replay'[Len(replay')][i] = InputBy(i)
  BY TurnRecorded
<1> SUFFICES ASSUME NEW i \in Slot
             PROVE  drawn'[i] = Cardinality(NPCTurns(i)') + Ahead(i)'
  BY DEF StreamInv
<1> DEFINE S == NPCTurns(i)
<1>2. /\ drawn'[i] = Draws(i) /\ Ahead(i)' = 0 /\ phase = "collect"
  BY DEF ResolveTurn, Goto, Ahead
<1>3. drawn[i] = Cardinality(S) + (IF i \in npcControlled THEN 1 ELSE 0)
  BY <1>2 DEF TurnInv, StreamInv, Ahead
<1>4. IsFiniteSet(S) /\ Cardinality(S) \in Nat /\ Len(replay) + 1 \notin S
  <2>1. IsFiniteSet(S) /\ Cardinality(S) \in Nat
    BY NPCTurnsCount DEF TurnInv, AnswerInv
  <2>2. QED
    BY <1>1, <2>1 DEF NPCTurns
<1>5. NPCTurns(i)' = IF InputBy(i) = "npc" THEN S \cup {Len(replay) + 1} ELSE S
  <2>1. 1..Len(replay') = 1..Len(replay) \cup {Len(replay) + 1}
    BY <1>1
  <2>2. QED
    BY <1>1, <2>1 DEF NPCTurns
<1>6. Cardinality(S \cup {Len(replay) + 1}) = Cardinality(S) + 1
  BY <1>4, FS_AddElement
<1> HIDE DEF S
<1>7. CASE i \in npcControlled
  BY <1>2, <1>3, <1>4, <1>5, <1>6, <1>7, SlotResolved
<1>8. CASE i \notin npcControlled
  BY <1>2, <1>3, <1>4, <1>5, <1>6, <1>8, SlotResolved
<1>9. QED
  BY <1>7, <1>8

----------------------------------------------------------------------------
(* The other steps.                                                         *)

\* The match goroutine outside a resolved turn records nothing and gives nobody control.
LEMMA LoopKeeps ==
    ASSUME TurnInv,
           LoopOver \/ StartTurn \/ AbandonTurn \/ Emit \/ Finalize \/ Drain \/ Release
    PROVE  TurnInv'
<1>1. /\ AnswerInv /\ ControlFollowsReplay /\ ControlHistory /\ TakeoverHasCause
      /\ npcControlled \subseteq Slot /\ drawn \in [Slot -> Nat] /\ Human \subseteq Slot
      /\ input \in [Slot -> Seq(Commands)] /\ \A i \in Slot : Len(input[i]) <= BufferSize
  BY Unfolded DEF TurnInv, AnswerInv, Human, Slot
<1>2. UNCHANGED <<practice, shell, canceled, finished, npcControlled, timeoutStreak, replay>>
  BY DEF LoopOver, StartTurn, AbandonTurn, Emit, Finalize, Drain, Release, playerVars, controlVars
<1>3. Human' = Human
  BY <1>2 DEF Human
<1>4. ControlFollowsReplay' /\ ControlHistory' /\ TakeoverHasCause'
  BY <1>1, <1>2, <1>3 DEF ControlFollowsReplay, ControlHistory, TakeoverHasCause
<1>5. CASE StartTurn
  <2>1. /\ phase' = "collect" /\ input' = input /\ Len(replay) < MaxTurns /\ phase = "check"
        /\ results' = NPCAnswers /\ reader' = Slot \ npcControlled
        /\ drawn' = [i \in Slot |-> IF i \in npcControlled THEN drawn[i] + 1 ELSE drawn[i]]
    BY <1>5 DEF StartTurn, Goto, playerVars, Awaited
  <2>2. /\ results' \in Seq(Ans)
        /\ \A k \in 1..Len(results') : results'[k].status = "npc"
        /\ \A j, k \in 1..Len(results') : results'[j].slot = results'[k].slot => j = k
        /\ {results'[k].slot : k \in 1..Len(results')} = npcControlled
    BY <1>1, <2>1, NPCAnswersProperties
  <2>3. Slot \ npcControlled \subseteq Human
    BY <1>1 DEF TurnInv, NPCKeeps
  <2>4. drawn' \in [Slot -> Nat]
    BY <1>1, <2>1
  <2>5. TypeOK'
    BY <1>1, <1>2, <1>3, <2>1, <2>2, <2>3, <2>4, Unfolded
       DEF AnswerInv, TypeOK, Phases, Ans, Who, npcTakeoverTimeoutStreak
  <2>6. OneAnswerPerSlot'
    BY <1>1, <2>1, <2>2 DEF OneAnswerPerSlot
  <2>7. AnswersKnowControl'
    BY <1>2, <2>1, <2>2 DEF AnswersKnowControl
  <2>8. GoneHaveLeft'
    BY <1>1, <1>2, <2>1, <2>2 DEF AnswerInv, GoneHaveLeft
  <2>9. StreamInv'
    <3>1. ASSUME NEW i \in Slot
          PROVE  drawn'[i] = Cardinality(NPCTurns(i)') + Ahead(i)'
      <4>1. NPCTurns(i)' = NPCTurns(i) /\ Cardinality(NPCTurns(i)) \in Nat
        BY <1>1, <1>2, NPCTurnsCount DEF NPCTurns, AnswerInv
      <4>2. drawn[i] = Cardinality(NPCTurns(i)) + 0
        BY <2>1 DEF TurnInv, StreamInv, Ahead
      <4>3. drawn'[i] = IF i \in npcControlled THEN drawn[i] + 1 ELSE drawn[i]
        BY <2>1
      <4>4. Ahead(i)' = IF i \in npcControlled THEN 1 ELSE 0
        BY <1>2, <2>1 DEF Ahead
      <4>5. QED
        BY <4>1, <4>2, <4>3, <4>4
    <3>2. QED
      BY <3>1 DEF StreamInv
  <2>10. RoomForTurn' /\ NPCKeeps'
    BY <1>1, <1>2, <1>3, <2>1 DEF TurnInv, RoomForTurn, NPCKeeps
  <2>11. QED
    BY <1>4, <2>5, <2>6, <2>7, <2>8, <2>9, <2>10 DEF TurnInv, AnswerInv
<1>6. CASE LoopOver \/ AbandonTurn \/ Emit \/ Finalize \/ Drain \/ Release
  <2>1. /\ phase' \in Phases /\ phase' # "collect" /\ reader' = reader /\ drawn' = drawn
        /\ results' = <<>>
    BY <1>1, <1>6 DEF LoopOver, AbandonTurn, Emit, Finalize, Drain, Release, Goto, Phases,
                      controlVars, turnVars, AnswerInv, AnswersKnowControl
  <2>2. reader = {}
    <3>1. CASE phase = "collect"
      <4>1. Len(results) = 2
        BY <1>6, <3>1 DEF LoopOver, AbandonTurn, Emit, Finalize, Drain, Release
      <4>2. QED
        BY <1>1, <3>1, <4>1, BothAnswered
    <3>2. CASE phase # "collect"
      BY <1>1, <3>2 DEF AnswerInv, OneAnswerPerSlot
    <3>3. QED
      BY <3>1, <3>2
  <2>3. input' = input \/ input' = [i \in Slot |-> IF i \in Human THEN <<>> ELSE input[i]]
    BY <1>6 DEF LoopOver, AbandonTurn, Emit, Finalize, Drain, Release, playerVars
  <2>4. /\ input' \in [Slot -> Seq(Commands)] /\ \A i \in Slot : Len(input'[i]) <= BufferSize
        /\ \A i \in Slot : input'[i] = input[i] \/ input'[i] = <<>>
    <3>1. <<>> \in Seq(Commands) /\ Len(<<>>) <= BufferSize
      BY TurnLoopConstants
    <3>2. \A i \in Slot : input'[i] = input[i] \/ input'[i] = <<>>
      BY <1>1, <2>3
    <3>3. input' \in [Slot -> Seq(Commands)]
      BY <1>1, <2>3, <3>1
    <3>4. QED
      BY <1>1, <3>1, <3>2, <3>3
  <2>5. TypeOK'
    BY <1>1, <1>2, <1>3, <2>1, <2>2, <2>4, Unfolded
       DEF AnswerInv, TypeOK, Commands, Ans, Who, npcTakeoverTimeoutStreak
  <2>6. OneAnswerPerSlot' /\ AnswersKnowControl' /\ RoomForTurn' /\ NPCKeeps'
    BY <1>1, <1>2, <1>3, <2>1, <2>2
       DEF OneAnswerPerSlot, AnswersKnowControl, RoomForTurn, TurnInv, NPCKeeps
  <2>7. GoneHaveLeft'
    BY <1>1, <1>2, <2>1, <2>4 DEF AnswerInv, GoneHaveLeft
  <2>8. StreamInv'
    <3>1. phase' \in {"check", "finalize", "emit"} => phase \in {"check", "emit", "finalize"}
      BY <1>6 DEF LoopOver, AbandonTurn, Emit, Finalize, Drain, Release, Goto
    <3>2. QED
      BY <1>2, <2>1, <3>1 DEF TurnInv, StreamInv, Ahead, NPCTurns
  <2>9. QED
    BY <1>4, <2>5, <2>6, <2>7, <2>8 DEF TurnInv, AnswerInv
<1>7. QED
  BY <1>5, <1>6

LEMMA TurnKept == TurnInv /\ [Next]_vars => TurnInv'
<1> SUFFICES ASSUME TurnInv, [Next]_vars PROVE TurnInv'
  OBVIOUS
<1>1. AnswerInv
  BY DEF TurnInv
<1>2. CASE UNCHANGED <<practice, phase, npcControlled, timeoutStreak, replay, drawn>> /\ AnswerInv'
           /\ \A i \in Slot : shell[i] \in {"leaving", "closed"} => shell'[i] \in {"leaving", "closed"}
  <2>1. Human' = Human /\ Human \subseteq Slot
    BY <1>2 DEF Human, Slot
  <2>2. ControlFollowsReplay' /\ ControlHistory' /\ StreamInv' /\ RoomForTurn' /\ NPCKeeps'
    BY <1>2, <2>1 DEF TurnInv, ControlFollowsReplay, ControlHistory, StreamInv, Ahead, NPCTurns,
                      RoomForTurn, NPCKeeps
  <2>3. TakeoverHasCause'
    BY <1>2, <2>1 DEF TurnInv, TakeoverHasCause
  <2>4. QED
    BY <1>2, <2>2, <2>3 DEF TurnInv
<1>3. CASE \E i \in Human : ShellStep(i)
  <2>1. PICK i \in Human : ShellStep(i)
    BY <1>3
  <2>2. AnswerInv' /\ UNCHANGED <<practice, canceled, matchVars>>
    BY <1>1, <2>1, ShellMoves
  <2>3. \A j \in Slot : shell[j] \in {"leaving", "closed"} => shell'[j] \in {"leaving", "closed"}
    BY <1>1, <2>1 DEF AnswerInv, TypeOK, ShellStep, ActCheck, ActSend, Quit, ConnectionLost,
                      CloseInput, ShellGoto
  <2>4. QED
    BY <1>2, <2>2, <2>3 DEF matchVars, controlVars
<1>4. CASE \E i \in Human : ReaderStep(i)
  <2>1. PICK i \in Human : ReaderStep(i)
    BY <1>4
  <2>2. AnswerInv' /\ UNCHANGED <<practice, shell, canceled, phase, controlVars>>
    BY <1>1, <2>1, ReaderMoves
  <2>3. QED
    BY <1>2, <2>2 DEF controlVars
<1>5. CASE ResolveTurn
  <2>1. RoomForTurn' /\ NPCKeeps'
    <3>1. npcControlled' = ControlledNext /\ practice' = practice /\ phase' = "emit"
      BY <1>5 DEF ResolveTurn, playerVars, Goto
    <3>2. QED
      BY <3>1 DEF TurnInv, RoomForTurn, NPCKeeps, ControlledNext, Human
  <2>2. QED
    BY <1>5, <2>1, ResolveKeepsAnswers, ResolveKeepsControl, ResolveKeepsStream DEF TurnInv
<1>6. CASE Cancel \/ UNCHANGED vars
  <2>1. /\ UNCHANGED <<practice, shell, input, matchVars>> /\ canceled' \in BOOLEAN
    BY <1>1, <1>6 DEF Cancel, vars, playerVars, AnswerInv, TypeOK
  <2>2. AnswerInv'
    BY <1>1, <2>1 DEF AnswerInv, TypeOK, OneAnswerPerSlot, AnswersKnowControl, GoneHaveLeft,
                      matchVars, controlVars, turnVars, Human
  <2>3. QED
    BY <1>2, <2>1, <2>2 DEF matchVars, controlVars
<1>7. QED
  BY <1>3, <1>4, <1>5, <1>6, LoopKeeps DEF Next, MatchStep

LEMMA TurnStarts == Init => TurnInv
<1> SUFFICES ASSUME Init PROVE TurnInv
  OBVIOUS
<1>1. /\ practice \in BOOLEAN /\ phase = "check" /\ reader = {} /\ results = <<>> /\ replay = <<>>
      /\ npcControlled = Slot \ Human /\ canceled = FALSE /\ finished = FALSE
      /\ shell = [i \in Slot |-> "open"] /\ input = [i \in Slot |-> <<>>]
      /\ timeoutStreak = [i \in Slot |-> 0] /\ drawn = [i \in Slot |-> 0]
  BY DEF Init
<1>2. Len(replay) = 0 /\ Len(results) = 0 /\ \A i \in Slot : input[i] = <<>> /\ Len(input[i]) = 0
  BY <1>1
<1>3. replay \in Seq([Slot -> Who]) /\ results \in Seq(Ans) /\ input \in [Slot -> Seq(Commands)]
  BY <1>1
<1>4. TypeOK
  <2>1. /\ timeoutStreak \in [Slot -> 0..1] /\ drawn \in [Slot -> Nat]
        /\ shell \in [Slot -> {"open", "acting", "leaving", "closed"}]
        /\ phase \in Phases /\ npcControlled \subseteq Slot /\ reader \subseteq Human
    BY <1>1 DEF Phases
  <2>2. 0 <= BufferSize /\ 0 <= MaxTurns
    BY TurnLoopConstants
  <2>3. QED
    BY <1>1, <1>2, <1>3, <2>1, <2>2, Unfolded
<1>5. AnswerInv
  BY <1>1, <1>2, <1>4 DEF AnswerInv, OneAnswerPerSlot, AnswersKnowControl, GoneHaveLeft
<1>6. \A i \in Slot : NPCTurns(i) = {}
  BY <1>2 DEF NPCTurns
<1>7. StreamInv
  <2>1. \A i \in Slot : drawn[i] = 0 /\ Cardinality(NPCTurns(i)) = 0 /\ Ahead(i) = 0
    BY <1>1, <1>6, FS_EmptySet DEF Ahead
  <2>2. QED
    BY <2>1 DEF StreamInv
<1>8. ControlFollowsReplay /\ ControlHistory /\ TakeoverHasCause /\ RoomForTurn /\ NPCKeeps
  BY <1>1, <1>2 DEF ControlFollowsReplay, ControlHistory, TakeoverHasCause, RoomForTurn, NPCKeeps
<1>9. QED
  BY <1>5, <1>7, <1>8 DEF TurnInv

LEMMA TurnAlways == Spec => []TurnInv
  BY TurnStarts, TurnKept, PTL DEF Spec

\* The variables of a match have their types, for any number of turns and any Input
\* capacity (runMatch, waitForTurnInput).
THEOREM TurnLoopTyped == Spec => []TypeOK
<1>1. TurnInv => TypeOK
  BY DEF TurnInv, AnswerInv
<1>2. QED
  BY <1>1, TurnAlways, PTL

\* The two results of a turn are one of each slot, in whatever order the readers answer, and
\* no reader outlives its turn (collectTurnInputs).
THEOREM AnswersAreOfTheTurn == Spec => []OneAnswerPerSlot
<1>1. TurnInv => OneAnswerPerSlot
  BY DEF TurnInv, AnswerInv
<1>2. QED
  BY <1>1, TurnAlways, PTL

\* docs/m4-replay-persistence.md, takeover policy: the NPC keeps a slot it has got, and gets
\* it with the second missed turn in a row (resolveTurnInput).
THEOREM ControlIsKept == Spec => []ControlHistory
<1>1. TurnInv => ControlHistory
  BY DEF TurnInv
<1>2. QED
  BY <1>1, TurnAlways, PTL

\* Nobody who answers in time and has not left loses his fighter, whatever the other player
\* does (waitForTurnInput, resolveTurnInput).
THEOREM NobodyIsReplacedWithoutCause == Spec => []TakeoverHasCause
<1>1. TurnInv => TakeoverHasCause
  BY DEF TurnInv
<1>2. QED
  BY <1>1, TurnAlways, PTL

\* docs/m4-replay-persistence.md: how far an NPC stream has been read follows from the
\* recorded inputs (runMatch, resolveTurnInput).
THEOREM StreamsFollowReplay == Spec => []StreamFollowsReplay
<1>1. TurnInv => StreamFollowsReplay
  <2> SUFFICES ASSUME TurnInv, phase \in {"check", "emit", "finalize"}, NEW i \in Slot
               PROVE  drawn[i] = Cardinality(NPCTurns(i))
    BY DEF StreamFollowsReplay, NPCTurns
  <2>1. drawn[i] = Cardinality(NPCTurns(i)) + 0
    BY DEF TurnInv, StreamInv, Ahead
  <2>2. Cardinality(NPCTurns(i)) \in Nat
    BY NPCTurnsCount DEF TurnInv, AnswerInv
  <2>3. QED
    BY <2>1, <2>2
<1>2. QED
  BY <1>1, TurnAlways, PTL

----------------------------------------------------------------------------
(* A match comes to its end.                                                *)

\* The answers of a turn are at most two, and both are there when nobody reads any more.
LEMMA AtMostTwoAnswers ==
    ASSUME AnswerInv, phase = "collect"
    PROVE  Len(results) \in 0..2 /\ (reader = {} => Len(results) = 2)
<1>1. results \in Seq(Ans) /\ Len(results) \in Nat /\ reader \subseteq Slot
  BY Unfolded DEF AnswerInv, Human, Slot
<1>2. /\ \A k \in 1..Len(results) : results[k].slot \in Slot
      /\ \A j, k \in 1..Len(results) : results[j].slot = results[k].slot => j = k
      /\ {results[k].slot : k \in 1..Len(results)} = Slot \ reader
  <2>1. \A k \in 1..Len(results) : results[k] \in Ans
    BY <1>1
  <2>2. QED
    BY <2>1 DEF AnswerInv, OneAnswerPerSlot, Ans
<1>3. Len(results) <= 2
  <2>1. SUFFICES ASSUME 3 <= Len(results) PROVE FALSE
    BY <1>1
  <2>2. 1 \in 1..Len(results) /\ 2 \in 1..Len(results) /\ 3 \in 1..Len(results)
    BY <1>1, <2>1
  <2>3. /\ results[1].slot # results[2].slot /\ results[2].slot # results[3].slot
        /\ results[1].slot # results[3].slot
    BY <1>2, <2>2
  <2>4. QED
    BY <1>2, <2>2, <2>3 DEF Slot
<1>4. ASSUME reader = {} PROVE 2 <= Len(results)
  <2>1. 1 \in {results[k].slot : k \in 1..Len(results)} /\ 2 \in {results[k].slot : k \in 1..Len(results)}
    BY <1>2, <1>4 DEF Slot
  <2>2. PICK j \in 1..Len(results) : results[j].slot = 1
    BY <2>1
  <2>3. PICK k \in 1..Len(results) : results[k].slot = 2
    BY <2>1
  <2>4. j # k
    BY <2>2, <2>3
  <2>5. QED
    BY <1>1, <2>4
<1>5. \A n \in Nat : n <= 2 => n \in 0..2 /\ (2 <= n => n = 2)
  OBVIOUS
<1>6. QED
  BY <1>1, <1>3, <1>4, <1>5

LEMMA WorkIsCounted ==
    TurnInv => /\ Work \in Nat /\ MaxTurns \in Nat
               /\ Len(replay) \in 0..MaxTurns /\ Len(results) \in Nat /\ phase \in Phases
<1> SUFFICES ASSUME TurnInv
             PROVE  /\ Work \in Nat /\ MaxTurns \in Nat
                    /\ Len(replay) \in 0..MaxTurns /\ Len(results) \in Nat /\ phase \in Phases
  OBVIOUS
<1>1. Len(replay) \in 0..MaxTurns /\ Len(results) \in Nat /\ phase \in Phases /\ MaxTurns \in Nat
  BY Unfolded, TurnLoopConstants DEF TurnInv, AnswerInv
<1>2. phase = "collect" => Len(results) <= 2
  <2>1. SUFFICES ASSUME phase = "collect" PROVE Len(results) <= 2
    OBVIOUS
  <2>2. AnswerInv
    BY DEF TurnInv
  <2>3. Len(results) \in 0..2
    BY <2>1, <2>2, AtMostTwoAnswers
  <2>4. \A n \in 0..2 : n <= 2
    OBVIOUS
  <2>5. QED
    BY <2>3, <2>4
<1>3. 5 * (MaxTurns - Len(replay)) \in Nat
  BY <1>1
<1>4. QED
  BY <1>1, <1>2, <1>3 DEF Work

LEMMA WorkFalls ==
    ASSUME TurnInv, [Next]_vars, matchVars' # matchVars
    PROVE  Work' \in 0..(Work - 1)
<1>1. TurnInv' /\ AnswerInv
  BY TurnKept DEF TurnInv
<1>2. /\ Work \in Nat /\ Work' \in Nat
      /\ Len(replay) \in 0..MaxTurns /\ Len(results) \in Nat /\ phase \in Phases /\ MaxTurns \in Nat
      /\ Len(replay') \in 0..MaxTurns /\ Len(results') \in Nat /\ phase' \in Phases
  <2>1. (TurnInv => /\ Work \in Nat /\ MaxTurns \in Nat
                    /\ Len(replay) \in 0..MaxTurns /\ Len(results) \in Nat /\ phase \in Phases)'
    BY WorkIsCounted, PTL
  <2>2. QED
    BY <1>1, <2>1, WorkIsCounted
<1> SUFFICES Work' < Work
  BY <1>2
<1>3. CASE \E i \in Human : ReaderStep(i)
  <2>1. PICK i \in Human : ReaderStep(i)
    BY <1>3
  <2>2. phase' = phase /\ replay' = replay
    BY <1>1, <2>1, ReaderMoves DEF controlVars
  <2>3. PICK st : Answer(i, st)
    BY <2>1 DEF ReaderStep, ReadCommand, ReadClosed, Timeout, Canceled
  <2>4. phase = "collect"
    BY <1>1, <2>3 DEF Answer, AnswerInv, OneAnswerPerSlot
  <2>5. Len(results') = Len(results) + 1
    BY <1>1, <2>3, Unfolded DEF Answer, AnswerInv
  <2>6. QED
    BY <1>2, <2>2, <2>4, <2>5 DEF Work
<1>4. CASE \E i \in Human : ShellStep(i)
  BY <1>1, <1>4, ShellMoves
<1>5. CASE LoopOver
  BY <1>2, <1>5 DEF LoopOver, Goto, controlVars, Work
<1>6. CASE StartTurn
  BY <1>2, <1>6 DEF StartTurn, Goto, Work
<1>7. CASE ResolveTurn
  <2>1. Len(replay') = Len(replay) + 1 /\ phase = "collect" /\ phase' = "emit" /\ Len(results) = 2
    BY <1>7, TurnRecorded DEF ResolveTurn, Goto
  <2>2. QED
    BY <1>2, <2>1 DEF Work
<1>8. CASE AbandonTurn
  <2>1. phase = "collect" /\ phase' = "return" /\ Len(results) = 2 /\ Len(replay) < MaxTurns
    BY <1>8 DEF AbandonTurn, Goto, TurnInv, RoomForTurn
  <2>2. QED
    BY <1>2, <2>1 DEF Work
<1>9. CASE Emit
  BY <1>2, <1>9 DEF Emit, Goto, controlVars, Work
<1>10. CASE Finalize \/ Drain \/ Release
  BY <1>2, <1>10 DEF Finalize, Drain, Release, Goto, Work
<1>11. CASE Cancel \/ UNCHANGED vars
  BY <1>11 DEF Cancel, vars
<1>12. QED
  BY <1>3, <1>4, <1>5, <1>6, <1>7, <1>8, <1>9, <1>10, <1>11 DEF Next, MatchStep

\* A match of MaxTurns turns takes at most 5 * MaxTurns + 4 steps of its goroutine and its
\* readers, whatever the players and Stop do in between (runMatch).
THEOREM MatchIsBounded == Spec => EveryStepCounts
<1>1. TurnInv /\ [Next]_vars => [matchVars' # matchVars => Work' \in 0..(Work - 1)]_vars
  BY WorkFalls
<1>2. QED
  BY <1>1, TurnAlways, PTL DEF Spec, EveryStepCounts

\* And it never waits for an answer that nobody is left to give (collectTurnInputs).
THEOREM NoAnswerIsMissed ==
    Spec => [](phase = "collect" /\ reader = {} => Len(results) = 2)
<1>1. TurnInv => (phase = "collect" /\ reader = {} => Len(results) = 2)
  BY AtMostTwoAnswers DEF TurnInv
<1>2. QED
  BY <1>1, TurnAlways, PTL

----------------------------------------------------------------------------
(* A match keeps the promise of Takeover.                                   *)

\* A turn is only collected while the fight goes on, and an answer that says so is given
\* only when the server is being stopped.
EndInv ==
    /\ phase = "collect" => ~finished
    /\ \A k \in 1..Len(results) : results[k].status = "canceled" => canceled

LEMMA EndKept == TurnInv /\ EndInv /\ [Next]_vars => EndInv'
<1> SUFFICES ASSUME TurnInv, EndInv, [Next]_vars PROVE EndInv'
  OBVIOUS
<1>1. AnswerInv /\ results \in Seq(Ans) /\ Len(results) \in Nat /\ npcControlled \subseteq Slot
  BY Unfolded DEF TurnInv, AnswerInv
<1>2. CASE \E i \in Human : ShellStep(i)
  BY <1>1, <1>2, ShellMoves DEF EndInv, matchVars, controlVars, turnVars
<1>3. CASE \E i \in Human : ReaderStep(i)
  <2>1. PICK i \in Human : ReaderStep(i)
    BY <1>3
  <2>2. UNCHANGED <<canceled, phase, finished>>
    BY <1>1, <2>1, ReaderMoves DEF controlVars
  <2>3. PICK st : Answer(i, st) /\ (st = "canceled" => canceled)
    BY <2>1 DEF ReaderStep, ReadCommand, ReadClosed, Timeout, Canceled
  <2>4. results' = Append(results, [slot |-> i, status |-> st])
    BY <2>3 DEF Answer
  <2>5. \A k \in 1..Len(results') :
            \/ k \in 1..Len(results) /\ results'[k] = results[k]
            \/ results'[k] = [slot |-> i, status |-> st]
    BY <1>1, <2>4
  <2>6. QED
    BY <2>2, <2>3, <2>5 DEF EndInv
<1>4. CASE StartTurn
  <2>1. /\ ~finished /\ finished' = finished /\ results' = NPCAnswers
    BY <1>4 DEF StartTurn
  <2>2. \A k \in 1..Len(results') : results'[k].status = "npc"
    BY <1>1, <2>1, NPCAnswersProperties
  <2>3. QED
    BY <2>1, <2>2 DEF EndInv
<1>5. CASE ResolveTurn \/ AbandonTurn
  <2>1. phase' # "collect" /\ results' = <<>> /\ Len(<<>>) = 0
    BY <1>5 DEF ResolveTurn, AbandonTurn, Goto
  <2>2. QED
    BY <2>1 DEF EndInv
<1>6. CASE LoopOver \/ Emit \/ Finalize \/ Drain \/ Release
  BY <1>6 DEF LoopOver, Emit, Finalize, Drain, Release, Goto, EndInv, playerVars, turnVars
<1>7. CASE Cancel \/ UNCHANGED vars
  BY <1>7 DEF Cancel, vars, EndInv, playerVars, matchVars, controlVars, turnVars
<1>8. QED
  BY <1>2, <1>3, <1>4, <1>5, <1>6, <1>7 DEF Next, MatchStep

LEMMA PromiseStarts == Init => Promise!Init /\ EndInv
<1> SUFFICES ASSUME Init PROVE Promise!Init /\ EndInv
  OBVIOUS
<1>1. Slot \ Human \in {{}, {2}}
  BY DEF Human, Slot
<1>2. gone = {} /\ ~over /\ canceled = FALSE /\ finished = FALSE /\ replay = <<>>
  BY DEF Init, gone, over
<1>3. Promise!Init
  BY <1>1, <1>2 DEF Promise!Init, over
<1>4. EndInv
  BY DEF Init, EndInv
<1>5. QED
  BY <1>3, <1>4

\* What a resolved turn records is what each slot may play.
LEMMA ResolveIsPromised ==
    ASSUME TurnInv, EndInv, ResolveTurn
    PROVE  Promise!Turn
<1> DEFINE turn == [i \in Slot |-> InputBy(i)]
<1>1. /\ AnswerInv /\ phase = "collect" /\ phase' = "emit" /\ practice' = practice /\ shell' = shell
      /\ canceled' = canceled /\ finished' \in BOOLEAN
  BY DEF ResolveTurn, TurnInv, playerVars, Goto
<1>2. Human' = Human /\ Human \subseteq Slot
  BY <1>1 DEF Human, Slot
<1>3. turn \in [Slot -> {"player", "none", "npc"}]
  BY SlotResolved DEF Who
<1>4. replay' = Append(replay, turn)
  BY DEF ResolveTurn
<1>5. ASSUME NEW i \in Slot PROVE Promise!MayPlay(i, turn[i])
  <2>1. turn[i] = InputBy(i) /\ InputBy(i) \in Who
    BY SlotResolved
  <2>2. /\ Promise!Last(i) = "npc" <=> i \in npcControlled
        /\ Promise!Last(i) = "none" <=> timeoutStreak[i] # 0
        /\ Promise!Last(i) \in Who
    <3>1. CASE replay = <<>>
      <4>1. Promise!Last(i) = IF i \in Slot \ Human THEN "npc" ELSE "player"
        BY <3>1 DEF Promise!Last
      <4>2. (i \in npcControlled <=> i \notin Human) /\ timeoutStreak[i] = 0
        BY <3>1 DEF TurnInv, ControlFollowsReplay
      <4>3. QED
        BY <4>1, <4>2 DEF Who
    <3>2. CASE replay # <<>>
      <4>1. Promise!Last(i) = replay[Len(replay)][i]
        BY <3>2 DEF Promise!Last
      <4>2. replay \in Seq([Slot -> Who])
        BY <1>1, Unfolded DEF AnswerInv
      <4>3. replay[Len(replay)] \in [Slot -> Who]
        BY <3>2, <4>2
      <4>4. QED
        BY <3>2, <4>1, <4>3 DEF TurnInv, ControlFollowsReplay
    <3>3. QED
      BY <3>1, <3>2
  <2>3. /\ i \in npcControlled => InputBy(i) = "npc"
        /\ InputBy(i) = "none" => timeoutStreak[i] = 0
        /\ i \notin npcControlled /\ InputBy(i) = "npc" /\ timeoutStreak[i] = 0 =>
                shell[i] \in {"leaving", "closed"}
    BY SlotResolved
  <2>4. CASE InputBy(i) = "npc"
    BY <2>1, <2>2, <2>3, <2>4 DEF Promise!MayPlay, gone, Who
  <2>5. CASE InputBy(i) = "player"
    BY <2>1, <2>2, <2>3, <2>5 DEF Promise!MayPlay
  <2>6. CASE InputBy(i) = "none"
    BY <2>1, <2>2, <2>3, <2>6 DEF Promise!MayPlay, Who
  <2>7. QED
    BY <2>1, <2>4, <2>5, <2>6 DEF Who
<1>6. ~over /\ ~finished /\ Len(replay) < MaxTurns
  BY <1>1 DEF over, EndInv, TurnInv, RoomForTurn
<1>7. UNCHANGED <<Slot \ Human, gone, canceled, over>>
  BY <1>1, <1>2 DEF gone, over
<1> HIDE DEF turn
<1>8. QED
  BY <1>1, <1>3, <1>4, <1>5, <1>6, <1>7 DEF Promise!Turn

LEMMA StepIsPromised ==
    TurnInv /\ EndInv /\ [Next]_vars => [Promise!Next]_(Promise!vars)
<1> SUFFICES ASSUME TurnInv, EndInv, [Next]_vars PROVE [Promise!Next]_(Promise!vars)
  OBVIOUS
<1>1. AnswerInv
  BY DEF TurnInv
<1>2. CASE \E i \in Human : ShellStep(i)
  <2>1. PICK i \in Human : ShellStep(i)
    BY <1>2
  <2>2. UNCHANGED <<practice, canceled, finished, replay, phase>>
    BY <1>1, <2>1, ShellMoves DEF matchVars, controlVars
  <2>3. i \in Slot /\ shell \in [Slot -> {"open", "acting", "leaving", "closed"}]
    BY <1>1, Unfolded DEF AnswerInv, Human, Slot
  <2>4. gone' = gone \/ gone' = gone \cup {i}
    BY <2>1, <2>3 DEF gone, ShellStep, ActCheck, ActSend, Quit, ConnectionLost, CloseInput, ShellGoto
  <2>5. Promise!Leave(i) \/ UNCHANGED Promise!vars
    BY <2>2, <2>4 DEF Promise!Leave, Promise!vars, Human, over
  <2>6. QED
    BY <2>3, <2>5 DEF Promise!Next
<1>3. CASE \E i \in Human : ReaderStep(i)
  <2>1. PICK i \in Human : ReaderStep(i)
    BY <1>3
  <2>2. UNCHANGED <<practice, shell, canceled, phase, finished, replay>>
    BY <1>1, <2>1, ReaderMoves DEF controlVars
  <2>3. QED
    BY <2>2 DEF Promise!vars, Human, gone, over
<1>4. CASE ResolveTurn
  BY <1>4, ResolveIsPromised DEF Promise!Next
<1>5. CASE LoopOver
  <2>1. /\ UNCHANGED <<practice, shell, canceled, finished, replay>> /\ ~over /\ over'
        /\ finished \/ Len(replay) = MaxTurns \/ canceled
    BY <1>5 DEF LoopOver, Goto, playerVars, controlVars, over
  <2>2. Promise!End
    BY <2>1 DEF Promise!End, Human, gone, over
  <2>3. QED
    BY <2>2 DEF Promise!Next
<1>6. CASE AbandonTurn
  <2>1. /\ UNCHANGED <<practice, shell, canceled, finished, replay>> /\ ~over /\ over'
        /\ Len(results) = 2 /\ phase = "collect"
    BY <1>6 DEF AbandonTurn, Goto, playerVars, controlVars, over
  <2>2. PICK i \in Slot : StatusOf(i) = "canceled"
    BY <1>6 DEF AbandonTurn
  <2>3. canceled
    <3>1. PICK k \in 1..2 : StatusOf(i) = results[k].status
      BY <1>1, <2>1, BothAnswered
    <3>2. QED
      BY <2>1, <2>2, <3>1 DEF EndInv
  <2>4. Promise!End
    BY <2>1, <2>3 DEF Promise!End, Human, gone, over
  <2>5. QED
    BY <2>4 DEF Promise!Next
<1>7. CASE Emit
  <2>1. /\ UNCHANGED <<practice, shell, canceled, finished, replay>> /\ ~over
        /\ ~over' \/ (over' /\ canceled)
    BY <1>7 DEF Emit, Goto, playerVars, controlVars, over
  <2>2. Promise!End \/ UNCHANGED Promise!vars
    BY <2>1 DEF Promise!End, Promise!vars, Human, gone, over
  <2>3. QED
    BY <2>2 DEF Promise!Next
<1>8. CASE StartTurn \/ Finalize \/ Drain \/ Release
  <2>1. UNCHANGED <<practice, shell, canceled, finished, replay>> /\ over' = over
    BY <1>8 DEF StartTurn, Finalize, Drain, Release, Goto, playerVars, controlVars, over
  <2>2. QED
    BY <2>1 DEF Promise!vars, Human, gone
<1>9. CASE Cancel \/ UNCHANGED vars
  <2>1. /\ UNCHANGED <<practice, shell, phase, finished, replay>>
        /\ canceled' = TRUE \/ canceled' = canceled
    BY <1>9 DEF Cancel, vars, playerVars, matchVars, controlVars
  <2>2. Promise!Stop \/ UNCHANGED Promise!vars
    BY <2>1 DEF Promise!Stop, Promise!vars, Human, gone, over
  <2>3. QED
    BY <2>2 DEF Promise!Next
<1>10. QED
  BY <1>2, <1>3, <1>4, <1>5, <1>6, <1>7, <1>8, <1>9 DEF Next, MatchStep

\* docs/m4-replay-persistence.md, takeover policy: whatever order answers, timers, closing
\* channels and a stop come in, the players see turns that are taken at once (runMatch,
\* resolveTurnInput).
THEOREM PromiseKept == Spec => KeepsPromise
<1>1. Init => TurnInv /\ EndInv /\ Promise!Init
  BY TurnStarts, PromiseStarts
<1>2. TurnInv /\ EndInv /\ [Next]_vars => (TurnInv /\ EndInv)' /\ [Promise!Next]_(Promise!vars)
  BY TurnKept, EndKept, StepIsPromised
<1>3. QED
  BY <1>1, <1>2, PTL DEF Spec, KeepsPromise, Promise!Spec
==============================================================================
