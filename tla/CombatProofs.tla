---------------------------- MODULE CombatProofs ----------------------------
(***************************************************************************)
(* Theorems about Combat, for any attributes, any limits and any set of    *)
(* moves.  The turn is followed through its parts: what holds of the match *)
(* m on its way (MatchState, Stances, Earned) holds after each of them.    *)
(***************************************************************************)
EXTENDS Combat, TLAPS

MatchState == [fighter : [Fighter -> FighterState], combat : Position, outcome : Outcome]

\* A stunned fighter looks stunned, and whoever does not is where the match is.
Stances(m) ==
    \A f \in Fighter :
        /\ m.fighter[f].stunned > 0 => m.fighter[f].state = "Stunned"
        /\ m.fighter[f].state \in {"Stunned", m.combat}

\* OutcomeIsEarned on the way through a turn.
Earned(m) ==
    /\ \A f \in Fighter : m.fighter[f].hp = 0 <=> m.outcome = Won(Other(f), "KO")
    /\ m.outcome.method = "Submission" => m.combat = "SubmissionAttempt"

\* In the middle of a's move: the hit has not been judged yet.
Unjudged(m, a) ==
    /\ m.fighter[a].hp > 0
    /\ m.outcome \in {Undecided, Won(a, "Submission")}
    /\ m.outcome.method = "Submission" => m.combat = "SubmissionAttempt"

MatchInv(m) == m \in MatchState /\ Stances(m) /\ Earned(m)

----------------------------------------------------------------------------
\* There are two fighters, each the other's other.
LEMMA TwoFighters ==
    \A f \in Fighter : /\ Other(f) \in Fighter /\ Other(f) # f /\ Other(Other(f)) = f
                       /\ \A g \in Fighter : g = f \/ g = Other(f)
  <1>1. PICK o \in Fighter : Fighter = {First, o} /\ o # First
    BY CombatConstants
  <1>2. Other(First) = o /\ Other(o) = First
    BY <1>1 DEF Other
  <1> QED
    BY <1>1, <1>2

\* A decided match is not undecided.
LEMMA UndecidedIsNotWon ==
    ASSUME NEW f, NEW how \in {"KO", "Submission"}
    PROVE  Undecided # Won(f, how) /\ Won(f, how).method = how /\ Won(f, how).winner = f
  <1>1. Undecided.method = "none" /\ Won(f, how).method = how /\ Won(f, how).winner = f
    BY DEF Undecided, Won
  <1> QED
    BY <1>1

\* A clamped number is in the range it is clamped to.
LEMMA ClampInRange ==
    ASSUME NEW v \in Int, NEW low \in Int, NEW high \in Int, low <= high
    PROVE  Clamp(v, low, high) \in low..high
  BY DEF Clamp

\* Attributes are between 1 and 10.
LEMMA AttributesInRange ==
    ASSUME NEW f \in Fighter
    PROVE  Stats[f].power \in 1..10 /\ Stats[f].technique \in 1..10 /\ Stats[f].endurance \in 1..10
  BY CombatConstants DEF Attribute

\* A move costs nothing or more.
LEMMA CostIsNatural ==
    ASSUME NEW action \in Action, NEW f \in Fighter
    PROVE  Cost(action, f) \in Nat
  <1>1. BaseCost[action] \in Int
    BY DEF BaseCost, Action
  <1>2. BaseCost[action] * (100 - 3 * Stats[f].endurance) \in Int
    BY <1>1, AttributesInRange
  <1>3. (BaseCost[action] * (100 - 3 * Stats[f].endurance)) \div 100 \in Int
    BY <1>2
  <1> QED
    BY <1>3 DEF Cost, AtLeast

\* Damage and regeneration are whole numbers.
LEMMA DamageIsInteger ==
    ASSUME NEW action \in Action, NEW f \in Fighter, NEW momentum \in Int, NEW combo \in BOOLEAN
    PROVE  Damage(action, f, momentum, combo) \in Int
  <1>1. BaseDamage(action, f) \in Int
    BY AttributesInRange DEF BaseDamage, Action
  <1>2. BaseDamage(action, f) * (100 + momentum) \in Int
    BY <1>1
  <1>3. (BaseDamage(action, f) * (100 + momentum)) \div 100 \in Int
    BY <1>2
  <1> QED
    BY <1>3 DEF Damage

LEMMA RegenIsInteger ==
    ASSUME NEW f \in Fighter
    PROVE  Regen(f) \in Int /\ (80 * Regen(f)) \div 100 \in Int
  BY AttributesInRange DEF Regen

----------------------------------------------------------------------------
\* Paying for a move one can afford changes nothing but the stamina.
LEMMA PayKeeps ==
    ASSUME NEW m, MatchInv(m), NEW a \in Fighter, NEW move \in Moves,
           m.fighter[a].stamina >= Cost(move.action, a)
    PROVE  /\ MatchInv(Pay(m, a, move))
           /\ Pay(m, a, move).outcome = m.outcome
           /\ Pay(m, a, move).combat = m.combat
  <1> DEFINE c == Cost(move.action, a)
             x == [m.fighter[a] EXCEPT !.stamina = @ - c]
  <1>1. c \in Nat
    BY CostIsNatural, CombatConstants
  <1>2. m.fighter[a] \in FighterState /\ StaminaMax \in Nat
    BY CombatConstants DEF MatchInv, MatchState
  <1>3. m.fighter[a].stamina - c \in 0..StaminaMax
    BY <1>1, <1>2 DEF FighterState
  <1>4. x \in FighterState /\ x.hp = m.fighter[a].hp /\ x.stunned = m.fighter[a].stunned
                           /\ x.state = m.fighter[a].state
    BY <1>2, <1>3 DEF FighterState
  <1>5. Pay(m, a, move) = [m EXCEPT !.fighter = [m.fighter EXCEPT ![a] = x]]
    BY DEF Pay, MatchInv, MatchState
  <1> HIDE DEF c, x
  <1>6. Pay(m, a, move) \in MatchState
    BY <1>4, <1>5 DEF MatchInv, MatchState
  <1>7. \A f \in Fighter : Pay(m, a, move).fighter[f] = IF f = a THEN x ELSE m.fighter[f]
    BY <1>5 DEF MatchInv, MatchState
  <1>8. Pay(m, a, move).outcome = m.outcome /\ Pay(m, a, move).combat = m.combat
    BY <1>5 DEF MatchInv, MatchState
  <1>9. Stances(Pay(m, a, move)) /\ Earned(Pay(m, a, move))
    BY <1>4, <1>7, <1>8 DEF MatchInv, Stances, Earned
  <1> QED
    BY <1>6, <1>8, <1>9 DEF MatchInv

\* A success gains momentum and changes nothing but momentum, combo and hitAt.
LEMMA GainKeeps ==
    ASSUME NEW m, MatchInv(m), NEW a \in Fighter, NEW move \in Moves, turn \in Nat
    PROVE  /\ MatchInv(Gain(m, a, move))
           /\ Gain(m, a, move).outcome = m.outcome
           /\ Gain(m, a, move).combat = m.combat
           /\ \A f \in Fighter : f # a => Gain(m, a, move).fighter[f] = m.fighter[f]
           /\ Gain(m, a, move).fighter[a].hp = m.fighter[a].hp
  <1> DEFINE combo == Combo(m, a, move)
             x == [m.fighter[a] EXCEPT
                      !.momentum = Clamp(@ + (IF combo THEN 13 ELSE 8), 0, MomentumMax),
                      !.combo = combo,
                      !.hitAt = IF move.action \in Offensive THEN turn + 1 ELSE @]
  <1>1. combo \in BOOLEAN
    BY DEF Combo
  <1>2. m.fighter[a] \in FighterState /\ MomentumMax \in Nat
    BY CombatConstants DEF MatchInv, MatchState
  <1>3. Clamp(m.fighter[a].momentum + (IF combo THEN 13 ELSE 8), 0, MomentumMax) \in 0..MomentumMax
    <2> DEFINE v == m.fighter[a].momentum + (IF combo THEN 13 ELSE 8)
    <2>1. v \in Int
      BY <1>2 DEF FighterState
    <2>2. 0 \in Int /\ MomentumMax \in Int /\ 0 <= MomentumMax
      BY <1>2
    <2> HIDE DEF v
    <2>3. Clamp(v, 0, MomentumMax) \in 0..MomentumMax
      BY <2>1, <2>2, ClampInRange, Zenon
    <2> QED
      BY <2>3 DEF v
  <1>4. (IF move.action \in Offensive THEN turn + 1 ELSE m.fighter[a].hitAt) \in Nat
    BY <1>2 DEF FighterState
  <1>5. x \in FighterState /\ x.hp = m.fighter[a].hp /\ x.stunned = m.fighter[a].stunned
                           /\ x.state = m.fighter[a].state
    BY <1>1, <1>2, <1>3, <1>4 DEF FighterState
  <1>6. Gain(m, a, move) = [m EXCEPT !.fighter = [m.fighter EXCEPT ![a] = x]]
    BY DEF Gain, MatchInv, MatchState
  <1> HIDE DEF combo, x
  <1>7. Gain(m, a, move) \in MatchState
    BY <1>5, <1>6 DEF MatchInv, MatchState
  <1>8. \A f \in Fighter : Gain(m, a, move).fighter[f] = IF f = a THEN x ELSE m.fighter[f]
    BY <1>6 DEF MatchInv, MatchState
  <1>9. Gain(m, a, move).outcome = m.outcome /\ Gain(m, a, move).combat = m.combat
    BY <1>6 DEF MatchInv, MatchState
  <1>10. Stances(Gain(m, a, move)) /\ Earned(Gain(m, a, move))
    BY <1>5, <1>8, <1>9 DEF MatchInv, Stances, Earned
  <1> QED
    BY <1>5, <1>7, <1>8, <1>9, <1>10 DEF MatchInv

\* A hit keeps the one who is hit in his ranges, and harms nothing but him.
LEMMA HurtKeeps ==
    ASSUME NEW f \in FighterState, NEW a \in Fighter, NEW move \in Moves, turn \in Nat,
           NEW momentum \in Int, NEW combo \in BOOLEAN
    PROVE  LET x == Hurt(f, a, move, momentum, combo)
           IN  x \in FighterState /\ x.stunned = f.stunned /\ x.state = f.state
  <1>1. Damage(move.action, a, momentum, combo) \in Int
    BY DamageIsInteger, CombatConstants
  <1>2. HPMax \in Int /\ 0 <= HPMax /\ MomentumMax \in Int /\ 0 <= MomentumMax /\ 0 \in Int
    BY CombatConstants
  <1>3. f.hp - Damage(move.action, a, momentum, combo) \in Int /\ f.momentum - 6 \in Int
    BY <1>1 DEF FighterState
  <1>4. Clamp(f.hp - Damage(move.action, a, momentum, combo), 0, HPMax) \in 0..HPMax
    BY <1>2, <1>3, ClampInRange, Zenon
  <1>5. Clamp(f.momentum - 6, 0, MomentumMax) \in 0..MomentumMax
    BY <1>2, <1>3, ClampInRange, Zenon
  <1>6. [z \in Debuff |-> IF z = move.zone THEN AtLeast(f.penalty[z], 2) ELSE f.penalty[z]]
            \in [Debuff -> 0..2]
    BY DEF FighterState, AtLeast
  <1>7. [z \in Debuff |-> IF z = move.zone THEN turn + 1 ELSE f.hitOn[z]] \in [Debuff -> Nat]
    BY DEF FighterState
  <1> QED
    BY <1>4, <1>5, <1>6, <1>7 DEF Hurt, FighterState

\* After the hit the match is undecided, whoever is out of hit points.
LEMMA StruckKeeps ==
    ASSUME NEW m, MatchInv(m), m.outcome = Undecided, NEW a \in Fighter, NEW move \in Moves,
           NEW luck \in Luck, turn \in Nat
    PROVE  LET n == Struck(m, a, move, luck)
           IN  /\ n \in MatchState /\ Stances(n) /\ Unjudged(n, a)
               /\ n.outcome = Undecided
  <1> DEFINE gained == Gain(m, a, move)
             d == Other(a)
             hurt == Hurt(m.fighter[d], a, move, m.fighter[a].momentum, gained.fighter[a].combo)
             stunned == /\ luck.stun
                        /\ StunChance(move.zone, hurt, gained.fighter[a].momentum - hurt.momentum) > 0
             x == IF stunned THEN [hurt EXCEPT !.stunned = AtLeast(@, 1), !.state = "Stunned"] ELSE hurt
  <1>1. d \in Fighter /\ d # a
    BY TwoFighters
  <1>2. /\ MatchInv(gained) /\ gained.outcome = Undecided /\ gained.combat = m.combat
        /\ gained.fighter[d] = m.fighter[d] /\ gained.fighter[a].hp = m.fighter[a].hp
    BY GainKeeps, <1>1
  <1> HIDE DEF gained
  <1>3. gained.fighter[a].combo \in BOOLEAN /\ m.fighter[d] \in FighterState
        /\ m.fighter[a].momentum \in Int
    <2>1. gained.fighter[a] \in FighterState /\ m.fighter[a] \in FighterState
          /\ m.fighter[d] \in FighterState
      BY <1>1, <1>2 DEF MatchInv, MatchState
    <2> QED
      BY <2>1 DEF FighterState
  <1>4. hurt \in FighterState /\ hurt.stunned = m.fighter[d].stunned /\ hurt.state = m.fighter[d].state
    BY <1>3, HurtKeeps
  <1> HIDE DEF hurt, stunned
  <1>5. /\ x \in FighterState
        /\ x.stunned > 0 => x.state = "Stunned"
        /\ x.state \in {"Stunned", m.combat}
    <2>1. hurt.stunned > 0 => hurt.state = "Stunned"
      BY <1>1, <1>4 DEF MatchInv, Stances
    <2>2. hurt.state \in {"Stunned", m.combat}
      BY <1>1, <1>4 DEF MatchInv, Stances
    <2>3. CASE stunned
      <3>1. AtLeast(hurt.stunned, 1) \in 0..1
        BY <1>4 DEF FighterState, AtLeast
      <3>2. x = [hurt EXCEPT !.stunned = AtLeast(@, 1), !.state = "Stunned"]
        BY <2>3
      <3> QED
        BY <1>4, <3>1, <3>2 DEF FighterState
    <2>4. CASE ~stunned
      BY <1>4, <2>1, <2>2, <2>4
    <2> QED
      BY <2>3, <2>4
  <1>6. Struck(m, a, move, luck) = [gained EXCEPT !.fighter[d] = x]
    BY DEF Struck, gained, hurt, stunned
  <1> HIDE DEF x, d
  <1>7. Struck(m, a, move, luck) \in MatchState
    BY <1>1, <1>2, <1>5, <1>6 DEF MatchInv, MatchState
  <1>8. \A f \in Fighter : Struck(m, a, move, luck).fighter[f] =
                                IF f = d THEN x ELSE gained.fighter[f]
    BY <1>2, <1>6 DEF MatchInv, MatchState
  <1>9. Struck(m, a, move, luck).outcome = Undecided /\ Struck(m, a, move, luck).combat = m.combat
    BY <1>2, <1>6 DEF MatchInv, MatchState
  <1>10. Stances(Struck(m, a, move, luck))
    BY <1>2, <1>5, <1>8, <1>9 DEF MatchInv, Stances
  <1>11. m.fighter[a].hp > 0
    <2>1. m.fighter[a].hp # 0
      BY UndecidedIsNotWon DEF MatchInv, Earned
    <2>2. m.fighter[a] \in FighterState
      BY DEF MatchInv, MatchState
    <2> QED
      BY <2>1, <2>2 DEF FighterState
  <1>12. Unjudged(Struck(m, a, move, luck), a)
    BY <1>1, <1>2, <1>8, <1>9, <1>11 DEF Unjudged, Undecided
  <1> QED
    BY <1>7, <1>9, <1>10, <1>12

\* A grapple moves both fighters to the next position, except whoever is stunned.
LEMMA GrappledKeeps ==
    ASSUME NEW m, m \in MatchState, Stances(m), NEW a \in Fighter, Unjudged(m, a),
           NEW luck \in Luck
    PROVE  LET n == Grappled(m, a, luck)
           IN  n \in MatchState /\ Stances(n) /\ Unjudged(n, a)
  <1> DEFINE n == Grappled(m, a, luck)
             position == Above[m.combat]
  <1>1. position \in Position /\ position # "Neutral"
    BY DEF Above, Position, MatchState
  <1>2. n.combat = position /\ n.outcome = IF position = "SubmissionAttempt" /\ luck.submission
                                          THEN Won(a, "Submission") ELSE m.outcome
    BY DEF Grappled
  <1>3. \A f \in Fighter : n.fighter[f] =
            IF position = m.combat THEN m.fighter[f] ELSE Takes(m.fighter[f], position)
    BY DEF Grappled
  <1>4. \A f \in Fighter : /\ n.fighter[f] \in FighterState
                           /\ n.fighter[f].hp = m.fighter[f].hp
                           /\ n.fighter[f].stunned = m.fighter[f].stunned
                           /\ n.fighter[f].state = IF m.fighter[f].state = "Stunned"
                                                   THEN "Stunned" ELSE position
    <2> SUFFICES ASSUME NEW f \in Fighter
                 PROVE  /\ n.fighter[f] \in FighterState
                        /\ n.fighter[f].hp = m.fighter[f].hp
                        /\ n.fighter[f].stunned = m.fighter[f].stunned
                        /\ n.fighter[f].state = IF m.fighter[f].state = "Stunned"
                                                THEN "Stunned" ELSE position
      OBVIOUS
    <2>1. m.fighter[f] \in FighterState /\ m.fighter[f].state \in {"Stunned", m.combat}
      BY DEF MatchState, Stances
    <2> HIDE DEF position, n
    <2>2. /\ Takes(m.fighter[f], position) \in FighterState
          /\ Takes(m.fighter[f], position).hp = m.fighter[f].hp
          /\ Takes(m.fighter[f], position).stunned = m.fighter[f].stunned
          /\ Takes(m.fighter[f], position).state = IF m.fighter[f].state = "Stunned"
                                                   THEN "Stunned" ELSE position
      BY <1>1, <2>1 DEF Takes, FighterState
    <2> QED
      BY <1>3, <2>1, <2>2
  <1>5. n.outcome \in {Undecided, Won(a, "Submission")} /\ n.outcome \in Outcome
    BY <1>2 DEF Unjudged, Outcome
  <1>6. n.outcome.method = "Submission" => n.combat = "SubmissionAttempt"
    BY <1>2, UndecidedIsNotWon DEF Unjudged, Above, Undecided
  <1>7. n \in MatchState
    <2>1. n = [fighter |-> n.fighter, combat |-> n.combat, outcome |-> n.outcome]
      BY DEF Grappled
    <2>2. n.fighter \in [Fighter -> FighterState]
      BY <1>4 DEF Grappled
    <2> HIDE DEF n, position
    <2> QED
      BY <1>1, <1>2, <1>5, <2>1, <2>2 DEF MatchState
  <1>8. Stances(n)
    BY <1>2, <1>4 DEF Stances
  <1> QED
    BY <1>4, <1>5, <1>6, <1>7, <1>8 DEF Unjudged

\* The judgement: a knockout exactly if the other one has no hit points left.
LEMMA KnockedOutKeeps ==
    ASSUME NEW m, m \in MatchState, Stances(m), NEW a \in Fighter, Unjudged(m, a)
    PROVE  MatchInv(KnockedOut(m, a))
  <1> DEFINE n == KnockedOut(m, a)
             d == Other(a)
  <1>1. d \in Fighter /\ d # a /\ Other(d) = a /\ (\A f \in Fighter : f = a \/ f = d)
    BY TwoFighters
  <1>2. CASE m.fighter[d].hp = 0
    <2>1. n = [m EXCEPT !.outcome = Won(a, "KO")]
      BY <1>2 DEF KnockedOut
    <2>2. n.fighter = m.fighter /\ n.combat = m.combat /\ n.outcome = Won(a, "KO")
      BY <2>1 DEF MatchState
    <2>3. Won(a, "KO") \in Outcome
      BY DEF Outcome
    <2>4. n \in MatchState
      BY <2>1, <2>3 DEF MatchState
    <2>5. Won(d, "KO") # Won(a, "KO") /\ Won(a, "KO").method # "Submission"
      BY <1>1, UndecidedIsNotWon
    <2>6. Earned(n)
      BY <1>1, <1>2, <2>2, <2>5 DEF Earned, Unjudged
    <2> QED
      BY <2>2, <2>4, <2>6 DEF MatchInv, Stances
  <1>3. CASE m.fighter[d].hp # 0
    <2>1. n = m
      BY <1>3 DEF KnockedOut
    <2>2. \A f \in Fighter : m.outcome # Won(f, "KO")
      BY UndecidedIsNotWon DEF Unjudged
    <2>3. Earned(m)
      BY <1>1, <1>3, <2>2 DEF Earned, Unjudged
    <2> QED
      BY <2>1, <2>3 DEF MatchInv
  <1> QED
    BY <1>2, <1>3

\* A break takes both fighters back, except whoever is stunned.
LEMMA BrokenKeeps ==
    ASSUME NEW m, MatchInv(m), m.outcome = Undecided
    PROVE  MatchInv(Broken(m))
  <1> DEFINE n == Broken(m)
  <1>1. /\ n.combat = "Neutral" /\ n.outcome = Undecided
        /\ n.fighter = [f \in Fighter |-> Takes(m.fighter[f], "Neutral")]
    BY DEF Broken, MatchInv, MatchState
  <1>2. \A f \in Fighter : /\ n.fighter[f] \in FighterState
                           /\ n.fighter[f].hp = m.fighter[f].hp
                           /\ n.fighter[f].stunned = m.fighter[f].stunned
                           /\ n.fighter[f].state = IF m.fighter[f].state = "Stunned"
                                                   THEN "Stunned" ELSE "Neutral"
    <2> SUFFICES ASSUME NEW f \in Fighter
                 PROVE  LET x == Takes(m.fighter[f], "Neutral")
                        IN  /\ x \in FighterState
                            /\ x.hp = m.fighter[f].hp /\ x.stunned = m.fighter[f].stunned
                            /\ x.state = IF m.fighter[f].state = "Stunned"
                                         THEN "Stunned" ELSE "Neutral"
      BY <1>1
    <2>1. m.fighter[f] \in FighterState
      BY DEF MatchInv, MatchState
    <2> QED
      BY <2>1 DEF Takes, FighterState, Position
  <1>3. n \in MatchState
    BY <1>1, <1>2 DEF Broken, MatchInv, MatchState, Position
  <1>4. Stances(n)
    BY <1>1, <1>2 DEF MatchInv, Stances
  <1>5. Earned(n)
    BY <1>1, <1>2, UndecidedIsNotWon DEF MatchInv, Earned, Undecided
  <1> QED
    BY <1>3, <1>4, <1>5 DEF MatchInv

\* One fighter's move, whatever it is and however the draws come out.
LEMMA ActKeeps ==
    ASSUME NEW m, MatchInv(m), NEW a \in Fighter, NEW move \in Moves, NEW luck \in Luck,
           turn \in Nat
    PROVE  MatchInv(Act(m, a, move, luck))
  <1> DEFINE paid == Pay(m, a, move)
  <1>1. CASE ~Acts(m, a, move)
    BY <1>1 DEF Act
  <1>2. CASE Acts(m, a, move)
    <2>1. MatchInv(paid) /\ paid.outcome = Undecided
      BY <1>2, PayKeeps DEF Acts
    <2> HIDE DEF paid
    <2>2. CASE move.action = "none" \/ ~luck.hit
      BY <1>2, <2>1, <2>2 DEF Act, paid
    <2>3. CASE ~(move.action = "none" \/ ~luck.hit)
      <3>1. Act(m, a, move, luck) = Succeed(paid, a, move, luck)
        BY <1>2, <2>3 DEF Act, paid
      <3>2. /\ Struck(paid, a, move, luck) \in MatchState
            /\ Stances(Struck(paid, a, move, luck))
            /\ Unjudged(Struck(paid, a, move, luck), a)
        BY <2>1, StruckKeeps
      <3>3. MatchInv(KnockedOut(Struck(paid, a, move, luck), a))
        BY <3>2, KnockedOutKeeps
      <3>4. MatchInv(KnockedOut(Grappled(Struck(paid, a, move, luck), a, luck), a))
        BY <3>2, GrappledKeeps, KnockedOutKeeps
      <3>5. MatchInv(Gain(paid, a, move)) /\ MatchInv(Broken(Gain(paid, a, move)))
        BY <2>1, GainKeeps, BrokenKeeps
      <3>6. MatchInv(Succeed(paid, a, move, luck))
        <4>1. CASE move.action \in {"strike", "counter"}
          BY <3>3, <4>1 DEF Succeed
        <4>2. CASE move.action = "grapple"
          BY <3>4, <4>2 DEF Succeed
        <4>3. CASE move.action = "break"
          BY <3>5, <4>3 DEF Succeed
        <4>4. CASE move.action \notin {"strike", "counter", "grapple", "break"}
          BY <3>5, <4>4 DEF Succeed
        <4> QED
          BY <4>1, <4>2, <4>3, <4>4
      <3> QED
        BY <3>1, <3>6
    <2> QED
      BY <2>2, <2>3
  <1> QED
    BY <1>1, <1>2

----------------------------------------------------------------------------
\* The three invariants are inductive together: who still stands at the start of
\* a turn needs the second, what a grapple does to a stunned fighter the first.
CombatInv == TypeOK /\ StanceFollowsMatch /\ OutcomeIsEarned

\* Two fresh fighters.
LEMMA CombatInit == Init => CombatInv
  <1> SUFFICES ASSUME Init PROVE CombatInv
    OBVIOUS
  <1>1. NewFighter \in FighterState
    BY CombatConstants DEF NewFighter, FighterState, Position
  <1>2. TypeOK
    BY <1>1 DEF Init, TypeOK, Outcome, Position
  <1>3. StanceFollowsMatch
    <2>1. NewFighter.state = "Neutral" /\ NewFighter.stunned = 0
      BY DEF NewFighter
    <2>2. \A f \in Fighter : fighter[f] = NewFighter
      BY DEF Init
    <2>3. combat = "Neutral" /\ ~(0 > 0)
      BY DEF Init
    <2>4. \A f \in Fighter : fighter[f].state = "Neutral" /\ fighter[f].stunned = 0
      BY <2>1, <2>2
    <2> QED
      BY <2>3, <2>4 DEF StanceFollowsMatch
  <1>4. OutcomeIsEarned
    <2>1. \A f \in Fighter : fighter[f].hp # 0
      BY CombatConstants DEF Init, NewFighter
    <2> QED
      BY <2>1, UndecidedIsNotWon DEF Init, OutcomeIsEarned, Undecided
  <1> QED
    BY <1>2, <1>3, <1>4 DEF CombatInv

\* Counting the effects down leaves the rest of the match as it was.
LEMMA PreparedKeeps ==
    ASSUME CombatInv
    PROVE  MatchInv([fighter |-> [f \in Fighter |-> Prepared(fighter[f])],
                     combat |-> combat, outcome |-> outcome])
  <1> DEFINE m == [fighter |-> [f \in Fighter |-> Prepared(fighter[f])],
                   combat |-> combat, outcome |-> outcome]
  <1>1. \A f \in Fighter : /\ Prepared(fighter[f]) \in FighterState
                           /\ Prepared(fighter[f]).hp = fighter[f].hp
                           /\ Prepared(fighter[f]).state = fighter[f].state
                           /\ Prepared(fighter[f]).stunned <= fighter[f].stunned
    <2> SUFFICES ASSUME NEW f \in Fighter
                 PROVE  /\ Prepared(fighter[f]) \in FighterState
                        /\ Prepared(fighter[f]).hp = fighter[f].hp
                        /\ Prepared(fighter[f]).state = fighter[f].state
                        /\ Prepared(fighter[f]).stunned <= fighter[f].stunned
      OBVIOUS
    <2>1. fighter[f] \in FighterState
      BY DEF CombatInv, TypeOK
    <2>2. Down(fighter[f].stunned) \in 0..1 /\ Down(fighter[f].stunned) <= fighter[f].stunned
      BY <2>1 DEF FighterState, Down
    <2>3. [z \in Debuff |-> Down(fighter[f].penalty[z])] \in [Debuff -> 0..2]
      BY <2>1 DEF FighterState, Down
    <2> QED
      BY <2>1, <2>2, <2>3 DEF Prepared, FighterState
  <1>2. m \in MatchState
    BY <1>1 DEF MatchState, CombatInv, TypeOK
  <1>3. Stances(m)
    <2> SUFFICES ASSUME NEW f \in Fighter
                 PROVE  /\ Prepared(fighter[f]).stunned > 0 => fighter[f].state = "Stunned"
                        /\ fighter[f].state \in {"Stunned", combat}
      BY <1>1 DEF Stances
    <2>1. fighter[f].state = IF fighter[f].stunned > 0 THEN "Stunned" ELSE combat
      BY DEF CombatInv, StanceFollowsMatch
    <2>2. fighter[f].stunned \in Nat /\ Prepared(fighter[f]).stunned \in Nat
      BY <1>1 DEF CombatInv, TypeOK, FighterState
    <2> QED
      BY <1>1, <2>1, <2>2
  <1>4. Earned(m)
    BY <1>1 DEF CombatInv, OutcomeIsEarned, Earned
  <1> QED
    BY <1>2, <1>3, <1>4 DEF MatchInv

\* The end of the turn: regeneration, and stuns that are over.
LEMMA RestedKeeps ==
    ASSUME NEW m, MatchInv(m), NEW f \in Fighter
    PROVE  /\ Rested(m, f) \in FighterState
           /\ Rested(m, f).hp = m.fighter[f].hp
           /\ Rested(m, f).state = IF Rested(m, f).stunned > 0 THEN "Stunned" ELSE m.combat
  <1> DEFINE regen == IF fighter[f].penalty["torso"] > 0 THEN (80 * Regen(f)) \div 100 ELSE Regen(f)
             x == m.fighter[f]
             v == x.stamina + regen
             s == IF x.state = "Stunned" /\ x.stunned = 0 THEN m.combat ELSE x.state
  <1>1. x \in FighterState /\ m.combat \in Position
    BY DEF MatchInv, MatchState
  <1>2. v \in Int
    BY <1>1, RegenIsInteger DEF FighterState
  <1>3. 0 \in Int /\ StaminaMax \in Int /\ 0 <= StaminaMax
    BY CombatConstants
  <1>4. Rested(m, f) = [x EXCEPT !.stamina = Clamp(v, 0, StaminaMax), !.state = s]
    BY <1>1 DEF Rested, FighterState
  <1> HIDE DEF v
  <1>5. Clamp(v, 0, StaminaMax) \in 0..StaminaMax
    BY <1>2, <1>3, ClampInRange, Zenon
  <1>6. s = IF x.stunned > 0 THEN "Stunned" ELSE m.combat
    <2>1. (x.stunned > 0 => x.state = "Stunned") /\ x.state \in {"Stunned", m.combat}
      BY DEF MatchInv, Stances
    <2>2. x.stunned \in 0..1
      BY <1>1 DEF FighterState
    <2> QED
      BY <2>1, <2>2
  <1>7. s \in Position \cup {"Stunned"}
    BY <1>1, <1>6
  <1> HIDE DEF s, x
  <1> QED
    BY <1>1, <1>4, <1>5, <1>6, <1>7 DEF FighterState, x

\* A turn.
LEMMA CombatStep == CombatInv /\ [Next]_vars => CombatInv'
  <1> SUFFICES ASSUME CombatInv, [Next]_vars PROVE CombatInv'
    OBVIOUS
  <1>1. CASE Next
    <2>1. PICK in \in [Fighter -> Moves], luck \in [Fighter -> Luck] : ResolveTurn(in, luck)
      BY <1>1 DEF Next
    <2> DEFINE m0 == [fighter |-> [f \in Fighter |-> Prepared(fighter[f])],
                      combat |-> combat, outcome |-> outcome]
               second == Other(First)
               m == Resolved(in, luck)
    <2>2. turn \in Nat /\ First \in Fighter /\ second \in Fighter
      BY CombatConstants, TwoFighters DEF CombatInv, TypeOK
    <2>3. MatchInv(m0)
      BY PreparedKeeps
    <2>4. MatchInv(m)
      <3> HIDE DEF m0, second
      <3>1. MatchInv(Act(m0, First, in[First], luck[First]))
        BY <2>2, <2>3, ActKeeps
      <3>2. MatchInv(Act(Act(m0, First, in[First], luck[First]), second, in[second], luck[second]))
        BY <2>2, <3>1, ActKeeps
      <3> QED
        BY <3>2 DEF Resolved, m0, second
    <2> HIDE DEF m
    <2>5. /\ turn' = turn + 1 /\ combat' = m.combat /\ outcome' = m.outcome
          /\ fighter' = [f \in Fighter |-> Rested(m, f)]
      BY <2>1 DEF ResolveTurn, m
    <2>6. TypeOK'
      BY <2>2, <2>4, <2>5, RestedKeeps DEF TypeOK, MatchInv, MatchState
    <2>7. StanceFollowsMatch'
      BY <2>4, <2>5, RestedKeeps DEF StanceFollowsMatch
    <2>8. OutcomeIsEarned'
      BY <2>4, <2>5, RestedKeeps DEF OutcomeIsEarned, Earned, MatchInv
    <2> QED
      BY <2>6, <2>7, <2>8 DEF CombatInv
  <1>2. CASE UNCHANGED vars
    BY <1>2 DEF vars, CombatInv, TypeOK, StanceFollowsMatch, OutcomeIsEarned
  <1> QED
    BY <1>1, <1>2

\* For any attributes and any sequence of inputs and draws: hit points, stamina,
\* momentum and effects stay in their ranges (the clamps of resolver.go).
THEOREM ResourcesInRange == Spec => []TypeOK
  <1>1. CombatInv => TypeOK
    BY DEF CombatInv
  <1> QED
    BY CombatInit, CombatStep, <1>1, PTL DEF Spec

\* No grapple, break or stun leaves a fighter in another position than the match's
\* (applyGrappleTransition and the end of ResolveTurn).
THEOREM StancesAgree == Spec => []StanceFollowsMatch
  <1>1. CombatInv => StanceFollowsMatch
    BY DEF CombatInv
  <1> QED
    BY CombatInit, CombatStep, <1>1, PTL DEF Spec

\* A match is won by a knockout exactly when the other has no hit points left, and
\* by submission only out of a submission attempt (ResolveTurn).
THEOREM WinsAreEarned == Spec => []OutcomeIsEarned
  <1>1. CombatInv => OutcomeIsEarned
    BY DEF CombatInv
  <1> QED
    BY CombatInit, CombatStep, <1>1, PTL DEF Spec

----------------------------------------------------------------------------
(* When effects are felt.                                                   *)

\* What is left of a penalty, after turn t, from a hit in turn hit (0: no hit yet).
Left(hit, t) == IF hit = 0 THEN 0 ELSE AtLeast(hit + 2 - t, 0)

Timed(m, t) ==
    \A f \in Fighter, z \in Debuff :
        /\ m.fighter[f].hitOn[z] <= t
        /\ m.fighter[f].penalty[z] = Left(m.fighter[f].hitOn[z], t)

\* From m to n nobody is hit, and the other of a does nothing.
Quiet(m, n, a) ==
    /\ \A f \in Fighter : /\ n.fighter[f].hp = m.fighter[f].hp
                          /\ n.fighter[f].hitOn = m.fighter[f].hitOn
                          /\ n.fighter[f].penalty = m.fighter[f].penalty
    /\ n.fighter[Other(a)].stamina = m.fighter[Other(a)].stamina
    /\ n.fighter[Other(a)].momentum = m.fighter[Other(a)].momentum

\* From m to n only a acts: he is not hurt, and the other neither pays nor gains.
ActsAlone(m, n, a) ==
    /\ n.fighter[a].hp = m.fighter[a].hp
    /\ n.fighter[Other(a)].stamina = m.fighter[Other(a)].stamina
    /\ n.fighter[Other(a)].momentum <= m.fighter[Other(a)].momentum

\* Everything but a hit is quiet.
LEMMA QuietParts ==
    ASSUME NEW m, m \in MatchState, NEW a \in Fighter, NEW move \in Moves, NEW luck \in Luck
    PROVE  /\ Quiet(m, Pay(m, a, move), a)
           /\ Quiet(m, Gain(m, a, move), a)
           /\ Quiet(m, Grappled(m, a, luck), a)
           /\ Quiet(m, KnockedOut(m, a), a)
           /\ Quiet(m, Broken(m), a)
  <1>1. Other(a) \in Fighter /\ Other(a) # a
    BY TwoFighters
  <1>2. \A f \in Fighter : m.fighter[f] \in FighterState
    BY DEF MatchState
  <1>3. Quiet(m, Pay(m, a, move), a)
    <2>1. \A f \in Fighter : Pay(m, a, move).fighter[f] =
              IF f = a THEN [m.fighter[a] EXCEPT !.stamina = @ - Cost(move.action, a)]
                       ELSE m.fighter[f]
      BY DEF Pay, MatchState
    <2> QED
      BY <1>1, <1>2, <2>1 DEF Quiet, FighterState
  <1>4. Quiet(m, Gain(m, a, move), a)
    <2> DEFINE x == [m.fighter[a] EXCEPT
                        !.momentum = Clamp(@ + (IF Combo(m, a, move) THEN 13 ELSE 8), 0, MomentumMax),
                        !.combo = Combo(m, a, move),
                        !.hitAt = IF move.action \in Offensive THEN turn + 1 ELSE @]
    <2>1. \A f \in Fighter : Gain(m, a, move).fighter[f] = IF f = a THEN x ELSE m.fighter[f]
      BY DEF Gain, MatchState
    <2>2. x.hp = m.fighter[a].hp /\ x.hitOn = m.fighter[a].hitOn /\ x.penalty = m.fighter[a].penalty
      BY <1>2 DEF FighterState
    <2> HIDE DEF x
    <2> QED
      BY <1>1, <2>1, <2>2 DEF Quiet
  <1>5. \A f \in Fighter : \A position :
            LET x == Takes(m.fighter[f], position)
            IN  /\ x.hp = m.fighter[f].hp /\ x.hitOn = m.fighter[f].hitOn
                /\ x.penalty = m.fighter[f].penalty /\ x.stamina = m.fighter[f].stamina
                /\ x.momentum = m.fighter[f].momentum
    BY <1>2 DEF Takes, FighterState
  <1>6. Quiet(m, Grappled(m, a, luck), a)
    <2>1. \A f \in Fighter : Grappled(m, a, luck).fighter[f]
                                \in {m.fighter[f], Takes(m.fighter[f], Above[m.combat])}
      BY DEF Grappled
    <2> QED
      BY <1>1, <1>5, <2>1 DEF Quiet
  <1>7. Quiet(m, KnockedOut(m, a), a)
    <2>1. KnockedOut(m, a).fighter = m.fighter
      BY DEF KnockedOut, MatchState
    <2> QED
      BY <2>1 DEF Quiet
  <1>8. Quiet(m, Broken(m), a)
    <2>1. \A f \in Fighter : Broken(m).fighter[f] = Takes(m.fighter[f], "Neutral")
      BY DEF Broken, MatchState
    <2> QED
      BY <1>1, <1>5, <2>1 DEF Quiet
  <1> QED
    BY <1>3, <1>4, <1>6, <1>7, <1>8

\* What is quiet leaves the penalties to the clock.
LEMMA QuietIsTimed ==
    ASSUME NEW m, NEW n, NEW a \in Fighter, NEW t, Quiet(m, n, a), Timed(m, t)
    PROVE  Timed(n, t)
  BY DEF Quiet, Timed

\* A hit renews the penalty of its zone, and only that.
LEMMA StruckTiming ==
    ASSUME NEW m, MatchInv(m), Timed(m, turn + 1), NEW a \in Fighter, NEW move \in Moves,
           NEW luck \in Luck, turn \in Nat
    PROVE  /\ Timed(Struck(m, a, move, luck), turn + 1)
           /\ ActsAlone(m, Struck(m, a, move, luck), a)
  <1> DEFINE gained == Gain(m, a, move)
             d == Other(a)
             hurt == Hurt(m.fighter[d], a, move, m.fighter[a].momentum, gained.fighter[a].combo)
             stunned == /\ luck.stun
                        /\ StunChance(move.zone, hurt, gained.fighter[a].momentum - hurt.momentum) > 0
             x == IF stunned THEN [hurt EXCEPT !.stunned = AtLeast(@, 1), !.state = "Stunned"] ELSE hurt
             n == Struck(m, a, move, luck)
  <1>1. d \in Fighter /\ d # a
    BY TwoFighters
  <1>2. m \in MatchState /\ MatchInv(gained) /\ gained \in MatchState
    BY GainKeeps DEF MatchInv
  <1>3. Quiet(m, gained, a) /\ Timed(gained, turn + 1)
    BY <1>2, QuietParts, QuietIsTimed
  <1> HIDE DEF gained
  <1>4. m.fighter[d] \in FighterState /\ m.fighter[a].momentum \in Int
        /\ gained.fighter[a].combo \in BOOLEAN
    <2>1. m.fighter[a] \in FighterState /\ m.fighter[d] \in FighterState
          /\ gained.fighter[a] \in FighterState
      BY <1>1, <1>2 DEF MatchState
    <2> QED
      BY <2>1 DEF FighterState
  <1>5. hurt \in FighterState
    BY <1>4, HurtKeeps
  <1>6. hurt.stamina = m.fighter[d].stamina /\ hurt.momentum <= m.fighter[d].momentum
    <2>1. hurt.momentum = Clamp(m.fighter[d].momentum - 6, 0, MomentumMax)
          /\ hurt.stamina = m.fighter[d].stamina
      BY <1>4 DEF Hurt, FighterState
    <2>2. m.fighter[d].momentum \in 0..MomentumMax /\ MomentumMax \in Nat
      BY <1>4, CombatConstants DEF FighterState
    <2> QED
      BY <2>1, <2>2 DEF Clamp
  <1>7. \A z \in Debuff : /\ hurt.hitOn[z] <= turn + 1
                          /\ hurt.penalty[z] = Left(hurt.hitOn[z], turn + 1)
    <2> SUFFICES ASSUME NEW z \in Debuff
                 PROVE  /\ hurt.hitOn[z] <= turn + 1
                        /\ hurt.penalty[z] = Left(hurt.hitOn[z], turn + 1)
      OBVIOUS
    <2>1. /\ hurt.hitOn[z] = IF z = move.zone THEN turn + 1 ELSE m.fighter[d].hitOn[z]
          /\ hurt.penalty[z] = IF z = move.zone THEN AtLeast(m.fighter[d].penalty[z], 2)
                                                ELSE m.fighter[d].penalty[z]
      BY <1>4 DEF Hurt, FighterState
    <2>2. /\ m.fighter[d].penalty[z] \in 0..2 /\ m.fighter[d].hitOn[z] <= turn + 1
          /\ m.fighter[d].penalty[z] = Left(m.fighter[d].hitOn[z], turn + 1)
      BY <1>1, <1>4 DEF Timed, FighterState
    <2>3. AtLeast(m.fighter[d].penalty[z], 2) = 2 /\ Left(turn + 1, turn + 1) = 2
      BY <2>2 DEF AtLeast, Left
    <2> QED
      BY <2>1, <2>2, <2>3
  <1>8. /\ x.hp = hurt.hp /\ x.hitOn = hurt.hitOn /\ x.penalty = hurt.penalty
        /\ x.stamina = hurt.stamina /\ x.momentum = hurt.momentum
    BY <1>5 DEF FighterState
  <1>9. n = [gained EXCEPT !.fighter[d] = x]
    BY DEF Struck, gained
  <1> HIDE DEF x, hurt, d, n
  <1>10. \A f \in Fighter : n.fighter[f] = IF f = d THEN x ELSE gained.fighter[f]
    BY <1>1, <1>2, <1>9 DEF MatchState
  <1>11. Timed(n, turn + 1)
    BY <1>3, <1>7, <1>8, <1>10 DEF Timed
  <1>12. ActsAlone(m, n, a)
    BY <1>1, <1>3, <1>6, <1>8, <1>10 DEF ActsAlone, Quiet, d
  <1> QED
    BY <1>11, <1>12 DEF n

\* One fighter's move, seen by the clock and by the other.
LEMMA ActTiming ==
    ASSUME NEW m, MatchInv(m), Timed(m, turn + 1), NEW a \in Fighter, NEW move \in Moves,
           NEW luck \in Luck, turn \in Nat
    PROVE  /\ Timed(Act(m, a, move, luck), turn + 1)
           /\ ActsAlone(m, Act(m, a, move, luck), a)
  <1> DEFINE paid == Pay(m, a, move)
             hit == Struck(paid, a, move, luck)
             d == Other(a)
  <1>1. d \in Fighter /\ m \in MatchState /\ m.fighter[d].momentum \in Int
    <2>1. d \in Fighter /\ m \in MatchState
      BY TwoFighters DEF MatchInv
    <2> QED
      BY <2>1 DEF MatchState, FighterState
  <1>2. CASE ~Acts(m, a, move)
    BY <1>1, <1>2 DEF Act, ActsAlone
  <1>3. CASE Acts(m, a, move)
    <2>1. MatchInv(paid) /\ paid.outcome = Undecided /\ paid \in MatchState
      BY <1>3, PayKeeps DEF Acts, MatchInv
    <2>2. Quiet(m, paid, a) /\ Timed(paid, turn + 1) /\ ActsAlone(m, paid, a)
      <3>1. Quiet(m, paid, a)
        BY <1>1, QuietParts
      <3>2. Timed(paid, turn + 1)
        BY <3>1, QuietIsTimed
      <3> QED
        BY <1>1, <3>1, <3>2 DEF Quiet, ActsAlone
    <2> HIDE DEF paid
    <2>3. CASE move.action = "none" \/ ~luck.hit
      BY <1>3, <2>2, <2>3 DEF Act, paid
    <2>4. CASE ~(move.action = "none" \/ ~luck.hit)
      <3>1. Act(m, a, move, luck) = Succeed(paid, a, move, luck)
        BY <1>3, <2>4 DEF Act, paid
      <3>2. hit \in MatchState /\ Stances(hit) /\ Unjudged(hit, a)
        BY <2>1, StruckKeeps
      <3>3. Timed(hit, turn + 1) /\ ActsAlone(paid, hit, a)
        BY <2>1, <2>2, StruckTiming
      <3> DEFINE gone == Grappled(hit, a, luck)
                 gained == Gain(paid, a, move)
      <3>4. gone \in MatchState /\ gained \in MatchState
        BY <2>1, <3>2, GrappledKeeps, GainKeeps DEF MatchInv
      <3> HIDE DEF hit
      <3>5. Quiet(hit, KnockedOut(hit, a), a) /\ Timed(KnockedOut(hit, a), turn + 1)
        BY <3>2, <3>3, QuietParts, QuietIsTimed
      <3>6. Quiet(hit, gone, a) /\ Timed(gone, turn + 1)
        BY <3>2, <3>3, QuietParts, QuietIsTimed
      <3>7. Quiet(paid, gained, a) /\ Timed(gained, turn + 1)
        BY <2>1, <2>2, QuietParts, QuietIsTimed
      <3> HIDE DEF gone, gained
      <3>8. Quiet(gone, KnockedOut(gone, a), a) /\ Timed(KnockedOut(gone, a), turn + 1)
        BY <3>4, <3>6, QuietParts, QuietIsTimed
      <3>9. Quiet(gained, Broken(gained), a) /\ Timed(Broken(gained), turn + 1)
        BY <3>4, <3>7, QuietParts, QuietIsTimed
      <3>10. Succeed(paid, a, move, luck) \in
                {KnockedOut(hit, a), KnockedOut(gone, a), Broken(gained), gained}
        BY DEF Succeed, hit, gone, gained
      <3>11. \A n : n \in {KnockedOut(hit, a), KnockedOut(gone, a), Broken(gained), gained} =>
                /\ Timed(n, turn + 1)
                /\ n.fighter[a].hp = paid.fighter[a].hp
                /\ n.fighter[d].stamina = paid.fighter[d].stamina
                /\ \/ n.fighter[d].momentum = paid.fighter[d].momentum
                   \/ n.fighter[d].momentum = hit.fighter[d].momentum
        BY <1>1, <3>3, <3>5, <3>6, <3>7, <3>8, <3>9 DEF Quiet, ActsAlone
      <3>12. /\ paid.fighter[a].hp = m.fighter[a].hp
             /\ paid.fighter[d].stamina = m.fighter[d].stamina
             /\ paid.fighter[d].momentum = m.fighter[d].momentum
             /\ hit.fighter[d].momentum <= paid.fighter[d].momentum
        BY <2>2, <3>3 DEF Quiet, ActsAlone
      <3> QED
        BY <1>1, <3>1, <3>10, <3>11, <3>12 DEF ActsAlone
    <2> QED
      BY <2>3, <2>4
  <1> QED
    BY <1>2, <1>3

\* The penalties between turns.
TimedInv ==
    /\ CombatInv
    /\ PenaltiesRunOut
    /\ \A f \in Fighter, z \in Debuff : fighter[f].hitOn[z] <= turn

\* Nobody has been hit yet.
LEMMA TimedInit == Init => TimedInv
  <1> SUFFICES ASSUME Init PROVE TimedInv
    OBVIOUS
  <1>1. \A f \in Fighter, z \in Debuff : fighter[f].hitOn[z] = 0 /\ fighter[f].penalty[z] = 0
    BY DEF Init, NewFighter
  <1> QED
    BY <1>1, CombatInit DEF TimedInv, PenaltiesRunOut, PenaltyFrom, Init

\* Counting down is what a turn takes from a penalty.
LEMMA PreparedTiming ==
    ASSUME TimedInv
    PROVE  Timed([fighter |-> [f \in Fighter |-> Prepared(fighter[f])],
                  combat |-> combat, outcome |-> outcome], turn + 1)
  <1> SUFFICES ASSUME NEW f \in Fighter, NEW z \in Debuff
               PROVE  /\ Prepared(fighter[f]).hitOn[z] <= turn + 1
                      /\ Prepared(fighter[f]).penalty[z] = Left(Prepared(fighter[f]).hitOn[z], turn + 1)
    BY DEF Timed
  <1>1. fighter[f] \in FighterState /\ turn \in Nat
    BY DEF TimedInv, CombatInv, TypeOK
  <1>2. /\ Prepared(fighter[f]).hitOn[z] = fighter[f].hitOn[z]
        /\ Prepared(fighter[f]).penalty[z] = Down(fighter[f].penalty[z])
    BY <1>1 DEF Prepared, FighterState
  <1>3. /\ fighter[f].hitOn[z] \in Nat /\ fighter[f].hitOn[z] <= turn
        /\ fighter[f].penalty[z] = PenaltyFrom(fighter[f].hitOn[z])
    BY <1>1 DEF TimedInv, PenaltiesRunOut, FighterState
  <1> QED
    BY <1>1, <1>2, <1>3 DEF PenaltyFrom, Left, Down, AtLeast

\* The end of a turn gives stamina and takes nothing.
LEMMA RestedTiming ==
    ASSUME NEW m, m \in MatchState, NEW f \in Fighter
    PROVE  /\ Rested(m, f).hitOn = m.fighter[f].hitOn
           /\ Rested(m, f).penalty = m.fighter[f].penalty
           /\ Rested(m, f).momentum = m.fighter[f].momentum
           /\ Rested(m, f).hp = m.fighter[f].hp
           /\ Rested(m, f).stamina >= m.fighter[f].stamina
  <1> DEFINE regen == IF fighter[f].penalty["torso"] > 0 THEN (80 * Regen(f)) \div 100 ELSE Regen(f)
             x == m.fighter[f]
             s == IF x.state = "Stunned" /\ x.stunned = 0 THEN m.combat ELSE x.state
  <1>1. x \in FighterState
    BY DEF MatchState
  <1>2. Rested(m, f) = [x EXCEPT !.stamina = Clamp(x.stamina + regen, 0, StaminaMax), !.state = s]
    BY <1>1 DEF Rested, FighterState
  <1>3. regen \in Nat
    BY AttributesInRange DEF Regen
  <1> HIDE DEF regen, s
  <1>4. x.stamina \in 0..StaminaMax /\ StaminaMax \in Nat
    BY <1>1, CombatConstants DEF FighterState
  <1>5. Clamp(x.stamina + regen, 0, StaminaMax) >= x.stamina
    BY <1>3, <1>4 DEF Clamp
  <1> QED
    BY <1>1, <1>2, <1>5 DEF FighterState

\* A turn keeps the penalties in time, and a fighter who was stunned sits it out.
LEMMA TimedStep == TimedInv /\ [Next]_vars => TimedInv' /\ [StunnedSkip /\ PenaltiesRunOut']_vars
  <1> SUFFICES ASSUME TimedInv, [Next]_vars
               PROVE  TimedInv' /\ [StunnedSkip /\ PenaltiesRunOut']_vars
    OBVIOUS
  <1>1. CombatInv'
    BY CombatStep DEF TimedInv
  <1>2. CASE Next
    <2>1. PICK in \in [Fighter -> Moves], luck \in [Fighter -> Luck] : ResolveTurn(in, luck)
      BY <1>2 DEF Next
    <2> DEFINE m0 == [fighter |-> [f \in Fighter |-> Prepared(fighter[f])],
                      combat |-> combat, outcome |-> outcome]
               second == Other(First)
               m1 == Act(m0, First, in[First], luck[First])
               m == Act(m1, second, in[second], luck[second])
    <2>2. /\ turn \in Nat /\ First \in Fighter /\ second \in Fighter
          /\ Other(second) = First /\ \A f \in Fighter : f = First \/ f = second
      BY CombatConstants, TwoFighters DEF TimedInv, CombatInv, TypeOK
    <2>3. MatchInv(m0) /\ Timed(m0, turn + 1)
      BY PreparedKeeps, PreparedTiming DEF TimedInv
    <2>4. \A f \in Fighter : /\ m0.fighter[f].hp = fighter[f].hp
                             /\ m0.fighter[f].stamina = fighter[f].stamina
                             /\ m0.fighter[f].momentum = fighter[f].momentum
      BY DEF Prepared, TimedInv, CombatInv, TypeOK, FighterState
    <2>5. turn' = turn + 1 /\ fighter' = [f \in Fighter |-> Rested(m, f)]
      BY <2>1 DEF ResolveTurn, Resolved
    <2> HIDE DEF m0
    <2>6. MatchInv(m1) /\ Timed(m1, turn + 1) /\ ActsAlone(m0, m1, First)
      BY <2>2, <2>3, ActKeeps, ActTiming
    <2>7. fighter[First].stunned > 0 => m1 = m0
      BY <2>2, <2>3 DEF Act, Acts, MatchInv, MatchState
    <2> HIDE DEF m1
    <2>8. MatchInv(m) /\ Timed(m, turn + 1) /\ ActsAlone(m1, m, second)
      BY <2>2, <2>6, ActKeeps, ActTiming
    <2>9. fighter[second].stunned > 0 => m = m1
      BY DEF Act, Acts
    <2> HIDE DEF m, second
    <2>10. \A f \in Fighter : /\ fighter'[f].hitOn = m.fighter[f].hitOn
                              /\ fighter'[f].penalty = m.fighter[f].penalty
                              /\ fighter'[f].momentum = m.fighter[f].momentum
                              /\ fighter'[f].hp = m.fighter[f].hp
                              /\ fighter'[f].stamina >= m.fighter[f].stamina
      BY <2>5, <2>8, RestedTiming DEF MatchInv
    <2>11. TimedInv' /\ PenaltiesRunOut'
      BY <1>1, <2>5, <2>8, <2>10 DEF TimedInv, PenaltiesRunOut, PenaltyFrom, Left, Timed
    <2>12. StunnedSkip
      <3>1. Other(First) = second
        BY DEF second
      <3>2. \A f \in Fighter : /\ m.fighter[f].stamina \in Int /\ m.fighter[f].momentum \in Int
                               /\ fighter[f].stamina \in Int /\ fighter[f].momentum \in Int
                               /\ fighter'[f].stamina \in Int
        BY <1>1, <2>8 DEF MatchInv, MatchState, FighterState, TimedInv, CombatInv, TypeOK
      <3>3. ASSUME fighter[First].stunned > 0
            PROVE  /\ m.fighter[First].stamina = fighter[First].stamina
                   /\ m.fighter[First].momentum <= fighter[First].momentum
                   /\ m.fighter[second].hp = fighter[second].hp
        BY <2>2, <2>4, <2>7, <2>8, <3>3 DEF ActsAlone
      <3>4. ASSUME fighter[second].stunned > 0
            PROVE  /\ m.fighter[second].stamina = fighter[second].stamina
                   /\ m.fighter[second].momentum <= fighter[second].momentum
                   /\ m.fighter[First].hp = fighter[First].hp
        BY <2>2, <2>4, <2>6, <2>9, <3>1, <3>4 DEF ActsAlone
      <3>5. ASSUME NEW f \in Fighter, fighter[f].stunned > 0
            PROVE  /\ m.fighter[f].stamina = fighter[f].stamina
                   /\ m.fighter[f].momentum <= fighter[f].momentum
                   /\ m.fighter[Other(f)].hp = fighter[Other(f)].hp
        <4>1. CASE f = First
          BY <3>1, <3>3, <3>5, <4>1
        <4>2. CASE f = second
          BY <2>2, <3>4, <3>5, <4>2
        <4> QED
          BY <2>2, <4>1, <4>2
      <3>6. \A f \in Fighter : Other(f) \in Fighter
        BY TwoFighters
      <3> QED
        BY <2>10, <3>2, <3>5, <3>6 DEF StunnedSkip
    <2> QED
      BY <2>11, <2>12
  <1>3. CASE UNCHANGED vars
    BY <1>1, <1>3 DEF vars, TimedInv, PenaltiesRunOut, PenaltyFrom
  <1> QED
    BY <1>2, <1>3

\* A stunned fighter loses exactly the next turn, and a penalty lasts exactly the two
\* turns after the latest hit (prepareFighterTurn, applyZoneEffects).
THEOREM EffectsInTime == Spec => EffectTiming
  BY TimedInit, TimedStep, PTL DEF Spec, EffectTiming
=============================================================================
