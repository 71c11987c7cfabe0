------------------------------- MODULE Combat -------------------------------
(***************************************************************************)
(* A fight between two fighters, turn by turn: StandardResolver in         *)
(* src/internal/combat, driven by engine.CombatSimulator.                  *)
(*                                                                         *)
(* ResolveTurn is one step.  It is a function of the match, of the two     *)
(* inputs and of the random draws; the inputs are free, and a draw is      *)
(* modelled by whether it comes out below the chance it is compared with.  *)
(* The chances of a move and of a submission are clamped to 10..90 per     *)
(* cent, so both outcomes are possible whatever the attributes are; the    *)
(* chance of a stun can be zero.                                           *)
(***************************************************************************)
EXTENDS Integers

CONSTANTS
    Fighter,            \* the two fighters
    NoOne,              \* no fighter
    First,              \* the one whose player id sorts first
    Stats,              \* the attributes of each, 1..10
    HPMax,              \* 100 in the code
    StaminaMax,         \* 100
    MomentumMax,        \* 50
    ComboAbove,         \* 30: stamina a combo needs
    FatigueThreshold,   \* 20: stamina below which a fighter is tired
    Moves,              \* the inputs considered, [action, zone]
    MaxTurns            \* bound on the turns

Action    == {"none", "strike", "grapple", "block", "dodge", "counter", "feint", "break"}
Offensive == {"strike", "grapple", "counter", "feint"}
Damaging  == {"strike", "grapple", "counter"}
Zone      == {"head", "torso", "legs"}
Debuff    == {"torso", "legs"}
Position  == {"Neutral", "Clinch", "Ground", "Dominant", "SubmissionAttempt"}
Attribute == [power : 1..10, technique : 1..10, agility : 1..10, endurance : 1..10]

ASSUME CombatConstants ==
    /\ NoOne \notin Fighter
    /\ First \in Fighter
    /\ \E f \in Fighter : Fighter = {First, f} /\ f # First
    /\ Stats \in [Fighter -> Attribute]
    /\ HPMax \in Nat \ {0} /\ StaminaMax \in Nat /\ MomentumMax \in Nat
    /\ ComboAbove \in Nat /\ FatigueThreshold \in Nat /\ MaxTurns \in Nat
    /\ Moves \subseteq [action : Action, zone : Zone]

VARIABLES
    turn,     \* turns resolved
    fighter,  \* each FighterState
    combat,   \* CombatState
    outcome   \* MatchOutcome

vars == <<turn, fighter, combat, outcome>>

Other(f) == CHOOSE g \in Fighter : g # f

Clamp(v, low, high) == IF v < low THEN low ELSE IF v > high THEN high ELSE v
AtLeast(v, low)     == IF v > low THEN v ELSE low

Undecided    == [winner |-> NoOne, method |-> "none"]
Won(f, how)  == [winner |-> f, method |-> how]

\* A fresh fighter.  combo and hitOn are not in the code: whether the turn gave him a
\* combo, and the turn of the last hit on each zone that leaves a penalty.
NewFighter ==
    [hp |-> HPMax, stamina |-> StaminaMax, momentum |-> 0, state |-> "Neutral",
     stunned |-> 0, penalty |-> [z \in Debuff |-> 0], hitAt |-> 0,
     combo |-> FALSE, hitOn |-> [z \in Debuff |-> 0]]

Init ==
    /\ turn = 0
    /\ fighter = [f \in Fighter |-> NewFighter]
    /\ combat = "Neutral"
    /\ outcome = Undecided

----------------------------------------------------------------------------
\* The rules.  Every division rounds down.

BaseCost ==
    [none |-> 0, strike |-> 10, grapple |-> 14, dodge |-> 8, block |-> 6,
     counter |-> 12, feint |-> 9, break |-> 10]

Cost(action, f) ==
    IF action = "none" THEN 0
    ELSE AtLeast((BaseCost[action] * (100 - 3 * Stats[f].endurance)) \div 100, 1)

Regen(f) == (50 + 8 * Stats[f].endurance) \div 10

BaseDamage(action, f) ==
    CASE action = "strike"  -> 12 + Stats[f].power
      [] action = "grapple" -> 10 + Stats[f].technique
      [] OTHER              -> 8 + Stats[f].technique

Damage(action, f, momentum, combo) ==
    LET plain == (BaseDamage(action, f) * (100 + momentum)) \div 100
    IN  IF combo THEN (plain * 110) \div 100 ELSE plain

\* The chance of a stun in basis points, before it is cut off at zero.
StunChance(zone, target, advantage) ==
    1000 + (IF zone = "head" THEN 1000 ELSE 0)
         + (IF target.stamina < FatigueThreshold THEN 500 ELSE 0)
         + 50 * advantage

----------------------------------------------------------------------------
\* The parts of a turn.  m is the match on its way through the turn, a record of
\* fighter, combat and outcome; the variables are the match at its start.

Down(n) == IF n > 0 THEN n - 1 ELSE n

\* prepareFighterTurn counts the effects down; the turn goes by what they were.
Prepared(f) ==
    [f EXCEPT !.stunned = Down(@), !.combo = FALSE,
              !.penalty = [z \in Debuff |-> Down(@[z])]]

\* Fault: a stun counts from the move that caused it, not from the next turn.
ActsUnlessDazed(m, a, move) ==
    /\ m.outcome = Undecided
    /\ m.fighter[a].stunned = 0
    /\ m.fighter[a].stamina >= Cost(move.action, a)

\* Fault: the second fighter acts although the first has won.
ActsAnyway(m, a, move) ==
    /\ fighter[a].stunned = 0
    /\ m.fighter[a].stamina >= Cost(move.action, a)

\* Nobody acts in a match that is over, when stunned, or without the stamina.
Acts(m, a, move) ==
    /\ m.outcome = Undecided
    /\ fighter[a].stunned = 0
    /\ m.fighter[a].stamina >= Cost(move.action, a)

Pay(m, a, move) == [m EXCEPT !.fighter[a].stamina = @ - Cost(move.action, a)]

Combo(m, a, move) ==
    /\ move.action \in Offensive
    /\ m.fighter[a].hitAt = turn
    /\ m.fighter[a].stamina > ComboAbove

Gain(m, a, move) ==
    LET combo == Combo(m, a, move)
    IN  [m EXCEPT !.fighter[a] =
            [m.fighter[a] EXCEPT
                      !.momentum = Clamp(@ + (IF combo THEN 13 ELSE 8), 0, MomentumMax),
                      !.combo = combo,
                      !.hitAt = IF move.action \in Offensive THEN turn + 1 ELSE @]]

\* Fault: the penalty of a second hit is added to the first.
HurtStacks(f, a, move, momentum, combo) ==
    [f EXCEPT !.hp = Clamp(@ - Damage(move.action, a, momentum, combo), 0, HPMax),
              !.momentum = Clamp(@ - 6, 0, MomentumMax),
              !.penalty = [z \in Debuff |-> IF z = move.zone THEN @[z] + 2 ELSE @[z]],
              !.hitOn = [z \in Debuff |-> IF z = move.zone THEN turn + 1 ELSE @[z]]]

\* A hit by a: damage by the momentum from before it, and the zone's penalty.
Hurt(f, a, move, momentum, combo) ==
    [f EXCEPT !.hp = Clamp(@ - Damage(move.action, a, momentum, combo), 0, HPMax),
              !.momentum = Clamp(@ - 6, 0, MomentumMax),
              !.penalty = [z \in Debuff |-> IF z = move.zone THEN AtLeast(@[z], 2) ELSE @[z]],
              !.hitOn = [z \in Debuff |-> IF z = move.zone THEN turn + 1 ELSE @[z]]]

Struck(m, a, move, luck) ==
    LET gained == Gain(m, a, move)
        hurt == Hurt(m.fighter[Other(a)], a, move, m.fighter[a].momentum, gained.fighter[a].combo)
        stunned == /\ luck.stun
                   /\ StunChance(move.zone, hurt, gained.fighter[a].momentum - hurt.momentum) > 0
    IN  [gained EXCEPT !.fighter[Other(a)] =
            IF stunned THEN [hurt EXCEPT !.stunned = AtLeast(@, 1), !.state = "Stunned"] ELSE hurt]

\* Where a grapple leads.
Above ==
    [Neutral |-> "Clinch", Clinch |-> "Ground", Ground |-> "Dominant",
     Dominant |-> "SubmissionAttempt", SubmissionAttempt |-> "SubmissionAttempt"]

\* Fault: a grapple or a break wakes a fighter who has just been stunned.
TakesAtOnce(f, position) == [f EXCEPT !.state = position]

\* A fighter takes the position of the match unless he is stunned.
Takes(f, position) == IF f.state = "Stunned" THEN f ELSE [f EXCEPT !.state = position]

Grappled(m, a, luck) ==
    LET position == Above[m.combat]
    IN  [fighter |-> [f \in Fighter |->
            IF position = m.combat THEN m.fighter[f] ELSE Takes(m.fighter[f], position)],
         combat  |-> position,
         outcome |-> IF position = "SubmissionAttempt" /\ luck.submission
                     THEN Won(a, "Submission") ELSE m.outcome]

\* A knockout replaces a submission of the same move.
KnockedOut(m, a) ==
    IF m.fighter[Other(a)].hp = 0 THEN [m EXCEPT !.outcome = Won(a, "KO")] ELSE m

Broken(m) ==
    [m EXCEPT !.combat = "Neutral",
              !.fighter = [f \in Fighter |-> Takes(m.fighter[f], "Neutral")]]

\* What a move that succeeds does.  The fighters are always in each other's range.
Succeed(m, a, move, luck) ==
    CASE move.action \in {"strike", "counter"} -> KnockedOut(Struck(m, a, move, luck), a)
      [] move.action = "grapple" -> KnockedOut(Grappled(Struck(m, a, move, luck), a, luck), a)
      [] move.action = "break"   -> Broken(Gain(m, a, move))
      [] OTHER                   -> Gain(m, a, move)

Act(m, a, move, luck) ==
    IF ~Acts(m, a, move) THEN m
    ELSE IF move.action = "none" \/ ~luck.hit THEN Pay(m, a, move)
    ELSE Succeed(Pay(m, a, move), a, move, luck)

\* applyRegen, and a stun that is over: at the end of every turn, decided or not.
Rested(m, f) ==
    LET regen == IF fighter[f].penalty["torso"] > 0 THEN (80 * Regen(f)) \div 100 ELSE Regen(f)
        x     == m.fighter[f]
    IN  [x EXCEPT !.stamina = Clamp(@ + regen, 0, StaminaMax),
                  !.state = IF @ = "Stunned" /\ x.stunned = 0 THEN m.combat ELSE @]

\* The draws of one fighter: after a miss there are no others.
Luck == {l \in [hit : BOOLEAN, stun : BOOLEAN, submission : BOOLEAN] :
            l.stun \/ l.submission => l.hit}

Resolved(in, luck) ==
    LET m0     == [fighter |-> [f \in Fighter |-> Prepared(fighter[f])],
                   combat |-> combat, outcome |-> outcome]
        second == Other(First)
    IN  Act(Act(m0, First, in[First], luck[First]), second, in[second], luck[second])

\* An input for each fighter, whatever order they came in; they act in the order
\* of their ids.
ResolveTurn(in, luck) ==
    /\ outcome = Undecided
    /\ turn < MaxTurns
    /\ turn' = turn + 1
    /\ LET m == Resolved(in, luck)
       IN  /\ fighter' = [f \in Fighter |-> Rested(m, f)]
           /\ combat' = m.combat
           /\ outcome' = m.outcome

Next == \E in \in [Fighter -> Moves], luck \in [Fighter -> Luck] : ResolveTurn(in, luck)

Spec == Init /\ [][Next]_vars

----------------------------------------------------------------------------
FighterState ==
    [hp : 0..HPMax, stamina : 0..StaminaMax, momentum : 0..MomentumMax,
     state : Position \cup {"Stunned"}, stunned : 0..1, penalty : [Debuff -> 0..2],
     hitAt : Nat, combo : BOOLEAN, hitOn : [Debuff -> Nat]]

Outcome == {Undecided} \cup {Won(f, how) : f \in Fighter, how \in {"KO", "Submission"}}

\* Every resource stays in its range, however the clamps, costs and counters combine.
TypeOK ==
    /\ turn \in Nat
    /\ fighter \in [Fighter -> FighterState]
    /\ combat \in Position
    /\ outcome \in Outcome

\* Between turns a fighter is shown stunned exactly when he will lose the next turn, and
\* otherwise in the position of the match: no grapple, break or stun of either fighter
\* leaves one behind in another position (ResolveTurn, applyGrappleTransition).
StanceFollowsMatch ==
    \A f \in Fighter :
        fighter[f].state = IF fighter[f].stunned > 0 THEN "Stunned" ELSE combat

\* The result is the one the fight had: it is a knockout of the one who has no hit
\* points left, and of nobody else, or a submission out of a submission attempt; a
\* fight with both on their feet and no submission goes on.
OutcomeIsEarned ==
    /\ \A f \in Fighter : fighter[f].hp = 0 <=> outcome = Won(Other(f), "KO")
    /\ outcome.method = "Submission" => combat = "SubmissionAttempt"

\* What is left of a penalty from a hit in the turn given, 0 for none.
PenaltyFrom(hit) == IF hit = 0 THEN 0 ELSE AtLeast(hit + 2 - turn, 0)

PenaltiesRunOut ==
    \A f \in Fighter, z \in Debuff : fighter[f].penalty[z] = PenaltyFrom(fighter[f].hitOn[z])

StunnedSkip ==
    \A f \in Fighter : fighter[f].stunned > 0 =>
        /\ fighter'[f].stamina >= fighter[f].stamina
        /\ fighter'[f].momentum <= fighter[f].momentum
        /\ fighter'[Other(f)].hp = fighter[Other(f)].hp

\* docs/combat-determinism.md, "Effect timing invariants": a fighter stunned in a turn
\* neither pays nor harms in the next one, and a hit on the torso or the legs is felt in
\* exactly the two turns after the latest such hit.
EffectTiming == [][StunnedSkip /\ PenaltiesRunOut']_vars

=============================================================================
