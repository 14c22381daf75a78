------------------------------- MODULE Exploit -------------------------------
(***************************************************************************)
(* How a strategy is bent towards one opponent: OpponentTracker of         *)
(* packages/opponent_model/classifier.py tells what kind of player it is,  *)
(* CFRAgent of cfr_agent/agent.py multiplies and blends its probabilities  *)
(* accordingly, and CognitiveBiasExploiter of strategy/bias_exploiter.py   *)
(* moves some of them for the state of mind the opponent is in.            *)
(*                                                                         *)
(* Probabilities are exact fractions; the strengths that the code takes    *)
(* from a sigmoid are any of a few within its range.                       *)
(***************************************************************************)
EXTENDS Fractions, SequencesExt

CONSTANTS
    Batches,     \* hands that are observed between two decisions: records like NoRecord
    MostHands,   \* bound on the hands observed
    Openings,    \* decisions: [gto : a strategy, baseline : an action]
    Minds,       \* contexts of an opponent: [invested, losing, bluffed, streets, folds, anchor]
    Preset       \* values of CFRAgent.exploit_blend

VARIABLES
    record,      \* the PlayerStats of the opponent, as far as they classify it
    tracked,     \* whether the agent has an OpponentTracker
    exploit_blend,  \* CFRAgent.exploit_blend
    opening      \* the decision to be made

exploitVars == <<record, tracked, exploit_blend, opening>>

Raises == {"bet", "raise", "all_in"}
NoRecord == [hands |-> 0, vpip |-> 0, pfr |-> 0, aggressive |-> 0, passive |-> 0, folds |-> 0]

ExploitInit ==
    /\ record = NoRecord
    /\ tracked \in BOOLEAN /\ exploit_blend \in Preset
    /\ opening \in Openings

(* record_action and record_hand_end, for as many hands as a batch has.    *)
Observes ==
    /\ tracked
    /\ \E batch \in Batches :
          /\ record.hands + batch.hands <= MostHands
          /\ record' = [field \in DOMAIN record |-> record[field] + batch[field]]
    /\ UNCHANGED <<tracked, exploit_blend, opening>>

-----------------------------------------------------------------------------
(* classify_player: a rate is below a limit given in hundredths.           *)
Below(count, of, limit) == 100 * count < limit * (IF of = 0 THEN 1 ELSE of)

Classify(stats) ==
    LET Plays(limit) == Below(stats.vpip, stats.hands, limit)
        Raising(limit) == Below(stats.pfr, stats.hands, limit)
        Calm(limit) == Below(stats.aggressive, stats.passive, limit)
        Folding(limit) == Below(stats.folds, stats.aggressive + stats.passive + stats.folds, limit)
    IN  CASE stats.hands < 10 -> "unknown"
          [] stats.hands >= 10 /\ Plays(15) -> IF Calm(200) THEN "rock" ELSE "nit"
          [] stats.hands >= 10 /\ ~Plays(15) /\ Plays(28) ->
                IF ~Calm(250) /\ ~Raising(15) THEN "tag" ELSE "nit"
          [] stats.hands >= 10 /\ ~Plays(28) /\ Plays(40) ->
                IF Calm(200) THEN "fish" ELSE IF Calm(300) THEN "tag" ELSE "lag"
          [] stats.hands >= 10 /\ ~Plays(40) ->
                IF ~Calm(350) THEN "maniac" ELSE IF ~Calm(200) THEN "lag"
                ELSE IF Folding(25) THEN "whale" ELSE "fish"

Archetype == Classify(record)

(* exploitation_adjustments, in tenths.                                    *)
Factors(bluff, value, fold, call) == [bluff |-> bluff, value |-> value, fold |-> fold, call |-> call]
Adjustments ==
    [unknown |-> Factors(10, 10, 10, 10), nit |-> Factors(15, 7, 13, 6),
     rock |-> Factors(18, 5, 15, 4), tag |-> Factors(9, 10, 10, 10), lag |-> Factors(6, 13, 8, 13),
     maniac |-> Factors(3, 15, 5, 16), fish |-> Factors(5, 14, 9, 10), whale |-> Factors(2, 16, 7, 12)]

(* compute_exploit_blend                                                   *)
ExploitScale == [nit |-> 5, rock |-> 6, lag |-> 4, maniac |-> 7, fish |-> 6, whale |-> 8]
AutoBlend ==
    LET grown == Ratio(record.hands - 20, 200)
        confidence == IF NotMore(grown, Ratio(7, 10)) THEN grown ELSE Ratio(7, 10)
    IN  IF record.hands < 20 \/ Archetype \in {"unknown", "tag"} THEN Zero
        ELSE Times(confidence, Ratio(ExploitScale[Archetype], 10))

-----------------------------------------------------------------------------
(* CFRAgent.decide and _apply_exploitation.                                *)

EffectiveBlend == IF tracked THEN Greater(exploit_blend, AutoBlend) ELSE exploit_blend

(* Mutant: a bet that the baseline would make as well is a bluff.          *)
SwappedFactor(action) ==
    LET factors == Adjustments[Archetype]
    IN  CASE action = "fold" -> factors.fold
          [] action = "call" -> factors.call
          [] action \in Raises -> IF opening.baseline \in Raises THEN factors.bluff ELSE factors.value
          [] action = "check" -> 10

Factor(action) ==
    LET factors == Adjustments[Archetype]
    IN  CASE action = "fold" -> factors.fold
          [] action = "call" -> factors.call
          [] action \in Raises -> IF opening.baseline \in Raises THEN factors.value ELSE factors.bluff
          [] action = "check" -> 10

Exploiting(action) ==
    IF tracked THEN Times(opening.gto[action], Ratio(Factor(action), 10))
    ELSE IF action = opening.baseline THEN Unit ELSE Zero

(* ActionDistribution.normalize                                            *)
NormalizedWeights(weight) ==
    IF Total(weight) = Zero THEN <<>>
    ELSE [action \in DOMAIN weight |-> Over(weight[action], Total(weight))]

Final ==
    IF EffectiveBlend = Zero THEN opening.gto
    ELSE NormalizedWeights([action \in DOMAIN opening.gto |->
             Plus(Times(EffectiveBlend, Exploiting(action)),
                  Times(Minus(Unit, EffectiveBlend), opening.gto[action]))])

-----------------------------------------------------------------------------
(* CognitiveBiasExploiter, on the mass of folding, of checking or calling  *)
(* and of betting: within one of them the shares stay as they are.         *)

ActionGroups == {"fold", "passive", "aggressive"}
GroupOf(action) ==
    IF action = "fold" THEN "fold" ELSE IF action \in Raises THEN "aggressive" ELSE "passive"
Masses(strategy) ==
    [g \in ActionGroups |-> SumOver(LAMBDA a : strategy[a], {a \in DOMAIN strategy : GroupOf(a) = g})]

(* detect_biases, in the order of its dictionary.                          *)
Lesser(a, b) == IF NotMore(a, b) THEN a ELSE b
DetectBiases(context) ==
    [pot_commitment |-> context.invested, loss_aversion |-> context.losing,
     recency_bias |-> IF context.bluffed THEN Ratio(7, 10) ELSE Zero,
     anchoring |-> context.anchor,
     sunk_cost |-> IF context.streets < 2 THEN Zero ELSE Lesser(Ratio(context.streets - 1, 3), Unit),
     gamblers_fallacy |-> IF context.folds < 4 THEN Zero ELSE Lesser(Ratio(context.folds - 3, 4), Unit)]

(* exploit_magnitude                                                       *)
MaxDeviation == Ratio(3, 10)
Magnitude(biases) == Times(MaxDeviation, Lesser(Unit, Total(biases)))

(* Mutant: as much is taken as was asked for.                              *)
Drained(masses, from, to, amount) ==
    LET held == SumOver(LAMBDA g : masses[g], from)
    IN  IF held = Zero THEN masses
        ELSE [g \in ActionGroups |->
                 IF g \in from THEN Minus(masses[g], Times(amount, Over(masses[g], held)))
                 ELSE IF g \in to THEN Plus(masses[g], amount) ELSE masses[g]]

(* _redistribute: at most nine tenths of what there is.  Where the side    *)
(* that gains has no mass its actions share alike.                         *)
Redistribute(masses, from, to, amount) ==
    LET held == SumOver(LAMBDA g : masses[g], from)
        gains == SumOver(LAMBDA g : masses[g], to)
        shift == Lesser(amount, Times(held, Ratio(9, 10)))
        alike == [fold |-> 1, passive |-> 2, aggressive |-> 3]
        Share(g) == IF gains # Zero THEN Over(masses[g], gains)
                    ELSE Ratio(alike[g], SumOver(LAMBDA h : Whole(alike[h]), to).num)
    IN  IF held = Zero THEN masses
        ELSE [g \in ActionGroups |->
                 IF g \in from THEN Minus(masses[g], Times(shift, Over(masses[g], held)))
                 ELSE IF g \in to THEN Plus(masses[g], Times(shift, Share(g))) ELSE masses[g]]

(* adjust_strategy: the shifts for every bias, one after the other, each    *)
(* by its weight and its share of it in thousandths together.              *)
Shift(bias, from, to, part) == [bias |-> bias, from |-> from, to |-> to, part |-> part]
Shifts ==
    <<Shift("pot_commitment", {"fold"}, {"aggressive"}, 150),
      Shift("loss_aversion", {"fold"}, {"aggressive"}, 120),
      Shift("loss_aversion", {"passive"}, {"aggressive"}, 50),
      Shift("recency_bias", {"aggressive"}, {"passive"}, 100),
      Shift("anchoring", {"passive"}, {"aggressive"}, 15),
      Shift("sunk_cost", {"fold", "passive"}, {"aggressive"}, 150),
      Shift("gamblers_fallacy", {"aggressive"}, {"fold", "passive"}, 64)>>

AdjustStrategy(masses, biases) ==
    FoldLeft(LAMBDA now, shift :
                 Redistribute(now, shift.from, shift.to,
                     Times(Times(biases[shift.bias], Magnitude(biases)), Ratio(shift.part, 1000))),
             masses, Shifts)

-----------------------------------------------------------------------------
(* Properties.                                                             *)

(* Whatever is known of the opponent, what is played is a strategy: it     *)
(* gives up no action while it is blended with anything else, and a player *)
(* of whom little is known, or that has no leak, is not exploited.         *)
StaysAStrategy ==
    /\ Total(Final) = Unit
    /\ tracked \/ EffectiveBlend # Unit =>
           \A action \in DOMAIN opening.gto :
               Final[action] = Zero => opening.gto[action] = Zero
    /\ NotMore(AutoBlend, Ratio(7, 10))
    /\ tracked /\ exploit_blend = Zero /\ (record.hands <= 20 \/ Archetype = "tag") =>
           Final = opening.gto

(* Who folds too much is bluffed no less for it, and who calls too much is *)
(* bluffed no more, although the other actions are weighted as well and    *)
(* everything is normalized.  A bet for value against who calls too much   *)
(* is made no less.                                                        *)
MassOf(strategy, actions) == SumOver(LAMBDA a : strategy[a], DOMAIN strategy \cap actions)
BentTheRightWay ==
    tracked =>
        /\ Archetype \in {"nit", "rock"} /\ opening.baseline \notin Raises =>
               NotMore(MassOf(opening.gto, Raises), MassOf(Final, Raises))
        /\ Archetype \in {"lag", "maniac", "fish", "whale"} /\ opening.baseline \notin Raises =>
               NotMore(MassOf(Final, Raises), MassOf(opening.gto, Raises))
        /\ Archetype \in {"lag", "fish", "whale"} /\ opening.baseline \in Raises =>
               NotMore(MassOf(opening.gto, Raises), MassOf(Final, Raises))

(* What is moved for a state of mind: nothing is lost, what was played is  *)
(* still played, and no more is moved than the deviation that is allowed.  *)
(* The record plays no part in this: it is asked before there is one.      *)
BiasesBounded ==
    \A mind \in {m \in Minds : record = NoRecord} :
        LET before == Masses(opening.gto)
            biases == DetectBiases(mind)
            after == AdjustStrategy(before, biases)
        IN  /\ Total(after) = Unit
            /\ \A g \in ActionGroups : /\ NotMore(Zero, after[g])
                                 /\ after[g] = Zero => before[g] = Zero
                                 /\ NotMore(Apart(before[g], after[g]), Magnitude(biases))

Exploits == StaysAStrategy /\ BentTheRightWay /\ BiasesBounded
=============================================================================
