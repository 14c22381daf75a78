--------------------------------- MODULE Icm ---------------------------------
(***************************************************************************)
(* ICMCalculator of packages/strategy/icm.py: what a stack of chips is     *)
(* worth in a tournament with payouts, and the price of risking it.        *)
(* Equities are fractions here and floating-point numbers there.           *)
(***************************************************************************)
EXTENDS Fractions, Sequences, SequencesExt

CONSTANTS
    IcmTables,   \* [stacks |-> chips by player, payouts |-> by place]
    MostExact   \* the place beyond which probabilities are approximated, 4 in the code

ASSUME IcmAssumption ==
    /\ MostExact \in Nat
    /\ \A f \in IcmTables :
          /\ \A i \in DOMAIN f.stacks : f.stacks[i] \in Nat
          /\ \A k \in DOMAIN f.payouts : f.payouts[k] \in Nat

VARIABLES stacks, payouts

icmVars == <<stacks, payouts>>

-----------------------------------------------------------------------------
TotalChips(s) == MapThenSumSet(LAMBDA i : s[i], DOMAIN s)

-----------------------------------------------------------------------------
(* _prob_place_recursive: others are those who may still finish ahead,     *)
(* total the chips of them and of the player.  Places count from 0.        *)

(* Mutant: the chips of who has finished stay in the total.                *)
ChipsKept(s, j, total) == total
ChipsLeft(s, j, total) == total - s[j]

ProbPlace(player, at, s) ==
    LET prob[place \in Nat, others \in SUBSET DOMAIN s, total \in Nat] ==
            LET ahead == {j \in others : ChipsLeft(s, j, total) > 0}
                rest == total - place * s[player]
            IN  IF place = 0 THEN Ratio(s[player], total)
                ELSE IF others = {} THEN Zero
                ELSE IF place > MostExact
                     THEN Ratio(IF rest > 0 THEN rest ELSE 0, total * Cardinality(others))
                ELSE SumOver(LAMBDA j :
                                 Times(Ratio(s[j], total),
                                       prob[place - 1, others \ {j}, ChipsLeft(s, j, total)]),
                             ahead)
    IN  prob[at, DOMAIN s \ {player}, TotalChips(s)]

(* _exact_icm: who has no payout gets 0.                                   *)
EquityUnder(pays, player, s) ==
    SumOver(LAMBDA k : Times(ProbPlace(player, k - 1, s), pays[k]), DOMAIN pays \cap DOMAIN s)
ChipEquity(player, s) == EquityUnder([k \in DOMAIN payouts |-> Whole(payouts[k])], player, s)

(* _approx_icm, for fields beyond max_exact_players: mostly the part of    *)
(* the chips, with a bonus by rank; of equal stacks the first ranks first. *)
RankOf(i, s) == Cardinality({j \in DOMAIN s : s[j] > s[i] \/ (s[j] = s[i] /\ j <= i)})
ApproxEquity(s) ==
    LET pays == MapThenSumSet(LAMBDA k : payouts[k], DOMAIN payouts)
        Bonus(k) == IF k \in DOMAIN payouts THEN payouts[k] ELSE 0
        blend == [i \in DOMAIN s |->
            Plus(Ratio(85 * s[i] * pays, 100 * TotalChips(s)),
                 Ratio(15 * Bonus(RankOf(i, s)), 1000))]
    IN  [i \in DOMAIN s |-> Times(Over(blend[i], Total(blend)), Whole(pays))]

(* SNGEquityCalculator.equity: its payouts share out the chips in play.    *)
SngPercent(players) ==
    IF players <= 2 THEN <<65, 35>>
    ELSE IF players <= 6 THEN <<50, 30, 20>> ELSE <<40, 25, 18, 10, 7>>
SngEquity(player, s) ==
    LET percent == SngPercent(Len(s))
    IN  EquityUnder([k \in DOMAIN percent |-> Ratio(percent[k] * TotalChips(s), 100)], player, s)

(* icm_pressure: the stacks after hero has won, or lost, what both have.   *)
(* FirstWith finds a player by the size of the stack.                      *)
FirstWith(chips, players) ==
    CHOOSE i \in players : stacks[i] = chips /\ \A j \in players : stacks[j] = chips => i <= j
Stake(hero, villain) == IF stacks[hero] < stacks[villain] THEN stacks[hero] ELSE stacks[villain]
Moved(s, from, to, chips) == [s EXCEPT ![from] = @ - chips, ![to] = @ + chips]

(* The equities that pressure compares: risked / gained.                   *)
Pressure(hero, villain) ==
    LET h == FirstWith(stacks[hero], DOMAIN stacks)
        v == FirstWith(stacks[villain], DOMAIN stacks \ {h})
        chips == Stake(hero, villain)
    IN  [now  |-> ChipEquity(h, stacks),
         won  |-> ChipEquity(h, Moved(stacks, v, h, chips)),
         lost |-> ChipEquity(h, Moved(stacks, h, v, chips))]

(* The value of icm_pressure: 2 when there is nothing to gain.             *)
PressureValue(p) ==
    IF NotMore(p.won, p.now) THEN Whole(2) ELSE Over(Minus(p.now, p.lost), Minus(p.won, p.now))

-----------------------------------------------------------------------------
(* Strategies: the probability of each action.                             *)

Normalized(weights) ==
    IF Total(weights) = Zero THEN weights
    ELSE [action \in DOMAIN weights |-> Over(weights[action], Total(weights))]

Weighted(strategy, Factor(_)) ==
    Normalized([action \in DOMAIN strategy |-> Times(strategy[action], Factor(action))])

(* adjust_strategy_for_icm: the factors, in tenths, of folds and of bets,  *)
(* raises and shoves, by the stack as a part of the average and by the     *)
(* pressure.                                                               *)
IcmFactors(pressure, ratio) ==
    IF ~NotMore(Ratio(3, 10), ratio) THEN [fold |-> 7, bold |-> 14]
    ELSE IF ~NotMore(pressure, Ratio(3, 2)) THEN [fold |-> 18, bold |-> 4]
    ELSE IF ~NotMore(pressure, Unit) THEN [fold |-> 13, bold |-> 7]
    ELSE IF ~NotMore(ratio, Whole(2)) THEN [fold |-> 8, bold |-> 13]
    ELSE [fold |-> 10, bold |-> 10]

AdjustForIcm(strategy, pressure, ratio) ==
    LET tenths == IcmFactors(pressure, ratio)
    IN  Weighted(strategy, LAMBDA action :
            Ratio(CASE action = "fold" -> tenths.fold
                    [] action \in {"bet", "raise", "all_in"} -> tenths.bold
                    [] OTHER -> 10, 10))

(* PKOCalculator: what the bounty of a stack that is covered adds, and the *)
(* calls it makes wider, by at most three tenths.                          *)
BountyEquity(hero, villain, bounty) ==
    IF stacks[hero] < stacks[villain] \/ stacks[villain] <= 0 THEN Zero
    ELSE Times(Ratio(stacks[hero], stacks[hero] + stacks[villain]), bounty)

CallBoost(bounty, pot) ==
    LET half == Over(Over(bounty, pot), Whole(2))
    IN  IF NotMore(half, Ratio(3, 10)) THEN half ELSE Ratio(3, 10)

AdjustCalls(strategy, bounty, pot) ==
    LET boost == CallBoost(bounty, pot)
    IN  Weighted(strategy, LAMBDA action :
            CASE action \in {"call", "all_in"} -> Plus(Unit, boost)
              [] action = "fold" -> Minus(Unit, Over(boost, Whole(2)))
              [] OTHER -> Unit)

-----------------------------------------------------------------------------
(* A tournament: chips go from one player to another.                      *)

IcmInit == \E f \in IcmTables : stacks = f.stacks /\ payouts = f.payouts

WinChip ==
    /\ \E i, j \in DOMAIN stacks : stacks[j] > 1 /\ stacks' = Moved(stacks, j, i, 1)
    /\ UNCHANGED payouts

IcmSpec == IcmInit /\ [][WinChip]_icmVars

-----------------------------------------------------------------------------
(* Properties.                                                             *)

(* Harville's model: the places are drawn one after another, each with the *)
(* chances of the stacks that are left.                                    *)
Orders(players) ==
    {o \in [1 .. Cardinality(players) -> players] : \A p \in players : \E k \in DOMAIN o : o[k] = p}

ChipsFrom(s, order, k) == MapThenSumSet(LAMBDA i : s[order[i]], k .. Len(order))
OrderProb(s, order) ==
    FoldSet(LAMBDA k, prod : Times(Ratio(s[order[k]], ChipsFrom(s, order, k)), prod),
            Ratio(1, 1), DOMAIN order)

(* The places whose probabilities are not approximated, and the payouts.   *)
ExactPlaces == {k \in DOMAIN stacks : k <= MostExact + 1}
PaidPlaces == DOMAIN payouts \cap DOMAIN stacks
PaidOut == Whole(MapThenSumSet(LAMBDA k : payouts[k], PaidPlaces))

(* While every player has chips: a player finishes in one of these places  *)
(* as often as in Harville's model, whose orders are enumerated for up to  *)
(* five players, and somebody does in each.  When only these are paid, the *)
(* equities share out the whole of the payouts, and chips are worth more   *)
(* when they are at stake than when they can be won: the pressure of a     *)
(* call is at least 1.  The docstrings promise all of this for up to eight *)
(* players and any number of prizes (icm.py:8, 50, 82).  Of the places     *)
(* beyond it does not hold, and all that is asked of them is a probability.*)
IcmIsHarville ==
    /\ \A player, k \in DOMAIN stacks :
          LET prob == ProbPlace(player, k - 1, stacks)
          IN  NotMore(Zero, prob) /\ NotMore(prob, Unit)
    /\ Len(stacks) <= 5 => \A player \in DOMAIN stacks : \A k \in ExactPlaces :
          ProbPlace(player, k - 1, stacks)
             = SumOver(LAMBDA order : OrderProb(stacks, order),
                       {o \in Orders(DOMAIN stacks) : o[k] = player})
    /\ \A k \in ExactPlaces :
          SumOver(LAMBDA player : ProbPlace(player, k - 1, stacks), DOMAIN stacks) = Unit
    /\ PaidPlaces \subseteq ExactPlaces =>
          /\ SumOver(LAMBDA player : ChipEquity(player, stacks), DOMAIN stacks) = PaidOut
          /\ \A hero, villain \in DOMAIN stacks :
                hero # villain =>
                    LET p == Pressure(hero, villain)
                    IN  /\ NotMore(p.now, p.won)
                        /\ NotMore(Plus(p.won, p.lost), Plus(p.now, p.now))

(* The payouts of a sit and go are its chips: the equities are the chips   *)
(* in play, and who has more of them is not worth less.                    *)
SngSharesChips ==
    /\ SumOver(LAMBDA player : SngEquity(player, stacks), DOMAIN stacks)
          = Whole(TotalChips(stacks))
    /\ \A a, b \in DOMAIN stacks :
          stacks[a] <= stacks[b] => NotMore(SngEquity(a, stacks), SngEquity(b, stacks))

(* The approximation shares out the payouts too, and who has more chips    *)
(* gets more of them.                                                      *)
ApproximationShares ==
    LET equity == ApproxEquity(stacks)
    IN  /\ Total(equity) = Whole(MapThenSumSet(LAMBDA k : payouts[k], DOMAIN payouts))
        /\ \A a, b \in DOMAIN stacks :
              stacks[a] > stacks[b] => ~NotMore(equity[a], equity[b])

(* Of a strategy that is adjusted to the pressure of a call, who is not    *)
(* short never folds less and never bets more, the chip leader included,   *)
(* unless chips are worth the same won or lost; a bounty never makes a     *)
(* call rarer or a fold more frequent; and what is adjusted is a strategy. *)
AdjustsTheRightWay ==
    LET base == [fold |-> Ratio(1, 2), call |-> Ratio(1, 3), all_in |-> Ratio(1, 6)]
    IN  \A hero, villain \in DOMAIN stacks :
          hero # villain /\ PaidPlaces \subseteq ExactPlaces =>
              LET pressure == PressureValue(Pressure(hero, villain))
                  ratio == Ratio(stacks[hero] * Len(stacks), TotalChips(stacks))
                  icm == AdjustForIcm(base, pressure, ratio)
                  bounty == BountyEquity(hero, villain, Unit)
                  pko == AdjustCalls(base, bounty, Whole(2))
              IN  /\ Total(icm) = Unit /\ Total(pko) = Unit
                  /\ NotMore(Ratio(3, 10), ratio) /\ pressure # Unit
                        => NotMore(base.fold, icm.fold) /\ NotMore(icm.all_in, base.all_in)
                  /\ NotMore(base.call, pko.call) /\ NotMore(pko.fold, base.fold)
                  /\ bounty # Zero <=> pko # base

(* What tournament chips are worth, and what is made of it, as long as at  *)
(* least two players have any.                                             *)
IcmSound ==
    Len(stacks) > 1 =>
        IcmIsHarville /\ SngSharesChips /\ ApproximationShares /\ AdjustsTheRightWay
=============================================================================
