------------------------------- MODULE Payoffs -------------------------------
(***************************************************************************)
(* Small games the strategy code solves for itself: the population of      *)
(* PSROTrainer (packages/strategy/psro.py) with its payoff matrix and meta *)
(* strategy, the two-player games of QPNashSolver (solver/qp_nash.py),     *)
(* bets that ActionTranslator (solver/action_translation.py) maps to the   *)
(* sizes a solution knows, and the stakes of BankrollManager               *)
(* (strategy/kelly.py).  Each runs by itself: `topic` says which.          *)
(*                                                                         *)
(* What the networks of the population are worth against one another is    *)
(* any of a few values; everything else is exact.                          *)
(***************************************************************************)
EXTENDS Fractions, Sequences, SequencesExt

CONSTANTS
    PairPayoffs,     \* what evaluate_pair may return, whole numbers
    MostPolicies,    \* bound on the population
    Rounds,          \* iterations of fictitious play: 200 in the code
    Games,           \* payoff matrices of the first player: sequences of rows
    MostIterations,  \* bound on the iterations of QPNashSolver.solve
    BetSizes,        \* ActionTranslator.bet_sizes, in hundredths of the pot
    LargestBet,      \* bound on the bets that are translated
    Wagers,          \* offers to bet: [win_prob, odds], in fractions
    MinBet,          \* values of BankrollManager.min_bet
    MostWagers       \* bound on the bets that are made

ASSUME GamesAssumption ==
    \A game \in Games : game # <<>> /\ \A i \in DOMAIN game : Len(game[i]) = Len(game[1])

VARIABLES
    topic,
    matrix,      \* PayoffMatrix._matrix
    meta,        \* _meta_strategy
    game,        \* the payoffs that are being solved
    play,        \* solve: [t, strategies, cum_strategies]
    bet,         \* the size that is translated
    min_bet,     \* BankrollManager.min_bet
    bankroll,    \* BankrollManager.bankroll
    wagered      \* history: how many bets were made

payoffVars == <<topic, matrix, meta, game, play, bet, min_bet, bankroll, wagered>>

LeastOf(a, b) == IF NotMore(a, b) THEN a ELSE b
UniformOver(n) == [i \in 1 .. n |-> Ratio(1, n)]
PureOn(i, n) == [k \in 1 .. n |-> IF k = i THEN Unit ELSE Zero]

-----------------------------------------------------------------------------
(* PSROTrainer.                                                            *)

(* Mutant: the other half of the matrix keeps what expand put there.       *)
HalfExpanded(payoffs) ==
    LET n == Len(matrix)
    IN  [i \in 1 .. n + 1 |-> [j \in 1 .. n + 1 |->
            IF i <= n /\ j <= n THEN matrix[i][j] ELSE IF i > n /\ j <= n THEN payoffs[j] ELSE 0]]

(* expand, evaluate_pair of the newest against each and set_payoff.        *)
Expanded(payoffs) ==
    LET n == Len(matrix)
    IN  [i \in 1 .. n + 1 |-> [j \in 1 .. n + 1 |->
            IF i <= n /\ j <= n THEN matrix[i][j]
            ELSE IF i > n /\ j > n THEN 0 ELSE IF i > n THEN payoffs[j] ELSE -payoffs[i]]]

(* _solve_nash_2x2                                                         *)
SolveNash2x2 ==
    LET a == matrix[1][1]
        b == matrix[1][2]
        c == matrix[2][1]
        d == matrix[2][2]
        denom == a - b - c + d
        Share(p) == LeastOf(Unit, Greater(Zero, p))
        first == IF denom > 0 THEN Share(Ratio(d - c, denom))
                 ELSE IF denom < 0 THEN Share(Ratio(c - d, -denom))
                 ELSE IF a >= c THEN Unit ELSE Zero
    IN  <<first, Minus(Unit, first)>>

(* _fictitious_play: what a policy is worth against the counts so far, and *)
(* the first of those that are worth most.                                 *)
Against(i, counts) == FoldLeftDomain(LAMBDA sum, j : sum + matrix[i][j] * counts[j], 0, counts)
FirstBest(counts) ==
    CHOOSE i \in DOMAIN counts : \A j \in DOMAIN counts :
        /\ Against(j, counts) <= Against(i, counts)
        /\ j < i => Against(j, counts) < Against(i, counts)

PlayCounts ==
    LET counts[r \in 0 .. Rounds] ==
            IF r = 0 THEN [i \in DOMAIN matrix |-> 1]
            ELSE LET before == counts[r - 1] IN [before EXCEPT ![FirstBest(before)] = @ + 1]
    IN  counts[Rounds]

(* solve_nash_support_enum                                                 *)
MetaStrategy ==
    CASE Len(matrix) = 1 -> <<Unit>>
      [] Len(matrix) = 2 -> SolveNash2x2
      [] Len(matrix) > 2 -> LET counts == PlayCounts
                            IN  [i \in DOMAIN counts |-> Ratio(counts[i], Len(matrix) + Rounds)]

(* One iteration of train: the meta strategy that the new policy answers,  *)
(* and the payoffs of the new policy.                                      *)
TrainPolicy ==
    /\ topic = "population" /\ Len(matrix) < MostPolicies
    /\ meta' = MetaStrategy
    /\ \E payoffs \in [1 .. Len(matrix) -> PairPayoffs] : matrix' = Expanded(payoffs)
    /\ UNCHANGED <<topic, game, play, bet, min_bet, bankroll, wagered>>

(* What train returns: the meta strategy of the whole population.          *)
FinishTraining ==
    /\ topic = "population" /\ Len(matrix) > 1 /\ Len(meta) < Len(matrix)
    /\ meta' = MetaStrategy
    /\ UNCHANGED <<topic, matrix, game, play, bet, min_bet, bankroll, wagered>>

-----------------------------------------------------------------------------
(* QPNashSolver, of a zero-sum game (solve_zero_sum_2p).                   *)

BothSides == {1, 2}
ActionsOf(side) == IF side = 1 THEN Len(game) ELSE Len(game[1])

(* _expected_payoff, over all profiles.                                    *)
ExpectedPayoff(side, strategies) ==
    LET gain == SumOver(LAMBDA pair :
                    Times(Times(strategies[1][pair[1]], strategies[2][pair[2]]),
                          Whole(game[pair[1]][pair[2]])),
                    (1 .. Len(game)) \X (1 .. Len(game[1])))
    IN  IF side = 1 THEN gain ELSE Negated(gain)

(* _best_response_value: the first of the best pure answers.               *)
PurePayoff(side, a, strategies) ==
    ExpectedPayoff(side, [strategies EXCEPT ![side] = PureOn(a, ActionsOf(side))])
BestAnswer(side, strategies) ==
    LET worth == [a \in 1 .. ActionsOf(side) |-> PurePayoff(side, a, strategies)]
    IN  CHOOSE a \in DOMAIN worth : \A b \in DOMAIN worth :
            NotMore(worth[b], worth[a]) /\ (b < a => worth[b] # worth[a])
BestPayoff(side, strategies) == PurePayoff(side, BestAnswer(side, strategies), strategies)

GainOf(side, strategies) == Minus(BestPayoff(side, strategies), ExpectedPayoff(side, strategies))

(* compute_exploitability                                                  *)
Exploitability(strategies) == Plus(Greater(Zero, GainOf(1, strategies)), Greater(Zero, GainOf(2, strategies)))

Shifted(strategy, answer, rate) ==
    [a \in DOMAIN strategy |->
        Plus(Times(Minus(Unit, rate), strategy[a]), IF a = answer THEN rate ELSE Zero)]

(* One iteration of solve: the second player answers what the first has    *)
(* already changed.                                                        *)
Iterate ==
    /\ topic = "game" /\ play.t < MostIterations
    /\ LET rate == Ratio(2, play.t + 3)
           first == [play.strategies EXCEPT ![1] = Shifted(@, BestAnswer(1, play.strategies), rate)]
           both == [first EXCEPT ![2] = Shifted(@, BestAnswer(2, first), rate)]
       IN  play' = [t |-> play.t + 1, strategies |-> both,
                    cum |-> [s \in BothSides |-> [a \in DOMAIN both[s] |-> Plus(play.cum[s][a], both[s][a])]]]
    /\ UNCHANGED <<topic, matrix, meta, game, bet, min_bet, bankroll, wagered>>

(* _normalize_cumulative                                                   *)
AveragePlay == [s \in BothSides |-> [a \in DOMAIN play.cum[s] |-> Over(play.cum[s][a], Total(play.cum[s]))]]

(* support_enumeration_2p: alike over a support, against the one answer    *)
(* that is worst for it; the least exploitable is taken.                   *)
OnSupport(support) ==
    LET own == [i \in 1 .. Len(game) |-> IF i \in support THEN Ratio(1, Cardinality(support)) ELSE Zero]
        start == <<own, UniformOver(ActionsOf(2))>>
    IN  [start EXCEPT ![2] = PureOn(BestAnswer(2, start), ActionsOf(2))]

(* MaximinRefinement.maximin_strategy (solver/equilibrium_refinements.py): *)
(* against the column that is worst for it, the first row that is best.    *)
WorthAgainst(strategy, j) == SumOver(LAMBDA i : Times(strategy[i], Whole(game[i][j])), DOMAIN game)
(* Mutant: the column that is best for it.                                 *)
BestColumn(strategy) ==
    CHOOSE j \in 1 .. ActionsOf(2) : \A k \in 1 .. ActionsOf(2) :
        NotMore(WorthAgainst(strategy, k), WorthAgainst(strategy, j))

WorstColumn(strategy) ==
    LET worth == [j \in 1 .. ActionsOf(2) |-> WorthAgainst(strategy, j)]
    IN  CHOOSE j \in DOMAIN worth : \A k \in DOMAIN worth :
            NotMore(worth[j], worth[k]) /\ (k < j => worth[k] # worth[j])
FirstBestRow(j) ==
    CHOOSE i \in DOMAIN game : \A k \in DOMAIN game :
        game[k][j] <= game[i][j] /\ (k < i => game[k][j] < game[i][j])

MaximinStrategy(iterations) ==
    LET step[t \in 0 .. iterations] ==
            IF t = 0 THEN [now |-> UniformOver(Len(game)), sum |-> UniformOver(Len(game))]
            ELSE LET before == step[t - 1]
                     now == Shifted(before.now, FirstBestRow(WorstColumn(before.now)), Ratio(2, t + 2))
                 IN  [now |-> now, sum |-> [i \in DOMAIN game |-> Plus(before.sum[i], now[i])]]
        sum == step[iterations].sum
    IN  [i \in DOMAIN game |-> Over(sum[i], Total(sum))]
MaximinValue(strategy) == WorthAgainst(strategy, WorstColumn(strategy))

(* refine, without a payoff function.                                      *)
Robust(strategy) ==
    [i \in DOMAIN strategy |->
        Plus(Times(Ratio(95, 100), strategy[i]), Ratio(5, 100 * Len(strategy)))]

-----------------------------------------------------------------------------
(* ActionTranslator.translate_bet: the sizes next to a bet, the shares of  *)
(* each and how sure it is.                                                *)

Lower == {size \in BetSizes : size <= bet}
Upper == {size \in BetSizes : size >= bet}

(* Mutant: a size weighs by its own distance.                              *)
FarWeight(low, high) == Ratio(bet - low, high - low)
LowerWeight(low, high) == Ratio(high - bet, high - low)

(* A bet below all sizes is shared with the label "call" when              *)
(* include_check_call, and is otherwise the smallest of them.              *)
Translated(include_check_call) ==
    IF bet \in BetSizes THEN bet :> Unit
    ELSE IF Upper = {} THEN Max(BetSizes) :> Unit
    ELSE IF Lower = {} /\ ~include_check_call THEN Min(BetSizes) :> Unit
    ELSE LET low == IF Lower = {} THEN 0 ELSE Max(Lower)
             high == Min(Upper)
         IN  (low :> LowerWeight(low, high)) @@ (high :> Minus(Unit, LowerWeight(low, high)))

Confidence(include_check_call) ==
    IF bet \in BetSizes THEN Unit
    ELSE IF Upper = {} THEN Greater(Ratio(3, 10), Minus(Unit, Ratio(bet - Max(Lower), Max(Lower))))
    ELSE IF Lower = {} THEN IF include_check_call THEN Minus(Unit, Ratio(Min(Upper) - bet, Min(Upper)))
                            ELSE Ratio(1, 2)
    ELSE LET low == Max(Lower)
             high == Min(Upper)
         IN  Minus(Unit, Ratio(Min({bet - low, high - bet}), 2 * (high - low)))

LargerBet ==
    /\ topic = "bet" /\ bet < LargestBet /\ bet' = bet + 1
    /\ UNCHANGED <<topic, matrix, meta, game, play, min_bet, bankroll, wagered>>

-----------------------------------------------------------------------------
(* BankrollManager with its default multiplier and cap.                    *)

(* kelly_from_probability                                                  *)
Kelly(wager) ==
    LET fraction == Over(Minus(Times(wager.win_prob, Plus(wager.odds, Unit)), Unit), wager.odds)
    IN  IF wager.win_prob.num <= 0 \/ NotMore(Unit, wager.win_prob) THEN Zero
        ELSE LeastOf(Unit, Greater(Zero, fraction))

(* Mutant: the cap is forgotten.                                           *)
Uncapped(wager) == Greater(min_bet, Times(bankroll, Times(Kelly(wager), Ratio(1, 2))))

(* recommended_bet                                                         *)
RecommendedBet(wager) ==
    IF bankroll.num <= 0 THEN Zero
    ELSE Greater(min_bet, Times(bankroll, LeastOf(Times(Kelly(wager), Ratio(1, 2)), Ratio(1, 4))))

(* A bet as recommended is won or lost: update_bankroll.                   *)
Wager ==
    /\ topic = "bankroll" /\ wagered < MostWagers /\ wagered' = wagered + 1
    /\ \E wager \in Wagers, won \in BOOLEAN :
          bankroll' = IF won THEN Plus(bankroll, Times(RecommendedBet(wager), wager.odds))
                      ELSE Minus(bankroll, RecommendedBet(wager))
    /\ UNCHANGED <<topic, matrix, meta, game, play, bet, min_bet>>

-----------------------------------------------------------------------------
PayoffsInit ==
    /\ topic \in {"population", "game", "bet", "bankroll"}
    /\ matrix = <<<<0>>>> /\ meta = <<>>
    /\ game \in Games /\ (topic # "game" => game = CHOOSE g \in Games : TRUE)
    /\ LET alike == <<UniformOver(Len(game)), UniformOver(Len(game[1]))>>
       IN  play = [t |-> 0, strategies |-> alike, cum |-> alike]
    /\ bet = 1 /\ bankroll = Whole(100) /\ wagered = 0
    /\ min_bet \in MinBet /\ (topic # "bankroll" => min_bet = Zero)

PayoffsNext == TrainPolicy \/ FinishTraining \/ Iterate \/ LargerBet \/ Wager

-----------------------------------------------------------------------------
(* Properties.                                                             *)

(* What one policy wins the other loses; two policies are not mixed: the   *)
(* one that does not lose to the other is played.  What is worse than      *)
(* another policy against every opponent is never answered with.  Three    *)
(* policies and more are mixed by fictitious play and not, as psro.py:104  *)
(* says of up to eight, by their supports; no more is asked of the mixture.*)
PopulationSound ==
    LET n == Len(meta)
    IN  /\ \A i, j \in DOMAIN matrix : matrix[i][j] = -matrix[j][i]
        /\ n > 0 => Total(meta) = Unit
        /\ n = 2 => \E i \in 1 .. 2 : meta[i] = Unit /\ \A j \in 1 .. 2 : matrix[i][j] >= 0
        /\ n > 2 => \A i, k \in 1 .. n :
               (\A j \in 1 .. n : matrix[k][j] > matrix[i][j])
                   => NotMore(meta[i], Ratio(1, n + Rounds))

(* What a maximin strategy secures is never more than the first player can *)
(* have against any strategy of the second; made more robust it gives up   *)
(* no action and keeps their order.                                        *)
MaximinSound(strategy, average) ==
    /\ Total(strategy) = Unit
    /\ NotMore(MaximinValue(strategy), BestPayoff(1, average))
    /\ NotMore(MaximinValue(strategy), BestPayoff(1, play.strategies))
    /\ Total(Robust(strategy)) = Unit
    /\ \A i, k \in DOMAIN strategy :
           /\ NotMore(Ratio(1, 20 * Len(strategy)), Robust(strategy)[i])
           /\ NotMore(strategy[i], strategy[k]) <=> NotMore(Robust(strategy)[i], Robust(strategy)[k])

(* The pairs of actions that answer each other best.                       *)
Saddles ==
    {at \in (1 .. Len(game)) \X (1 .. Len(game[1])) :
        /\ \A i \in 1 .. Len(game) : game[i][at[2]] <= game[at[1]][at[2]]
        /\ \A j \in 1 .. Len(game[1]) : game[at[1]][j] >= game[at[1]][at[2]]}

(* After any number of iterations both players have strategies, nobody     *)
(* does better than by a best answer, and what both can gain is what the   *)
(* best answers of both are worth: the first player is never held to less  *)
(* by the average than any support secures it.  Where the players can meet *)
(* in a saddle point, the solution over the best of the supports is an     *)
(* equilibrium; in other games it need not be, although qp_nash.py:223     *)
(* calls it exact: it answers an even mixture with one action.             *)
GamesBounded ==
    topic = "game" =>
        LET solutions == {OnSupport(support) : support \in SUBSET (1 .. Len(game)) \ {{}}}
        IN  \A average \in {AveragePlay} :
                /\ \A strategies \in {play.strategies, average} :
                       /\ \A s \in BothSides : /\ Total(strategies[s]) = Unit
                                               /\ NotMore(Zero, GainOf(s, strategies))
                       /\ Exploitability(strategies) = Plus(BestPayoff(1, strategies), BestPayoff(2, strategies))
                /\ \A mixed \in solutions :
                       /\ NotMore(Negated(BestPayoff(2, mixed)), BestPayoff(1, average))
                       /\ Exploitability(mixed) = GainOf(1, mixed)
                /\ Saddles # {} => \E mixed \in solutions : Exploitability(mixed) = Zero
                /\ \A secured \in {MaximinStrategy(play.t)} : MaximinSound(secured, average)

(* A bet is shared by the sizes next to it, and no others, so that it is   *)
(* as large on the average unless there is none on one of its sides, and   *)
(* only a size that the solution knows is taken for certain.               *)
TranslationKeepsSize ==
    \A include_check_call \in BOOLEAN :
        LET sizes == Translated(include_check_call)
            least == IF include_check_call THEN 0 ELSE Min(BetSizes)
        IN  /\ Total(sizes) = Unit
            /\ SumOver(LAMBDA size : Times(sizes[size], Whole(size)), DOMAIN sizes)
                  = Whole(Max({least, Min({bet, Max(BetSizes)})}))
            /\ \A size \in BetSizes \ DOMAIN sizes : \A taken \in DOMAIN sizes :
                   ~(taken < size /\ size < bet) /\ ~(bet < size /\ size < taken)
            /\ NotMore(Zero, Confidence(include_check_call))
            /\ Confidence(include_check_call) = Unit <=> bet \in BetSizes

(* Whoever bets what is recommended and has no least bet is never ruined:  *)
(* three quarters of the bankroll survive every loss, and nothing is put   *)
(* on an offer without an edge.  A least bet is made whatever it is of the *)
(* bankroll, also where kelly.py:95 says "Never bet more than 25% of       *)
(* bankroll"; of a recommendation above it the same holds.                 *)
NeverRuined ==
    LET Kept[n \in 0 .. MostWagers] == IF n = 0 THEN Whole(100) ELSE Times(Kept[n - 1], Ratio(3, 4))
    IN  /\ min_bet = Zero => NotMore(Kept[wagered], bankroll)
        /\ \A wager \in Wagers :
               RecommendedBet(wager) # min_bet =>
                   /\ NotMore(Times(RecommendedBet(wager), Whole(4)), Greater(bankroll, Zero))
                   /\ bankroll.num > 0 => ~NotMore(Times(wager.win_prob, Plus(wager.odds, Unit)), Unit)

PayoffsHold == PopulationSound /\ GamesBounded /\ TranslationKeepsSize /\ NeverRuined
=============================================================================
