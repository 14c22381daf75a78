-------------------------------- MODULE Tells --------------------------------
(***************************************************************************)
(* What one opponent gives away, as packages/opponent_model reads it: how  *)
(* long it thinks (timing_tells.py, fatigue_model.py), how much it bets    *)
(* (sizing_tells.py), whether losing has changed how it plays              *)
(* (tilt_detector.py) and whether it adapts to us (meta_game.py).          *)
(*                                                                         *)
(* Times are in seconds, bets in hundredths of the pot, and what the code  *)
(* computes in floating point is an exact fraction; a comparison with a    *)
(* square root is one of squares.                                          *)
(***************************************************************************)
EXTENDS Fractions, Sequences, SequencesExt

CONSTANTS
    Moves,          \* what may be observed: [action, street, time, size]
    Results,        \* how a hand may end: [won, profit, badBeat, showdown]
    RecentMoves, BaselineMoves,    \* recent_window * 4, baseline_window * 4
    SizingWindow,   \* window_size of SizingTellDetector
    TrendLeast, SizingLeast,       \* the least for a trend (10) and for a score (5)
    Snapshots,      \* what MetaGameTracker may be told: sequences of fractions
    RecentSize, BaselineSize,      \* its recent_window and baseline_window
    MostTold,       \* bound on moves and results
    MostSnapshots,  \* bound on snapshots
    MostAsked       \* bound on the questions to MetaGameTracker

VARIABLES
    moves,      \* every move that was observed: _events, _decision_times
    timing,     \* _RunningStats by action and "overall"
    sizes,      \* SizingTellDetector._all_events
    recent, baseline,   \* TiltDetector: _recent_actions, _baseline_actions
    results,    \* TiltDetector._baseline_results
    streak,     \* _current_loss_streak
    snapshots,  \* MetaGameTracker._snapshots
    prev_delta, \* MetaGameTracker._prev_delta, or <<>>
    answers,    \* history: its last two answers, and how much it had been told
    told        \* history: how many snapshots and how many questions there were

movesVars == <<moves, timing, sizes, recent, baseline>>
metaVars == <<snapshots, prev_delta, answers, told>>
tellsVars == <<movesVars, results, streak, metaVars>>

Betting == {"bet", "raise", "all_in"}
Actions == {move.action : move \in Moves}

(* deque(maxlen = size).append.                                            *)
Keep(deque, item, size) ==
    IF Len(deque) < size THEN Append(deque, item) ELSE Append(Tail(deque), item)

SumOf(seq) == FoldSeq(Plus, Zero, seq)

-----------------------------------------------------------------------------
(* TimingTellAnalyzer.                                                     *)

NoTimes == [n |-> 0, mean |-> Zero, m2 |-> Zero]

(* Mutant: both factors take the mean before the observation.              *)
PushOldMean(stats, x) ==
    LET delta == Minus(x, stats.mean)
    IN  [n |-> stats.n + 1, mean |-> Plus(stats.mean, Over(delta, Whole(stats.n + 1))),
         m2 |-> Plus(stats.m2, Times(delta, delta))]

(* _RunningStats.push                                                      *)
PushTime(stats, x) ==
    LET delta == Minus(x, stats.mean)
        mean == Plus(stats.mean, Over(delta, Whole(stats.n + 1)))
    IN  [n |-> stats.n + 1, mean |-> mean,
         m2 |-> Plus(stats.m2, Times(delta, Minus(x, mean)))]

Variance(stats) == IF stats.n < 2 THEN Zero ELSE Over(stats.m2, Whole(stats.n - 1))

(* The sign of a z_score beyond 1.5; a deviation below a millisecond is    *)
(* none.                                                                   *)
Unusual(action, time) ==
    LET off == Minus(Whole(time), timing[action].mean)
        variance == Variance(timing[action])
    IN  IF variance = Zero \/ NotMore(Times(Whole(4), Times(off, off)), Times(Whole(9), variance))
        THEN 0 ELSE IF off.num > 0 THEN 1 ELSE -1

(* infer_hand_strength, in hundredths: is_snap_action within two seconds,  *)
(* is_tank_action from ten on.                                             *)
HandStrength(action, big, time) ==
    LET signal ==
            CASE action \in Betting -> IF time <= 2 THEN IF big THEN 70 ELSE 30
                                       ELSE IF time < 10 THEN 0 ELSE IF big THEN -50 ELSE -20
              [] action = "fold" -> IF time <= 2 THEN 20 ELSE IF time < 10 THEN 0 ELSE -10
              [] action \in {"check", "call"} -> IF time < 10 THEN 0 ELSE -20
    IN  signal - 15 * Unusual(action, time)

(* FatigueModel.decision_speed_trend: the slope, times a positive number.  *)
SpeedTrend ==
    LET n == Len(moves)
        Sum(Of(_)) == FoldSet(LAMBDA i, sum : Of(i) + sum, 0, 1 .. n)
    IN  IF n < TrendLeast THEN 0
        ELSE n * Sum(LAMBDA i : (i - 1) * moves[i].time)
                 - Sum(LAMBDA i : i - 1) * Sum(LAMBDA i : moves[i].time)

-----------------------------------------------------------------------------
(* SizingTellDetector.polarization_score.                                  *)

SizesIn(low, high) == Len(SelectSeq(sizes, LAMBDA size : low < size /\ size <= high))
SmallBets == SizesIn(0, 40)
LargeBets == SizesIn(80, 1000)

Polarization ==
    LET n == Len(sizes)
        extremes == SmallBets + LargeBets
        fewer == IF SmallBets < LargeBets THEN SmallBets ELSE LargeBets
    IN  IF n < SizingLeast \/ extremes = 0 THEN Zero
        ELSE Times(Times(Ratio(extremes, n), Minus(Unit, Ratio(SizesIn(40, 80), n))),
                   Ratio(2 * fewer, extremes))

-----------------------------------------------------------------------------
(* TiltDetector.                                                           *)

RateOf(window, Of(_), Counts(_)) ==
    LET of == SelectSeq(window, Of)
    IN  IF of = <<>> THEN Zero ELSE Ratio(Len(SelectSeq(of, Counts)), Len(of))

Preflop(move) == move.street = "preflop"
Bets(move) == move.action \in Betting
Overbets(move) == move.size > 100
VpipRate(window) == RateOf(window, Preflop, LAMBDA move : Bets(move) \/ move.action = "call")
RaiseRate(window) == RateOf(window, LAMBDA move : TRUE, Bets)
OverbetRate(window) == RateOf(window, Bets, Overbets)
FoldRate(window) == RateOf(window, Preflop, LAMBDA move : move.action = "fold")

Pnl == FoldSeq(LAMBDA result, sum : result.profit + sum, 0, results)

(* compute_indicators                                                      *)
Indicators ==
    [vpip |-> Minus(VpipRate(recent), VpipRate(baseline)),
     raises |-> Minus(RaiseRate(recent), RaiseRate(baseline)),
     folds |-> Minus(FoldRate(baseline), FoldRate(recent)),
     overbets |-> IF NotMore(OverbetRate(baseline), Ratio(1, 100))
                  THEN Times(OverbetRate(recent), Whole(10))
                  ELSE Over(OverbetRate(recent), OverbetRate(baseline))]

(* composite_tilt_score before the sigmoid: weights by norms.              *)
WeightedSum ==
    LET ind == Indicators
        Rise(change, weight) == Times(Greater(change, Zero), weight)
    IN  SumOf(<<Rise(ind.vpip, Ratio(25, 15)), Rise(ind.raises, Ratio(20, 15)),
                Rise(ind.folds, Ratio(15, 15)), Rise(Minus(ind.overbets, Unit), Ratio(10, 200)),
                Rise(Whole(-Pnl), Ratio(10, 5000)), Ratio(20 * streak, 500)>>)

(* detect_tilt: the sums at which sigmoid(4 * (sum - 0.25)) is a quarter   *)
(* and three quarters, to five digits.                                     *)
TiltState ==
    LET Under(limit) == ~NotMore(limit, WeightedSum)
    IN  CASE Len(results) < 2 \/ Under(Ratio(-2465, 100000)) -> "normal"
          [] OTHER -> IF Under(Ratio(1, 4)) THEN "mild_tilt"
                      ELSE IF Under(Ratio(52465, 100000)) THEN "full_tilt" ELSE "steaming"

-----------------------------------------------------------------------------
(* What is told of a move and of the end of a hand.                        *)

TellsInit ==
    /\ moves = <<>> /\ timing = [key \in Actions \cup {"overall"} |-> NoTimes]
    /\ sizes = <<>> /\ recent = <<>> /\ baseline = <<>> /\ results = <<>> /\ streak = 0
    /\ snapshots = <<>> /\ prev_delta = <<>> /\ answers = <<>> /\ told = [snapshots |-> 0, asked |-> 0]

Told == told.snapshots = 0 /\ Len(moves) + Len(results) < MostTold

(* record_timing, record_decision_time, record_sizing of a bet and         *)
(* TiltDetector.record_action.                                             *)
MoveSeen ==
    /\ Told
    /\ \E move \in Moves :
          /\ moves' = Append(moves, move)
          /\ timing' = [key \in DOMAIN timing |->
                IF key \in {move.action, "overall"} THEN PushTime(timing[key], Whole(move.time))
                ELSE timing[key]]
          /\ sizes' = IF Bets(move) THEN Keep(sizes, move.size, SizingWindow) ELSE sizes
          /\ recent' = Keep(recent, move, RecentMoves)
          /\ baseline' = Keep(baseline, move, BaselineMoves)
    /\ UNCHANGED <<results, streak, metaVars>>

(* Mutant: a hand that is won leaves the streak.                           *)
StreakGoesOn(before, result) ==
    before + (IF ~result.won /\ (result.profit < 0 \/ result.showdown) THEN 1 ELSE 0)
           + (IF result.badBeat THEN 1 ELSE 0)

StreakAfter(before, result) ==
    (IF result.won THEN 0 ELSE IF result.profit < 0 \/ result.showdown THEN before + 1 ELSE before)
        + (IF result.badBeat THEN 1 ELSE 0)

(* record_hand_result                                                      *)
HandEnds ==
    /\ Told
    /\ \E result \in Results :
          results' = Append(results, result) /\ streak' = StreakAfter(streak, result)
    /\ UNCHANGED <<movesVars, metaVars>>

-----------------------------------------------------------------------------
(* MetaGameTracker.                                                        *)

(* record_stats_snapshot                                                   *)
Snapshot ==
    /\ moves = <<>> /\ results = <<>> /\ told.snapshots < MostSnapshots
    /\ \E stats \in Snapshots : snapshots' = Keep(snapshots, stats, BaselineSize)
    /\ told' = [told EXCEPT !.snapshots = @ + 1]
    /\ UNCHANGED <<movesVars, results, streak, prev_delta, answers>>

Mean(window, i) == Over(SumOf([k \in DOMAIN window |-> window[k][i]]), Whole(Len(window)))
LastOf(seq, n) == SubSeq(seq, IF Len(seq) > n THEN Len(seq) - n + 1 ELSE 1, Len(seq))

(* _stat_delta; the third one, the aggression, counts by a fifth.          *)
Delta ==
    [i \in 1 .. 4 |->
        Over(Minus(Mean(LastOf(snapshots, RecentSize), i), Mean(snapshots, i)),
             Whole(IF i = 3 THEN 5 ELSE 1))]
Dot(a, b) == SumOf([i \in 1 .. 4 |-> Times(a[i], b[i])])

TooFew == Len(snapshots) < BaselineSize \div 2 \/ Len(LastOf(snapshots, RecentSize)) < RecentSize \div 2
Near == ~NotMore(Ratio(1, 100), Dot(Delta, Delta))

Detected ==
    CASE TooFew \/ Near -> "static"
      [] ~TooFew /\ ~Near ->
            IF prev_delta # <<>> /\ ~NotMore(Ratio(-8, 100), Dot(Delta, prev_delta))
            THEN "counter_adapting" ELSE "adapting"

(* Mutant: a calm opponent leaves what it did before it was calm.          *)
KeptDelta == IF TooFew \/ Near THEN prev_delta ELSE Delta
NextDelta == IF TooFew THEN prev_delta ELSE IF Near THEN <<>> ELSE Delta

(* detect_adaptation, asked for itself or by thinking_level or             *)
(* recommended_response, remembers what it saw.                            *)
Ask ==
    /\ told.asked < MostAsked /\ moves = <<>> /\ results = <<>>
    /\ answers' = Keep(answers, [said |-> Detected, knowing |-> told.snapshots], 2)
    /\ prev_delta' = NextDelta
    /\ told' = [told EXCEPT !.asked = @ + 1]
    /\ UNCHANGED <<movesVars, results, streak, snapshots>>

TellsNext == MoveSeen \/ HandEnds \/ Snapshot \/ Ask

-----------------------------------------------------------------------------
(* Properties.                                                             *)

(* The statistics that are kept running are those of the times that were   *)
(* observed, overall and by action.                                        *)
TimingIsTold ==
    \A key \in DOMAIN timing :
        LET own == SelectSeq(moves, LAMBDA move : key \in {move.action, "overall"})
            times == [i \in DOMAIN own |-> Whole(own[i].time)]
            n == Len(own)
        IN  /\ timing[key].n = n
            /\ Times(Whole(n), timing[key].mean) = SumOf(times)
            /\ timing[key].m2 = Minus(SumOf([i \in 1 .. n |-> Times(times[i], times[i])]),
                                      Times(timing[key].mean, SumOf(times)))

(* Whoever takes longer over the same action never reads stronger, however *)
(* the usual times turned out.                                             *)
FasterIsStronger ==
    LET times == {move.time : move \in Moves}
    IN  \A action \in Actions, big \in BOOLEAN :
            LET strength == [time \in times |-> HandStrength(action, big, time)]
            IN  \A t1, t2 \in times : t1 <= t2 => strength[t1] >= strength[t2]

(* Decisions that only get slower have a rising trend, equal ones none.    *)
TrendOfTimes ==
    LET Slower(i) == moves[i].time <= moves[i + 1].time
    IN  /\ Len(moves) >= TrendLeast /\ (\A i \in 1 .. Len(moves) - 1 : Slower(i)) =>
               SpeedTrend > 0 <=> moves[1].time < Last(moves).time
        /\ SpeedTrend # 0 => \E i, j \in DOMAIN moves : moves[i].time # moves[j].time

(* Only bets half of them small and half of them large are fully           *)
(* polarized, and bets of which none is small, or none large, not at all.  *)
PolarizedByBoth ==
    /\ NotMore(Zero, Polarization) /\ NotMore(Polarization, Unit)
    /\ Polarization = Unit <=> /\ Len(sizes) >= SizingLeast
                               /\ SmallBets = LargeBets /\ SmallBets + LargeBets = Len(sizes)
    /\ Polarization = Zero <=> Len(sizes) < SizingLeast \/ SmallBets = 0 \/ LargeBets = 0

(* More than a mild tilt has a cause: lost hands, lost money, or play that *)
(* is not what it was.  The streak is of the hands since the last one won, *)
(* and as long as the opponent never checks before the flop its folds tell *)
(* what its vpip tells.                                                    *)
TiltHasCause ==
    LET wins == {i \in DOMAIN results : results[i].won}
        since == SubSeq(results, IF wins = {} THEN 1 ELSE Max(wins) + 1, Len(results))
        lost == SelectSeq(since, LAMBDA r : r.profit < 0 \/ r.showdown)
        beats == SelectSeq(since, LAMBDA r : r.badBeat)
    IN  /\ streak = Len(lost) + Len(beats)
        /\ recent = baseline /\ streak = 0 /\ Pnl >= 0 => TiltState \in {"normal", "mild_tilt"}
        /\ (\A i \in DOMAIN baseline : Preflop(baseline[i]) => baseline[i].action # "check")
               /\ SelectSeq(recent, Preflop) # <<>> => Indicators.folds = Indicators.vpip

(* Only who was seen adapting can be seen to turn round, and who is asked  *)
(* about with nothing new does not begin or cease to adapt.                *)
CountersAreNews ==
    Len(answers) = 2 =>
        /\ answers[2].said = "counter_adapting" => answers[1].said # "static"
        /\ answers[1].knowing = answers[2].knowing =>
               answers[2].said = "static" <=> answers[1].said = "static"

TellsRead ==
    /\ TimingIsTold /\ FasterIsStronger /\ TrendOfTimes /\ PolarizedByBoth
    /\ TiltHasCause /\ CountersAreNews
=============================================================================
