-------------------------------- MODULE MCPlay --------------------------------
(***************************************************************************)
(* Hands played by agents, tournaments of such hands, the two calculations *)
(* they rest on, what is learnt and told of hands once played, what a      *)
(* trainer keeps, and what is read of an opponent and made of it, each by  *)
(* itself: `part` says which of them runs, and the others stay as they     *)
(* begin.                                                                  *)
(***************************************************************************)
EXTENDS Orchestrator, Tournament, Evaluator, Icm, Training, Regrets, Coaching, Profiles,
        Exploit, Tells, Payoffs, Beliefs

VARIABLE part

AllRankings ==
    {r \in [Seats -> 0 .. NumSeats - 1] :
        \A s \in Seats : r[s] = 0 \/ \E t \in Seats : r[t] = r[s] - 1}

(* Deep stacks, a stack that a raise exceeds, and one deeper than another. *)
Heads(a, b) == [s \in Seats |-> IF s = 0 THEN a ELSE b]
Stacks == {Heads(14, 14), Heads(3, 9), Heads(20, 7)}

(* A read on every side of the thresholds, and cards that change a rule.   *)
Read(equity, cards) ==
    [equity |-> equity, premium |-> cards = "premium",
     playable |-> cards \in {"premium", "playable"}, paired |-> cards \in {"premium", "paired"}]
SomeReads ==
    {Read(30, "none"), Read(50, "paired"), Read(50, "premium"), Read(55, "playable"),
     Read(63, "none"), Read(67, "none"), Read(75, "none")}

(* Odd numbers of entrants, byes in two rounds, and a name that is entered *)
(* twice.                                                                  *)
SomeFields ==
    [round_robin |-> {<<"a", "b", "c">>, <<"a", "b", "a">>},
     knockout |-> {<<"a">>, <<"a", "b", "c", "d">>, <<"a", "b", "c", "d", "e">>}]

(* Four suits of five values, and two suits of six for hands of up to      *)
(* seven cards.                                                            *)
SomeDecks ==
    {[cards |-> [value : {2, 3, 4, 5, 14}, suit : 1 .. 3], most |-> 5],
     [cards |-> [value : {2, 3, 14}, suit : 1 .. 4], most |-> 5],
     [cards |-> [value : {2, 3, 4, 5, 6, 14}, suit : 1 .. 2], most |-> 7]}

SomeIcmTables ==
    {[stacks |-> <<2>>, payouts |-> <<1>>], [stacks |-> <<3, 3, 2>>, payouts |-> <<5, 3, 2>>],
     [stacks |-> <<3, 3, 2, 1>>, payouts |-> <<5, 3>>],
     [stacks |-> <<2, 2, 1, 1, 1>>, payouts |-> <<5, 3, 2, 1>>],
     [stacks |-> <<9, 1, 1>>, payouts |-> <<5, 3, 2>>], [stacks |-> <<9, 1, 1>>, payouts |-> <<5>>],
     [stacks |-> <<2, 1, 1, 1, 1, 1>>, payouts |-> <<6, 5, 4, 3, 2, 1>>],
     [stacks |-> <<2, 1, 1, 1, 1, 1, 1>>, payouts |-> <<5, 3, 2>>]}

(* Three actions, of which one or two turn out best, and two.              *)
Worth(a, b, c) == [fold |-> Whole(a), call |-> Whole(b), raise |-> Whole(c)]
SomeUtilities ==
    [first |-> {Worth(-2, 0, 1), Worth(1, 0, -2), Worth(0, 1, 1)},
     second |-> {[fold |-> Whole(1), call |-> Whole(-2)]}]

(* The discounts of the first iteration.                                   *)
SomeDiscounts == [positive |-> Ratio(1, 2), negative |-> Ratio(1, 2), sum |-> Ratio(1, 4)]

(* A spot with a price and one without, in buckets of their own.           *)
SomeSpots ==
    {[street |-> "flop", seat |-> 0, button |-> 0, spr |-> 45, equity |-> 70, pot_odds |-> 25,
      to_call |-> 2, texture |-> "dry", legal |-> {"fold", "call", "raise"}],
     [street |-> "turn", seat |-> 1, button |-> 0, spr |-> 10, equity |-> 40, pot_odds |-> 0,
      to_call |-> 0, texture |-> "wet", legal |-> {"check", "bet"}]}

(* Opponents of every kind, after few hands and after many.                *)
Batch(hands, vpip, pfr, aggressive, passive, folds) ==
    [hands |-> hands, vpip |-> vpip, pfr |-> pfr,
     aggressive |-> aggressive, passive |-> passive, folds |-> folds]
SomeBatches ==
    {Batch(10, 1, 0, 1, 1, 9), Batch(10, 2, 2, 6, 2, 8), Batch(60, 12, 3, 10, 10, 40),
     Batch(60, 30, 20, 90, 20, 20), Batch(60, 50, 5, 20, 90, 20), Batch(60, 30, 5, 30, 30, 30)}
SomeOpenings ==
    LET priced == [fold |-> Ratio(1, 4), call |-> Ratio(1, 2), raise |-> Ratio(1, 4)]
        free == [check |-> Ratio(1, 2), bet |-> Ratio(1, 2)]
    IN  {[gto |-> priced, baseline |-> "fold"], [gto |-> priced, baseline |-> "raise"],
         [gto |-> free, baseline |-> "check"], [gto |-> free, baseline |-> "bet"],
         [gto |-> [fold |-> Zero, call |-> Unit], baseline |-> "call"]}

(* A bias by itself, two together, and none but the anchor.                *)
Mind(invested, losing, bluffed, streets, folds) ==
    [invested |-> invested, losing |-> losing, bluffed |-> bluffed, streets |-> streets,
     folds |-> folds, anchor |-> Ratio(4, 5)]
SomeMinds ==
    {Mind(Zero, Zero, FALSE, 0, 0), Mind(Ratio(4, 5), Zero, FALSE, 0, 0),
     Mind(Zero, Ratio(1, 2), FALSE, 1, 0), Mind(Zero, Zero, TRUE, 0, 0),
     Mind(Zero, Zero, FALSE, 3, 0), Mind(Zero, Zero, FALSE, 0, 5),
     Mind(Ratio(4, 5), Zero, FALSE, 2, 0), Mind(Ratio(4, 5), Zero, TRUE, 0, 0),
     Mind(Zero, Zero, TRUE, 0, 7)}
SomeBlends == {Zero, Ratio(1, 2), Unit}

(* Moves fast and slow, small and larger than the pot.                     *)
Move(action, street, time, size) ==
    [action |-> action, street |-> street, time |-> time, size |-> size]
SomeMoves ==
    {Move("call", "preflop", 1, 0), Move("raise", "preflop", 12, 150), Move("fold", "preflop", 4, 0),
     Move("check", "preflop", 3, 0), Move("bet", "flop", 1, 30), Move("bet", "flop", 5, 60),
     Move("bet", "flop", 2, 120)}
SomeResults ==
    {[won |-> TRUE, profit |-> 5, badBeat |-> FALSE, showdown |-> FALSE],
     [won |-> FALSE, profit |-> -60, badBeat |-> TRUE, showdown |-> TRUE],
     [won |-> FALSE, profit |-> 0, badBeat |-> FALSE, showdown |-> FALSE]}
SomeSnapshots ==
    {<<Ratio(2, 10), Ratio(1, 10), Whole(1), Ratio(6, 10)>>,
     <<Ratio(8, 10), Ratio(6, 10), Whole(3), Ratio(2, 10)>>}

(* Rock, paper and scissors; a game without a pure solution; one in which  *)
(* a column is never worth playing; and one with a saddle point.           *)
SomeGames ==
    {<<<<0, -1, 1>>, <<1, 0, -1>>, <<-1, 1, 0>>>>, <<<<3, -1>>, <<-2, 2>>>>,
     <<<<1, 2, 0>>, <<0, 1, 3>>>>, <<<<0, 4>>, <<1, 2>>, <<-1, 5>>>>}
SomePayoffs == {-1, 0, 2}

(* An edge, a great edge, none, and one with long odds.                    *)
SomeWagers ==
    {[win_prob |-> Ratio(3, 5), odds |-> Unit], [win_prob |-> Ratio(9, 10), odds |-> Unit],
     [win_prob |-> Ratio(2, 5), odds |-> Unit], [win_prob |-> Ratio(1, 2), odds |-> Whole(2)]}
SomeMinBets == {Zero, Whole(60)}

(* Two kinds that one call tells apart.                                    *)
SomeParams ==
    [rock |-> [vpip |-> Percent(10), pfr |-> Percent(8), aggression |-> Unit],
     fish |-> [vpip |-> Percent(45), pfr |-> Percent(10), aggression |-> Ratio(3, 2)]]
SomeTransitions == [rock |-> {"fish"}, fish |-> {}]
SomeTemplates ==
    <<{<<"raised", "preflop">>}, {<<"bet", "flop">>}, {<<"called", "flop">>}, {<<"check", "turn">>}>>
SomePastLines ==
    {<<>>, <<<<"raise", "pre_flop">>, <<"bet", "flop">>>>, <<<<"call", "pre_flop">>, <<"check", "flop">>>>,
     <<<<"raise", "pre_flop">>, <<"all_in", "flop">>, <<"check", "turn">>>>}
SomeDoings == {<<"raise", "pre_flop">>, <<"call", "pre_flop">>, <<"bet", "flop">>, <<"check", "turn">>}
SomeObserved == [range |-> 2, particles |-> 2, tree |-> 3, predictor |-> 4]

-----------------------------------------------------------------------------
Parts ==
    {"hand", "tournament", "cards", "icm", "learning", "regrets", "coaching", "profiles",
     "exploit", "tells", "payoffs", "beliefs"}

judgingVars == <<dealt, icmVars, learningVars, regretVars>>
watchingVars == <<coachVars, profileVars, exploitVars, tellsVars, payoffVars, beliefVars>>
partsVars == <<part, playVars, tournamentVars, judgingVars, watchingVars>>

Idles(p, choice) == part # p => choice

(* A match of two kinds of agent; of one kind the orchestrator plays, and  *)
(* who wins is nothing to the loop of a match.                             *)
MatchOfTwoKinds == agent[0] # agent[1] /\ deck = [s \in Seats |-> s]

PartsInit ==
    /\ part \in Parts
    /\ EvaluatorInit
    /\ LearningInit
    /\ RegretsInit
    /\ CoachInit
    /\ ProfilesInit
    /\ TellsInit
    /\ ExploitInit
    /\ Idles("exploit", /\ ~tracked /\ exploit_blend = Zero
                        /\ opening = CHOOSE first \in Openings : TRUE)
    /\ PayoffsInit /\ Idles("payoffs", topic = "bet")
    /\ BeliefsInit /\ Idles("beliefs", model = "range" /\ particles = FirstParticles("fish"))
    /\ IcmInit /\ Idles("icm", Len(stacks) = 1)
    /\ TournamentInit /\ Idles("tournament", mode = "knockout" /\ Len(entrants) = 1)
    /\ PlayInit
    /\ driver = "match" => MatchOfTwoKinds
    /\ Idles("hand", /\ initial_stacks = Heads(14, 14) /\ hand.button = 0
                     /\ deck = [s \in Seats |-> 0]
                     /\ driver = "orchestrator" /\ agent = [s \in Seats |-> "baseline"])

PlaysHand ==
    /\ part = "hand" /\ PlayNext
    /\ UNCHANGED <<part, tournamentVars, judgingVars, watchingVars>>
PlaysTournament ==
    /\ part = "tournament" /\ TournamentNext
    /\ UNCHANGED <<part, playVars, judgingVars, watchingVars>>
Ranks ==
    /\ part = "cards" /\ EvaluatorNext
    /\ UNCHANGED <<part, playVars, tournamentVars, icmVars, learningVars, regretVars, watchingVars>>
Values ==
    /\ part = "icm" /\ WinChip
    /\ UNCHANGED <<part, playVars, tournamentVars, dealt, learningVars, regretVars, watchingVars>>
Learns ==
    /\ part = "learning" /\ LearningNext
    /\ UNCHANGED <<part, playVars, tournamentVars, dealt, icmVars, regretVars, watchingVars>>
Trains ==
    /\ part = "regrets" /\ RegretsNext
    /\ UNCHANGED <<part, playVars, tournamentVars, dealt, icmVars, learningVars, watchingVars>>

Coaches ==
    /\ part = "coaching" /\ CoachNext
    /\ UNCHANGED <<part, playVars, tournamentVars, judgingVars,
                   profileVars, exploitVars, tellsVars, payoffVars, beliefVars>>
Profiled ==
    /\ part = "profiles" /\ ProfilesNext
    /\ UNCHANGED <<part, playVars, tournamentVars, judgingVars,
                   coachVars, exploitVars, tellsVars, payoffVars, beliefVars>>
Bends ==
    /\ part = "exploit" /\ Observes
    /\ UNCHANGED <<part, playVars, tournamentVars, judgingVars,
                   coachVars, profileVars, tellsVars, payoffVars, beliefVars>>
Notices ==
    /\ part = "tells" /\ TellsNext
    /\ UNCHANGED <<part, playVars, tournamentVars, judgingVars,
                   coachVars, profileVars, exploitVars, payoffVars, beliefVars>>
Solves ==
    /\ part = "payoffs" /\ PayoffsNext
    /\ UNCHANGED <<part, playVars, tournamentVars, judgingVars,
                   coachVars, profileVars, exploitVars, tellsVars, beliefVars>>
Believes ==
    /\ part = "beliefs" /\ BeliefsNext
    /\ UNCHANGED <<part, playVars, tournamentVars, judgingVars,
                   coachVars, profileVars, exploitVars, tellsVars, payoffVars>>

(* What has come to its end, or to the bound on its size, rests; what      *)
(* watches a player can stop at any time.                                  *)
Rests ==
    \/ part = "learning" /\ Len(rows) = MaxRows
    \/ part = "regrets" /\ learned = MaxLearned /\ calls = MaxCalls
    \/ part = "coaching" /\ played = MaxStreets
    \/ part \in {"profiles", "exploit", "tells", "payoffs", "beliefs"}

PartsNext ==
    \/ PlaysHand \/ PlaysTournament \/ Ranks \/ Values \/ Learns \/ Trains
    \/ Coaches \/ Profiled \/ Bends \/ Notices \/ Solves \/ Believes
    \/ Rests /\ UNCHANGED partsVars

PartsSpec ==
    /\ PartsInit /\ [][PartsNext]_partsVars
    /\ part = "hand" => PlayFairness
    /\ part = "tournament" => TournamentFairness

(* What the parts promise, each while it runs: the others rest in a state  *)
(* that is always the same.                                                *)

(* Agents decide what the engine takes, and what the orchestrator stores   *)
(* of a hand plays it again.                                               *)
HandsHold == part = "hand" => DecisionsAccepted /\ LogReplays

(* A tournament's standings add up and one defeat eliminates.              *)
TournamentsHold == part = "tournament" => TournamentSound

(* The calculations that hands and tournaments rest on: the evaluator      *)
(* ranks by the rules of poker; equities are Harville's, and what is made  *)
(* of them agrees.                                                         *)
CalculationsHold == /\ part = "cards" => RanksByTheRules
                    /\ part = "icm" => IcmSound

(* What is learnt from rows and what is measured of it adds up, and what a *)
(* trainer has learnt survives quantizing, saving and warm starts.         *)
TrainingHolds == /\ part = "learning" => ModelsAddUp
                 /\ part = "regrets" => LearningIsKept

(* Analytics, profile, coach and curriculum judge a decision alike.        *)
CoachesAgree == part = "coaching" => CoachingAgrees

(* The trackers of an opponent count what it did, and count it alike.      *)
ProfilesHold == part = "profiles" => ProfilesAgree

(* What is read of an opponent is what it did, and what is made of it is   *)
(* a strategy, an average or a stake that the reading bears out.           *)
OpponentsRead ==
    /\ part = "exploit" => Exploits
    /\ part = "tells" => TellsRead
    /\ part = "payoffs" => PayoffsHold
    /\ part = "beliefs" => BeliefsHold

(* What was begun comes to an end: hands and tournaments.                  *)
PlayOrTournamentEnds ==
    /\ part = "hand" => PlayEnds
    /\ part = "tournament" => TournamentEnds
=============================================================================
