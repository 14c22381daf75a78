------------------------------ MODULE Tournament ------------------------------
(***************************************************************************)
(* TournamentService of services/tournament_service: matches of            *)
(* MatchHarness.run between named entrants, each with everybody else in    *)
(* round_robin, or in rounds of pairs in knockout.                         *)
(*                                                                         *)
(* A match is its result.  Its hands start with equal stacks and keep      *)
(* their chips on the table, so that a hand is what seat 0 has won or lost *)
(* in it and which seat, if any, is its winner_seat.                       *)
(***************************************************************************)
EXTENDS Integers, Sequences, FiniteSets, SequencesExt

CONSTANTS
    Names,          \* the names that entrants may be given under
    Fields,         \* Fields[mode]: the lists of entrants it may be called with
    HandsPerMatch,
    MaxSwing,       \* bound on what a hand may move
    NoName          \* Python's None for an entrant

Modes == {"round_robin", "knockout"}

ASSUME NamesAssumption == IsFiniteSet(Names) /\ NoName \notin Names
ASSUME FieldsAssumption == \A m \in Modes : Fields[m] \subseteq Seq(Names)
ASSUME MatchAssumption == HandsPerMatch \in Nat \ {0} /\ MaxSwing \in Nat

VARIABLES
    mode,          \* "round_robin" or "knockout"
    entrants,      \* the list the service was called with
    fixtures,      \* matches that have been played, with their results
    leaderboard,   \* round_robin: leaderboard[name]
    remaining,     \* knockout: the entrants still in, in order
    next_round,    \* knockout: the winners of this round so far
    match          \* the match under way: its seats and its running totals

tournamentVars == <<mode, entrants, fixtures, leaderboard, remaining, next_round, match>>

NoMatch == [seat0 |-> NoName, seat1 |-> NoName, hands |-> 0, profit |-> 0, wins0 |-> 0, wins1 |-> 0]
NewMatch(a, b) == [NoMatch EXCEPT !.seat0 = a, !.seat1 = b]
Idle == match = NoMatch

(* A name has a row from its first match on.                               *)
EmptyRow == [matches |-> 0, hands |-> 0, profit |-> 0, wins |-> 0, opponents_beaten |-> 0]

TournamentInit ==
    /\ mode \in Modes
    /\ entrants \in Fields[mode]
    /\ fixtures = <<>>
    /\ leaderboard = [name \in Names |-> EmptyRow]
    /\ remaining = IF mode = "knockout" THEN entrants ELSE <<>>
    /\ next_round = <<>>
    /\ match = NoMatch

(* The pairs of the two for loops, in their order.                         *)
Pairs == {p \in (DOMAIN entrants) \X (DOMAIN entrants) : p[1] < p[2]}
PairNumber(p) == Cardinality({q \in Pairs : q[1] < p[1] \/ (q[1] = p[1] /\ q[2] < p[2])})

StartFixture ==
    /\ mode = "round_robin" /\ Idle
    /\ \E p \in Pairs :
          /\ PairNumber(p) = Len(fixtures)
          /\ match' = NewMatch(entrants[p[1]], entrants[p[2]])
    /\ UNCHANGED <<mode, entrants, fixtures, leaderboard, remaining, next_round>>

(* One hand of MatchHarness.run.  A hand that seat 0 has won cannot cost   *)
(* it chips; a split pot has no winner and gives each its own chips back.  *)
PlayHand ==
    /\ ~Idle /\ match.hands < HandsPerMatch
    /\ \E swing \in -MaxSwing .. MaxSwing :
          match' = [match EXCEPT !.hands = @ + 1,
                                 !.profit = @ + swing,
                                 !.wins0 = @ + (IF swing > 0 THEN 1 ELSE 0),
                                 !.wins1 = @ + (IF swing < 0 THEN 1 ELSE 0)]
    /\ UNCHANGED <<mode, entrants, fixtures, leaderboard, remaining, next_round>>

MatchOver == ~Idle /\ match.hands = HandsPerMatch

Credit(rows, name, profit, wins, beaten) ==
    [rows EXCEPT ![name].matches = @ + 1,
                 ![name].hands = @ + HandsPerMatch,
                 ![name].profit = @ + profit,
                 ![name].wins = @ + wins,
                 ![name].opponents_beaten = @ + (IF beaten THEN 1 ELSE 0)]

Fixture(winner) ==
    [seat0 |-> match.seat0, seat1 |-> match.seat1, profit |-> match.profit, winner |-> winner]

FinishFixture ==
    /\ mode = "round_robin" /\ MatchOver
    /\ fixtures' = Append(fixtures, Fixture(NoName))
    /\ leaderboard' =
           Credit(Credit(leaderboard, match.seat0, match.profit, match.wins0, match.profit > 0),
                  match.seat1, -match.profit, match.wins1, match.profit < 0)
    /\ match' = NoMatch
    /\ UNCHANGED <<mode, entrants, remaining, next_round>>

-----------------------------------------------------------------------------
(* knockout: neighbours in `remaining` meet; the last of an odd number has *)
(* a bye; seat 0 goes on after a draw.                                     *)

PairsPlayed == 2 * Len(next_round)
PairLeft == PairsPlayed + 1 < Len(remaining)

StartPair ==
    /\ mode = "knockout" /\ Idle /\ Len(remaining) > 1 /\ PairLeft
    /\ match' = NewMatch(remaining[PairsPlayed + 1], remaining[PairsPlayed + 2])
    /\ UNCHANGED <<mode, entrants, fixtures, leaderboard, remaining, next_round>>

FinishPair ==
    /\ mode = "knockout" /\ MatchOver
    /\ LET winner == IF match.profit >= 0 THEN match.seat0 ELSE match.seat1
       IN  /\ fixtures' = Append(fixtures, Fixture(winner))
           /\ next_round' = Append(next_round, winner)
    /\ match' = NoMatch
    /\ UNCHANGED <<mode, entrants, leaderboard, remaining>>

(* Mutant: who has nobody to play is out.                                  *)
NoByes == <<>>
Bye == IF Len(remaining) % 2 = 1 THEN <<remaining[Len(remaining)]>> ELSE <<>>

EndRound ==
    /\ mode = "knockout" /\ Idle /\ Len(remaining) > 1 /\ ~PairLeft
    /\ fixtures' = fixtures \o [i \in DOMAIN Bye |->
                        [seat0 |-> Bye[i], seat1 |-> NoName, profit |-> 0, winner |-> Bye[i]]]
    /\ remaining' = next_round \o Bye
    /\ next_round' = <<>>
    /\ UNCHANGED <<mode, entrants, leaderboard, match>>

TournamentOver ==
    /\ Idle
    /\ IF mode = "knockout" THEN Len(remaining) <= 1 ELSE Len(fixtures) = Cardinality(Pairs)

TournamentStays == TournamentOver /\ UNCHANGED tournamentVars

TournamentNext ==
    \/ StartFixture \/ PlayHand \/ FinishFixture
    \/ StartPair \/ FinishPair \/ EndRound \/ TournamentStays

TournamentSpec == TournamentInit /\ [][TournamentNext]_tournamentVars
TournamentFairness == WF_tournamentVars(TournamentNext)

-----------------------------------------------------------------------------
(* Properties.                                                             *)

Played == {i \in DOMAIN fixtures : fixtures[i].seat1 # NoName}
SumOfRows(Of(_)) == MapThenSumSet(LAMBDA name : Of(leaderboard[name]), Names)
Entries(name) == Cardinality({i \in DOMAIN entrants : entrants[i] = name})

(* round_robin: what one entrant has won others have lost, each match      *)
(* counts for its two seats and beats at most one of them, also when a     *)
(* name is in the list twice.                                              *)
StandingsBalance ==
    mode = "round_robin" =>
        /\ SumOfRows(LAMBDA row : row.profit) = 0
        /\ SumOfRows(LAMBDA row : row.matches) = 2 * Len(fixtures)
        /\ SumOfRows(LAMBDA row : row.opponents_beaten)
              = Cardinality({i \in Played : fixtures[i].profit # 0})
        /\ \A name \in Names : leaderboard[name].wins <= leaderboard[name].hands

(* At the end of a round robin every entrant has met every other once.     *)
EveryoneMet ==
    mode = "round_robin" /\ TournamentOver =>
        \A name \in Names : leaderboard[name].matches = Entries(name) * (Len(entrants) - 1)

LostIn(name, i) == name \in {fixtures[i].seat0, fixtures[i].seat1} /\ fixtures[i].winner # name
Losses(name) == Cardinality({i \in Played : LostIn(name, i)})
StillIn == {remaining[i] : i \in PairsPlayed + 1 .. Len(remaining)} \cup ToSet(next_round)

(* knockout between different names: an entrant is out after one defeat    *)
(* and for nothing else, whatever the byes of odd rounds, and nobody plays *)
(* on after one.                                                           *)
OneDefeatEliminates ==
    mode = "knockout" /\ (\A name \in Names : Entries(name) <= 1) =>
        \A name \in ToSet(entrants) :
            Losses(name) = (IF name \in StillIn THEN 0 ELSE 1)

(* The leaderboard and the bracket are those of the matches played.        *)
TournamentSound == StandingsBalance /\ EveryoneMet /\ OneDefeatEliminates

TournamentEnds == <>TournamentOver
=============================================================================
