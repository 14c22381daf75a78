------------------------------- MODULE Profiles -------------------------------
(***************************************************************************)
(* What packages/opponent_model counts of one opponent: the street         *)
(* patterns (street_patterns.py), the profile by position                  *)
(* (positional_profile.py) and the statistics that classify it             *)
(* (classifier.py), each told of every action and of the end of every      *)
(* hand.                                                                   *)
(*                                                                         *)
(* A rate is a pair of counts, never their quotient.                       *)
(***************************************************************************)
EXTENDS Integers, Sequences, FiniteSets, SequencesExt, FiniteSetsExt

CONSTANTS
    Positions,     \* where the opponent sits: a part of POSITIONS
    WindowSize,    \* of the street patterns: hands
    MaxHands,      \* bound on the hands that are observed
    MaxSeen        \* bound on the actions that are observed

ASSUME ProfilesAssumption ==
    /\ IsFiniteSet(Positions) /\ Positions # {} /\ "none" \notin Positions
    /\ WindowSize \in Nat \ {0} /\ MaxHands \in Nat /\ MaxSeen \in Nat

VARIABLES
    line,       \* the opponent's actions in the present hand
    position,   \* its seat in that hand
    current,    \* the StreetSequence of the hand, or NoHand between hands
    history,    \* StreetPatternTracker._history
    check_raises,   \* the sum of _check_raise_count
    byPosition, \* PositionalProfiler.positions
    stats       \* the PlayerStats of the opponent

profileVars == <<line, position, current, history, check_raises, byPosition, stats>>

HandStreets == <<"preflop", "flop", "turn", "river">>
Aggressive == {"bet", "raise", "all_in"}
Passive == {"check", "call"}
NoHand == [aggressor |-> FALSE, acts |-> [s \in ToSet(HandStreets) |-> "none"],
           facing |-> [s \in ToSet(HandStreets) |-> FALSE]]

(* deque(maxlen = size).append.                                            *)
Push(deque, item, size) == IF Len(deque) < size THEN Append(deque, item)
                           ELSE Append(Tail(deque), item)

NoCounts ==
    [hands |-> 0, vpip |-> 0, pfr |-> 0, three_bet |-> 0, three_bet_opps |-> 0, cbet |-> 0,
     cbet_opps |-> 0, fold_to_cbet |-> 0, fold_to_cbet_opps |-> 0,
     aggressive |-> 0, passive |-> 0, folds |-> 0]
NoStats ==
    [total_hands |-> 0, vpip |-> 0, pfr |-> 0, aggressive |-> 0, passive |-> 0, folds |-> 0,
     postflop |-> 0, street_aggression |-> 0, showdowns |-> 0, won_at_showdown |-> 0]

ProfilesInit ==
    /\ line = <<>> /\ position = "none" /\ current = NoHand /\ history = <<>> /\ check_raises = 0
    /\ byPosition = [p \in Positions |-> NoCounts] /\ stats = NoStats

-----------------------------------------------------------------------------
(* StreetPatternTracker.record_street_action: the first action of a street *)
(* counts, unless an aggressive one follows a passive one.                 *)

(* Mutant: the last action of a street counts.                             *)
LastCounts(before, action) == action

MostSignificant(before, action) ==
    IF before = "none" \/ (action \in Aggressive /\ before \notin Aggressive) THEN action ELSE before

RecordStreetAction(seen) ==
    /\ current' = [current EXCEPT !.acts[seen.street] = MostSignificant(@, seen.action),
                                  !.facing[seen.street] = @ \/ (seen.facing /\ seen.street # "preflop")]
    /\ check_raises' = IF current.acts[seen.street] = "check" /\ seen.action \in Aggressive /\ seen.facing
                       THEN check_raises + 1 ELSE check_raises

-----------------------------------------------------------------------------
(* PositionalProfiler.record_action and OpponentTracker.record_action.     *)

One(condition) == IF condition THEN 1 ELSE 0

(* How an action counts in both.                                           *)
CountKinds(counts, seen) ==
    [counts EXCEPT !.aggressive = @ + One(seen.action \in Aggressive),
                   !.passive = @ + One(seen.action \in Passive),
                   !.folds = @ + One(seen.action = "fold"),
                   !.vpip = @ + One(seen.street = "preflop" /\ seen.action \in Aggressive \cup {"call"}),
                   !.pfr = @ + One(seen.street = "preflop" /\ seen.action \in Aggressive)]

(* What a client says of the action: a raise it could answer with a third  *)
(* bet, a continuation bet it could make, and one it faces.                *)
ThreeBetOpp(seen) == seen.street = "preflop" /\ seen.facing
CbetOpp(seen) == seen.street = "flop" /\ current.aggressor /\ ~seen.facing
FacingCbet(seen) == seen.street = "flop" /\ ~current.aggressor /\ seen.facing

RecordInPosition(counts, seen) ==
    [CountKinds(counts, seen) EXCEPT
        !.three_bet_opps = @ + One(ThreeBetOpp(seen)),
        !.three_bet = @ + One(ThreeBetOpp(seen) /\ seen.action \in {"raise", "all_in"}),
        !.cbet_opps = @ + One(CbetOpp(seen)),
        !.cbet = @ + One(CbetOpp(seen) /\ seen.action \in Aggressive),
        !.fold_to_cbet_opps = @ + One(FacingCbet(seen)),
        !.fold_to_cbet = @ + One(FacingCbet(seen) /\ seen.action = "fold")]

RecordForSeat(counts, seen) ==
    [CountKinds(counts, seen) EXCEPT
        !.postflop = @ + One(seen.street # "preflop"),
        !.street_aggression = @ + One(seen.street # "preflop" /\ seen.action \in {"bet", "raise"})]

-----------------------------------------------------------------------------
(* The hands that are told: the seats rotate; an opponent acts on a street *)
(* again when it is raised and not after a fold, faces at least the blind  *)
(* before the flop (a free option is left out), and is the aggressor when  *)
(* its last word before the flop is a raise.                               *)

(* How many actions were observed.                                         *)
Seen == stats.aggressive + stats.passive + stats.folds

StartHand ==
    /\ position = "none" /\ stats.total_hands < MaxHands /\ Seen < MaxSeen
    /\ position' = CHOOSE p \in Positions :
                       \A q \in Positions : byPosition[p].hands <= byPosition[q].hands
    /\ byPosition' = [byPosition EXCEPT ![position'].hands = @ + 1]
    /\ \E aggressor \in BOOLEAN : current' = [NoHand EXCEPT !.aggressor = aggressor]
    /\ line' = <<>>
    /\ UNCHANGED <<history, check_raises, stats>>

Observed ==
    [street : ToSet(HandStreets), action : {"fold", "check", "call", "bet", "raise"}, facing : BOOLEAN]

(* The aggressor was named when the hand began.                            *)
IsAggressor == current.aggressor <=> Last(line).action \in Aggressive

Follows(seen) ==
    /\ seen.street = "preflop" => seen.facing
    /\ seen.action \in IF seen.facing THEN {"fold", "call", "raise"} ELSE {"check", "bet"}
    /\ IF line = <<>> THEN seen.street = "preflop"
       ELSE /\ Last(line).action # "fold"
            /\ \/ seen.street = Last(line).street /\ seen.facing /\ Last(line).action # "call"
               \/ /\ \E i \in 1 .. 3 :
                    HandStreets[i] = Last(line).street /\ HandStreets[i + 1] = seen.street
              /\ seen.street = "flop" => IsAggressor

Act ==
    /\ position # "none" /\ Seen < MaxSeen
    /\ \E seen \in Observed :
          /\ Follows(seen)
          /\ line' = Append(line, seen)
          /\ RecordStreetAction(seen)
          /\ byPosition' = [byPosition EXCEPT ![position] = RecordInPosition(@, seen)]
          /\ stats' = RecordForSeat(stats, seen)
    /\ UNCHANGED <<position, history>>

(* end_hand and record_hand_end.                                           *)
EndHand ==
    /\ position # "none" /\ line # <<>>
    /\ \E showdown, won \in BOOLEAN :
          /\ Last(line).street = "preflop" => IsAggressor
          /\ showdown => Last(line).street = "river"
          /\ Last(line).action = "fold" => ~showdown /\ ~won
          /\ ~won => showdown \/ Last(line).action = "fold"
          /\ stats' = [stats EXCEPT !.total_hands = @ + 1, !.showdowns = @ + One(showdown),
                                    !.won_at_showdown = @ + One(showdown /\ won)]
    /\ history' = Push(history, current, WindowSize)
    /\ current' = NoHand /\ position' = "none" /\ line' = <<>>
    /\ UNCHANGED <<check_raises, byPosition>>

ProfilesNext == StartHand \/ Act \/ EndHand

-----------------------------------------------------------------------------
(* get_signature and predict_continuation: how many hands of the window    *)
(* show a pattern.                                                         *)

HowMany(Pattern(_)) == Cardinality({i \in DOMAIN history : Pattern(history[i])})
Shows(seq, street, actions) == seq.acts[street] \in actions

Signature ==
    LET Flop(seq) == Shows(seq, "flop", Aggressive)
        Double(seq) == Flop(seq) /\ Shows(seq, "turn", Aggressive)
        Triple(seq) == Double(seq) /\ Shows(seq, "river", Aggressive)
        GivesUp(seq) ==
            Flop(seq) /\ (\/ Shows(seq, "turn", {"check"})
                          \/ Shows(seq, "turn", Aggressive) /\ Shows(seq, "river", {"check"}))
        Probes(seq) == ~seq.aggressor /\ Shows(seq, "turn", Aggressive) /\ ~seq.facing["turn"]
        Calls(seq) == Shows(seq, "flop", {"call"})
        Floats(seq) == Calls(seq) /\ Shows(seq, "turn", Aggressive) /\ ~seq.facing["turn"]
        Checks(seq) == seq.aggressor /\ Shows(seq, "flop", {"check"})
        Delays(seq) == Checks(seq) /\ Shows(seq, "turn", Aggressive)
    IN  [samples |-> Len(history), agg_flop |-> HowMany(Flop), double |-> HowMany(Double),
         triple |-> HowMany(Triple), give_up |-> HowMany(GivesUp), probe |-> HowMany(Probes),
         called_flop |-> HowMany(Calls), floats |-> HowMany(Floats),
         checked_flop |-> HowMany(Checks), delayed |-> HowMany(Delays)]

PredictContinuation(street) ==
    LET before == IF street = "turn" THEN "flop" ELSE "turn"
        Led(seq) == Shows(seq, before, Aggressive)
        Went(seq) == Led(seq) /\ Shows(seq, street, Aggressive)
    IN  [continued |-> HowMany(Went), of |-> HowMany(Led)]

-----------------------------------------------------------------------------
(* Properties.                                                             *)

SumOverPositions(field) == MapThenSumSet(LAMBDA p : byPosition[p][field], Positions)

(* A hand of the window and the actions it was made of tell the same: a    *)
(* street is aggressive when some action on it was, even if the opponent   *)
(* checked before or called or folded after.                               *)
HandTold ==
    \A street \in ToSet(HandStreets) :
        LET own == {i \in DOMAIN line : line[i].street = street}
        IN  /\ current.acts[street] = "none" <=> own = {}
            /\ current.acts[street] \in Aggressive
                   <=> \E i \in own : line[i].action \in Aggressive

(* Every frequency of the signature is one: barrels are nested, who gives  *)
(* up has not fired three times, and a float or a delayed bet has its call *)
(* or its check.  What continues is counted alike in both places.          *)
PatternsNested ==
    LET sig == Signature
    IN  /\ sig.triple <= sig.double /\ sig.double <= sig.agg_flop
        /\ sig.give_up + sig.triple <= sig.agg_flop
        /\ sig.floats <= sig.called_flop /\ sig.delayed <= sig.checked_flop
        /\ sig.agg_flop + sig.called_flop + sig.checked_flop <= sig.samples
        /\ PredictContinuation("turn") = [continued |-> sig.double, of |-> sig.agg_flop]
        /\ sig.triple <= PredictContinuation("river").continued

(* The trackers that were told the same say the same: the positions add up *)
(* to the statistics of the seat, and a frequency that is taken over its   *)
(* opportunities (third bets, continuation bets, folds to them) is at most *)
(* one.  Nothing of the kind is said of vpip and pfr: they count actions   *)
(* and are divided by hands (positional_profile.py:57-65), so that what is *)
(* called a percentage can be 200.                                         *)
ProfilesAgree ==
    /\ HandTold /\ PatternsNested
    /\ \A field \in {"vpip", "pfr", "aggressive", "passive", "folds"} :
           SumOverPositions(field) = stats[field]
    /\ SumOverPositions("hands") = stats.total_hands + One(position # "none")
    /\ \A p \in Positions :
           LET counts == byPosition[p]
           IN  /\ counts.three_bet <= counts.three_bet_opps /\ counts.three_bet <= counts.pfr
               /\ counts.cbet <= counts.cbet_opps /\ counts.fold_to_cbet <= counts.fold_to_cbet_opps
               /\ counts.pfr <= counts.vpip /\ counts.cbet + counts.pfr <= counts.aggressive
    /\ stats.won_at_showdown <= stats.showdowns /\ stats.showdowns <= stats.total_hands
    /\ stats.street_aggression <= stats.postflop
=============================================================================
