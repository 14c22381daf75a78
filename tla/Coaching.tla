------------------------------- MODULE Coaching -------------------------------
(***************************************************************************)
(* What a finished session is told about itself: session_analytics over    *)
(* its traces, build_opponent_profile over its action log, the report and  *)
(* the hand reviews of CoachService, and the curriculum drawn from them;   *)
(* and the tags of a decision (packages/taxonomy/spot_taxonomy.py).        *)
(*                                                                         *)
(* A session is heads-up and is played street by street; a decision keeps  *)
(* what the summaries look at: its seat, street and action, and its        *)
(* equity and pot odds, in percent.                                        *)
(***************************************************************************)
EXTENDS Integers, Sequences, SequencesExt, FiniteSetsExt

CONSTANTS
    Equities,      \* what the agents estimate
    Odds,          \* the pot odds of a decision that has to call
    MaxStreets     \* bound on the streets a session plays

ASSUME OddsAssumption == Equities \subseteq 0 .. 100 /\ Odds \in 1 .. 100
ASSUME StreetsAssumption == MaxStreets \in Nat

VARIABLES
    decisions,   \* the decisions of the session: its traces and its action rows
    dealer,      \* the seat of the button in the present hand
    at,          \* the street that is played next
    played       \* how many streets have been played

coachVars == <<decisions, dealer, at, played>>

-----------------------------------------------------------------------------
(* classify_trace: the tags of a decision, given its spot and action.      *)

Continues == {"call", "raise", "all_in"}

(* Mutant: a decision exactly at its price has no edge.                    *)
EdgeTagsStrict(spot, action) ==
    [priced_continue_positive_edge |-> spot.equity > spot.pot_odds /\ spot.to_call > 0,
     priced_fold_disciplined |-> spot.equity < spot.pot_odds /\ action = "fold"]

EdgeTags(spot, action) ==
    [priced_continue_positive_edge |-> spot.equity >= spot.pot_odds /\ spot.to_call > 0,
     priced_fold_disciplined |-> spot.equity < spot.pot_odds /\ action = "fold"]

StreetTags(spot, action) ==
    LET priced == spot.to_call > 0
        leads == ~priced /\ action \in {"bet", "all_in"}
        stays == priced /\ action \in Continues
    IN  CASE spot.street = "pre_flop" ->
                [preflop |-> TRUE, open |-> leads, defend_blind |-> stays,
                 three_bet_or_jam |-> priced /\ action \in {"raise", "all_in"},
                 limp_or_check_back |-> ~priced /\ action = "check"]
          [] spot.street = "flop" ->
                [flop |-> TRUE, cbet |-> leads, check_back |-> ~priced /\ action = "check",
                 check_call |-> priced /\ action = "call",
                 check_raise |-> priced /\ action \in {"raise", "all_in"}]
          [] spot.street = "turn" ->
                [turn |-> TRUE, barrel |-> leads, priced_continue |-> stays,
                 pot_control |-> action = "check"]
          [] spot.street = "river" ->
                [river |-> TRUE, bluffcatch |-> priced /\ action \in {"call", "fold"},
                 thin_value |-> leads /\ spot.equity >= 68,
                 jam_pressure |-> action = "all_in", showdown_path |-> action = "check"]

(* The tags for hole cards and textures look for names that no hole class  *)
(* and no texture has, high cards aside, and are left out.                 *)
ClassifyTrace(spot, action) ==
    LET street == StreetTags(spot, action)
        edge == EdgeTags(spot, action)
    IN  {tag \in DOMAIN street : street[tag]} \cup {tag \in DOMAIN edge : edge[tag]}
-----------------------------------------------------------------------------
(* The hands of a session, as agents may play them: who acts first, and    *)
(* what the two seats do on a street.                                      *)

Other(seat) == 1 - seat
First == IF at = "pre_flop" THEN dealer ELSE Other(dealer)

(* Each decision with whether it faces a price.                            *)
Priced(action) == [action |-> action, to_call |-> 1]
Free(action) == [action |-> action, to_call |-> 0]
Lines ==
    IF at = "pre_flop"
    THEN {<<Priced("fold")>>, <<Priced("call"), Free("check")>>,
          <<Priced("raise"), Priced("fold")>>, <<Priced("raise"), Priced("call")>>}
    ELSE {<<Free("check"), Free("check")>>,
          <<Free("bet"), Priced("fold")>>, <<Free("bet"), Priced("call")>>}

(* No decision that faces no price folds, and none has odds.               *)
Decide(move, seat, equity) ==
    [seat |-> seat, street |-> at, action |-> move.action, to_call |-> move.to_call,
     equity |-> equity, pot_odds |-> move.to_call * Odds]

NextOf == [pre_flop |-> "flop", flop |-> "turn", turn |-> "river"]

CoachInit == decisions = <<>> /\ dealer = 0 /\ at = "pre_flop" /\ played = 0

PlayStreet ==
    /\ played < MaxStreets
    /\ \E line \in Lines : \E equity \in [DOMAIN line -> Equities] :
          /\ decisions' = decisions \o
                 [i \in DOMAIN line |->
                     Decide(line[i], IF i = 1 THEN First ELSE Other(First), equity[i])]
          /\ IF at = "river" \/ \E i \in DOMAIN line : line[i].action = "fold"
             THEN at' = "pre_flop" /\ dealer' = Other(dealer)
             ELSE at' = NextOf[at] /\ UNCHANGED dealer
    /\ played' = played + 1

CoachNext == PlayStreet

-----------------------------------------------------------------------------
(* Decisions of a kind are told by their places in the session.            *)
(* session_analytics: the mean edge of a street has the sign of the sum.   *)

On(street) == {i \in DOMAIN decisions : decisions[i].street = street}
EdgeSum(places) ==
    MapThenSumSet(LAMBDA i : decisions[i].equity - decisions[i].pot_odds, places)
NegativeOn(street) == EdgeSum(On(street)) < 0

(* The rate of continues with an edge that the coach reads is not among    *)
(* what session_analytics returns: it gets its default, 0, and tells every *)
(* session of marginal spots, whether it has any or not.                   *)
PositiveEdgeContinueRate == 0

(* SessionRunner._build_summary, of the session and of each seat: of the    *)
(* decisions that faced a price, how many continued and how many of these  *)
(* had the edge.  The proxy of a decision's value is its edge times the    *)
(* pot it plays for, here always the same.                                 *)
FacedPrice(places) == {i \in places : decisions[i].to_call > 0}
Continued(places) == {i \in FacedPrice(places) : decisions[i].action \in Continues}
WithEdge(places) == {i \in Continued(places) : decisions[i].equity >= decisions[i].pot_odds}

Summary(places) ==
    [decision_trace_count |-> Cardinality(places),
     priced_decision_count |-> Cardinality(FacedPrice(places)),
     continue_decision_count |-> Cardinality(Continued(places)),
     priced_edge_sum |-> EdgeSum(FacedPrice(places)),
     continue_ev_proxy_sum |-> EdgeSum(Continued(places)),
     positive_edge_continues |-> Cardinality(WithEdge(places))]

-----------------------------------------------------------------------------
(* build_opponent_profile.  The rows of action_log have no street, and     *)
(* each counts as pre-flop.                                                *)

OfSeat(seat) == {i \in DOMAIN decisions : decisions[i].seat = seat}
ActionCount(places, actions) == Cardinality({i \in places : decisions[i].action \in actions})

AtLeast(a, b) == IF a >= b THEN a ELSE b

SummarizeProfile(seat) ==
    LET all == AtLeast(1, Cardinality(OfSeat(seat)))
        vpip == 100 * ActionCount(OfSeat(seat), Continues \cup {"bet"})
        aggression == 100 * ActionCount(OfSeat(seat), {"bet", "raise", "all_in"})
    IN  IF vpip >= 55 * all
        THEN IF aggression >= 45 * all THEN "loose_aggressive" ELSE "loose_passive"
        ELSE IF vpip < 35 * all /\ aggression >= 20 * all THEN "tight_aggressive"
        ELSE "tight_passive"

-----------------------------------------------------------------------------
(* CoachService.session_report and hand_review.                            *)

Leaks ==
    {leak \in {"marginal_spots", "river_edge", "loose_passive"} :
        CASE leak = "marginal_spots" -> PositiveEdgeContinueRate < 55
          [] leak = "river_edge" -> NegativeOn("river")
          [] leak = "loose_passive" -> SummarizeProfile(0) = "loose_passive"}

(* The decisions a review points at.                                       *)
BelowPrice(d) == d.equity < d.pot_odds /\ d.action \in Continues

-----------------------------------------------------------------------------
(* build_curriculum: what weighs more comes first, and no two weigh alike. *)

Weight(topic) ==
    CASE topic = "river" -> (IF NegativeOn("river") THEN 2 ELSE 0)
                            + (IF "river_edge" \in Leaks THEN 1 ELSE 0)
      [] topic = "turn" -> (IF NegativeOn("turn") THEN 1 ELSE 0)
      [] topic = "pre_flop" -> (IF "loose_passive" \in Leaks THEN 2 ELSE 0)

Priorities ==
    LET topics == {topic \in {"river", "turn", "pre_flop"} : Weight(topic) > 0}
    IN  CHOOSE order \in [1 .. Cardinality(topics) -> topics] :
            \A i, j \in DOMAIN order : i < j => Weight(order[i]) > Weight(order[j])

-----------------------------------------------------------------------------
(* Properties.                                                             *)

Tags(d) == ClassifyTrace(d, d.action)

(* The coach and the taxonomy judge alike: of the decisions that faced a   *)
(* price, those tagged with an edge are the ones that are neither reviewed *)
(* as continued below their price nor tagged as disciplined folds, and     *)
(* nothing else is reviewed or tagged with an edge.  A curriculum that     *)
(* mends the river begins with it and turns to the turn last, and a        *)
(* session whose first seat mostly called has its pre-flop play in it.     *)
(* The summary of a session is that of its seats together, and counts as   *)
(* continued without an edge what the reviews point at.                    *)
CoachingAgrees ==
    /\ \A field \in DOMAIN Summary(DOMAIN decisions) :
          Summary(DOMAIN decisions)[field] = Summary(OfSeat(0))[field] + Summary(OfSeat(1))[field]
    /\ LET summary == Summary(DOMAIN decisions)
       IN  summary.continue_decision_count - summary.positive_edge_continues
              = Cardinality({i \in DOMAIN decisions : BelowPrice(decisions[i])})
    /\ \A i \in DOMAIN decisions :
          LET d == decisions[i]
              edge == "priced_continue_positive_edge" \in Tags(d)
              fold == "priced_fold_disciplined" \in Tags(d)
          IN  /\ edge \/ BelowPrice(d) \/ fold <=> d.to_call > 0
              /\ ~(edge /\ (BelowPrice(d) \/ fold)) /\ ~(BelowPrice(d) /\ fold)
    /\ NegativeOn("river") => Priorities # <<>> /\ Priorities[1] = "river"
    /\ NegativeOn("turn") => Priorities # <<>> /\ Last(Priorities) = "turn"
    /\ LET own == OfSeat(0)
       IN  own # {} /\ ActionCount(own, {"call"}) = Cardinality(own)
               => "pre_flop" \in ToSet(Priorities)
=============================================================================
