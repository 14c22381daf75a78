------------------------------- MODULE Agents ---------------------------------
(***************************************************************************)
(* What the agents decide: the rules of packages/baseline_agent, what the  *)
(* adaptive agent and the policy table make of them, and the amount that   *)
(* CFR, MCTS and the learned agents put on an action they have sampled     *)
(* (_size_action).                                                         *)
(*                                                                         *)
(* The cards come in as a read: the estimated equity in percent, and what  *)
(* the hole cards and the board are worth by their class.  An estimate is  *)
(* a seeded sample, so any read may come with any position; a premium hand *)
(* is playable.                                                            *)
(***************************************************************************)
EXTENDS Engine, Sequences

CONSTANTS
    Reads,        \* what agents may see in the cards
    ShortStack    \* DecisionConfig.short_stack_bb_multiplier

ASSUME ReadsAssumption ==
    Reads \subseteq [equity : 0 .. 100, premium : BOOLEAN, playable : BOOLEAN, paired : BOOLEAN]
ASSUME ShortAssumption == ShortStack \in Nat

-----------------------------------------------------------------------------
(* A decision is the first rule whose condition holds.                     *)

Decision(type, amount) == [type |-> type, amount |-> amount]
Rule(when, type, amount) == [when |-> when, does |-> Decision(type, amount)]
FirstRule(rules) ==
    rules[CHOOSE i \in DOMAIN rules :
              rules[i].when /\ \A j \in 1 .. i - 1 : ~rules[j].when].does

Stack(h) == h.stack[h.acting_seat]
Price(h) == ToCall(h, h.acting_seat)
Short(h) == Stack(h) <= ShortStack * BigBlind

(* equity - pot odds, in percent of the pot after a call.                  *)
PotAfterCall(h) == h.pot + Price(h)
Edge(h, read) == read.equity * PotAfterCall(h) - 100 * Price(h)

(* Mutant: a raise is not capped by the stack.                             *)
RaiseUncapped(h, step) == Greatest(h.min_raise_to, h.current_bet + step)
RaiseTarget(h, step) == Least(Greatest(h.min_raise_to, h.current_bet + step), Shove(h))

(* Raise to the target if it is a raise, else push what is left.           *)
RaiseRule(h, strong, step) ==
    LET target == RaiseTarget(h, step)
    IN  Rule(strong /\ "raise" \in LegalActions(h)
                    /\ target >= h.min_raise_to /\ target > h.current_bet, "raise", target)
PushRule(h, strong) ==
    Rule(strong /\ {"raise", "all_in"} \subseteq LegalActions(h) /\ Shove(h) > h.current_bet,
         "all_in", Stack(h))
ShortRule(h, strong) ==
    Rule(Short(h) /\ strong /\ "all_in" \in LegalActions(h), "all_in", Stack(h))
BetRule(h, when, amount) == Rule(when /\ "bet" \in LegalActions(h), "bet", amount)

CallRule(h, when) == Rule(when /\ "call" \in LegalActions(h), "call", Price(h))
CheckDown == <<Rule(TRUE, "check", 0)>>
GiveUp(h) == <<Rule("fold" \in LegalActions(h), "fold", 0)>> \o CheckDown

DecidePreflop(h, read) ==
    LET strong == read.premium \/ read.equity >= 67
    IN  IF Price(h) = 0
        THEN FirstRule(<<
                 ShortRule(h, read.equity >= 62),
                 BetRule(h, read.equity >= 61, Greatest(3 * BigBlind, 6)),
                 BetRule(h, read.playable, Greatest((5 * BigBlind) \div 2, 4)) >> \o CheckDown)
        ELSE FirstRule(<<
                 ShortRule(h, read.equity >= 64),
                 RaiseRule(h, strong, 2 * BigBlind),
                 PushRule(h, strong),
                 CallRule(h, Edge(h, read) >= 8 * PotAfterCall(h) /\ read.equity >= 42) >>
                 \o GiveUp(h))

DecidePostflop(h, read) ==
    LET share == IF read.equity >= 68 THEN 60 ELSE 50
        raising == read.equity >= 74
    IN  IF Price(h) = 0
        THEN FirstRule(<<
                 ShortRule(h, read.equity >= 65),
                 BetRule(h, read.paired \/ read.equity >= 60,
                         Greatest(BigBlind, (Greatest(h.pot, 2) * share) \div 100)) >>
                 \o CheckDown)
        ELSE FirstRule(<<
                 ShortRule(h, read.equity >= 66),
                 RaiseRule(h, raising, Greatest(2 * BigBlind, h.pot \div 2)),
                 PushRule(h, raising),
                 CallRule(h, Edge(h, read) >= 6 * PotAfterCall(h)) >> \o GiveUp(h))

Baseline(h, read) == IF h.board = 0 THEN DecidePreflop(h, read) ELSE DecidePostflop(h, read)

-----------------------------------------------------------------------------
(* AdaptiveBaselineAgent: calls less against the aggressive and more       *)
(* against the passive, as the actions of this hand so far show them.      *)

Blinds(h) ==
    LET sb == IF NumSeats = 2 THEN h.button ELSE NextSeat(h.button)
    IN  {sb, NextSeat(sb)}

(* seen[s] counts the actions of seat s in this hand.                      *)
Unseen == [s \in Seats |-> [acts |-> 0, aggressive |-> 0]]
Observe(seen, seat, type) ==
    [seen EXCEPT ![seat].acts = @ + 1,
                 ![seat].aggressive = IF type \in {"bet", "raise", "all_in"} THEN @ + 1 ELSE @]

(* _aggression_rate as percent / total; a posted blind counts as an action.*)
OthersPercent(h, seen) ==
    100 * SeatSum([s \in Seats |-> IF s = h.acting_seat THEN 0 ELSE seen[s].aggressive])
OthersTotal(h, seen) ==
    SeatSum([s \in Seats |-> IF s = h.acting_seat THEN 0
                             ELSE seen[s].acts + (IF s \in Blinds(h) THEN 1 ELSE 0)])

Adaptive(h, seen, read) ==
    LET base == Baseline(h, read)
        percent == OthersPercent(h, seen)
        total == OthersTotal(h, seen)
    IN  FirstRule(<<
            Rule(base.type = "call" /\ percent >= 45 * total
                                    /\ Edge(h, read) < 10 * PotAfterCall(h), "fold", 0),
            Rule(base.type = "fold" /\ percent < 25 * total
                                    /\ Edge(h, read) > -2 * PotAfterCall(h)
                                    /\ "call" \in LegalActions(h), "call", Price(h)),
            Rule(TRUE, base.type, base.amount) >>)

-----------------------------------------------------------------------------
(* PolicyTableAgent: the action its table predicts for the spot, sized by  *)
(* fixed rules.  What it predicts and is not legal leaves the baseline's.  *)

HalfPot(h) == Greatest(BigBlind, Greatest(h.pot, 2) \div 2)

Predicted(h, type) ==
    LET target == RaiseTarget(h, 2 * BigBlind)
    IN  FirstRule(<<
            Rule(type = "bet" /\ h.current_bet > 0, "check", 0),
            Rule(type = "bet", "bet", HalfPot(h)),
            Rule(type = "raise" /\ target < h.min_raise_to, "call", Price(h)),
            Rule(type = "raise", "raise", target),
            Rule(type = "call", "call", Price(h)),
            Rule(type = "all_in", "all_in", Stack(h)),
            Rule(TRUE, type, 0) >>)

-----------------------------------------------------------------------------
(* _size_action: what the agents that sample a legal action put on it.     *)

SizeAction(h, type) ==
    CASE type \in {"fold", "check"} -> 0
      [] type = "call" -> Price(h)
      [] type = "all_in" -> Stack(h)
      [] type = "bet" -> Least(HalfPot(h), Stack(h))
      [] type = "raise" -> RaiseTarget(h, 2 * BigBlind)

-----------------------------------------------------------------------------
(* What an agent of a kind may decide.                                     *)

AgentKinds == {"baseline", "adaptive", "policy", "sampling"}

Decisions(kind, h, seen) ==
    LET baseline == {Baseline(h, read) : read \in Reads}
    IN  CASE kind = "baseline" -> baseline
          [] kind = "adaptive" -> {Adaptive(h, seen, read) : read \in Reads}
          [] kind = "policy" -> baseline \cup {Predicted(h, type) : type \in LegalActions(h)}
          [] kind = "sampling" -> {Decision(type, SizeAction(h, type)) : type \in LegalActions(h)}
=============================================================================
