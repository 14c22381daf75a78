------------------------------- MODULE Engine -------------------------------
(***************************************************************************)
(* The hold'em engine of packages/engine/engine.py: one hand, from the     *)
(* blinds to the showdown, for two to six seats.                           *)
(*                                                                         *)
(* A hand is a record with the fields of HandState; the per-player fields  *)
(* of PlayerState are functions on Seats, the two flags are sets of seats. *)
(* Each method of GameEngine is an operator from hands to hands, so that   *)
(* an action of the specification is a whole call of apply_action with     *)
(* everything it triggers: the commit, the resolution of the betting       *)
(* round, the next street, the runout and the showdown.                    *)
(*                                                                         *)
(* Cards are abstracted: of the deck only the order in which it ranks the  *)
(* hands that reach the showdown matters to the chips, so the showdown     *)
(* picks any ranking of the seats; the board is the number of its cards.   *)
(***************************************************************************)
EXTENDS Table, Sequences, SequencesExt

CONSTANTS
    SmallBlind,    \* GameEngine.small_blind
    BigBlind,      \* GameEngine.big_blind
    StackVectors,  \* the stacks a hand may be started with
    MaxAmount,     \* bound on the amount a caller sends with a bet or a raise
    Rankings,      \* how the cards of a hand may rank the seats at its showdown
    None           \* Python's None for a seat

ASSUME BlindsAssumption == SmallBlind \in Nat /\ BigBlind \in Nat
ASSUME StacksAssumption == StackVectors \subseteq [Seats -> Nat]
ASSUME BoundsAssumption == MaxAmount \in Nat /\ Rankings \subseteq [Seats -> Nat]
ASSUME NoneAssumption == None \notin Seats

-----------------------------------------------------------------------------
(* Reading a hand.                                                         *)

Active(h) == Seats \ h.folded
CanBet(h) == Active(h) \ h.all_in
ToCall(h, seat) == Greatest(0, h.current_bet - h.invested[seat])

FirstActiveSeatAfter(h, seat) ==
    LET able == CanBet(h) \ {seat}
        rest == Active(h) \ {seat}
    IN  IF able # {} THEN FirstAfter(able, seat)
        ELSE IF rest # {} THEN FirstAfter(rest, seat)
        ELSE None

AllBetsMatched(h) ==
    \A s, t \in Active(h) : h.invested[s] < h.invested[t] => s \in h.all_in

-----------------------------------------------------------------------------
(* Moving chips.                                                           *)

(* Mutant: every account but the stack takes the amount asked for.         *)
CommitInFull(h, seat, amount) ==
    LET committed == Least(amount, h.stack[seat])
    IN  [h EXCEPT !.stack[seat] = @ - committed,
                  !.invested[seat] = @ + amount,
                  !.total_invested[seat] = @ + amount,
                  !.all_in = IF h.stack[seat] = committed THEN @ \cup {seat} ELSE @,
                  !.pot = @ + amount]

Commit(h, seat, amount) ==
    LET committed == Least(amount, h.stack[seat])
    IN  [h EXCEPT !.stack[seat] = @ - committed,
                  !.invested[seat] = @ + committed,
                  !.total_invested[seat] = @ + committed,
                  !.all_in = IF h.stack[seat] = committed THEN @ \cup {seat} ELSE @,
                  !.pot = @ + committed]

(* The chips of seat that no other active player has called.               *)
Uncalled(h, seat) ==
    h.total_invested[seat] - MaxOf({h.total_invested[t] : t \in Active(h) \ {seat}})

(* Mutant: the refunded chips are still counted as invested.               *)
RefundTwice(h) ==
    IF Count(Active(h)) >= 2 /\ \E s \in Active(h) : Uncalled(h, s) > 0
    THEN LET seat == CHOOSE s \in Active(h) : Uncalled(h, s) > 0
         IN  [h EXCEPT !.stack[seat] = @ + Uncalled(h, seat)]
    ELSE h

RefundUncalled(h) ==
    IF Count(Active(h)) >= 2 /\ \E s \in Active(h) : Uncalled(h, s) > 0
    THEN LET seat == CHOOSE s \in Active(h) : Uncalled(h, s) > 0
             refund == Uncalled(h, seat)
         IN  [h EXCEPT !.stack[seat] = @ + refund,
                       !.total_invested[seat] = @ - refund,
                       !.invested[seat] = Greatest(0, @ - refund),
                       !.pot = @ - refund]
    ELSE h

(* A segment of the pot is named by its level: every seat that invested    *)
(* that much contributes to it, and those that did not fold may win it.    *)
Contributors(h, level) == {s \in Seats : h.total_invested[s] >= level}
LevelBelow(h, level) ==
    MaxOf({IF h.total_invested[s] < level THEN h.total_invested[s] ELSE 0 : s \in Seats})
SegmentAmount(h, level) == (level - LevelBelow(h, level)) * Count(Contributors(h, level))
OpensLevel(h, seat) ==
    /\ h.total_invested[seat] > 0
    /\ \A t \in Seats : t < seat => h.total_invested[t] # h.total_invested[seat]

(* Mutants: one pot for all who are still in; a folded hand that wins.     *)
WinnersOfWholePot(h, rank, level) ==
    {s \in Active(h) : \A t \in Active(h) : rank[t] <= rank[s]}
WinnersWithFolded(h, rank, level) ==
    {s \in Contributors(h, level) : \A t \in Contributors(h, level) : rank[t] <= rank[s]}

SegmentWinners(h, rank, level) ==
    LET eligible == Contributors(h, level) \ h.folded
    IN  {s \in eligible : \A t \in eligible : rank[t] <= rank[s]}

(* Mutant: the odd chips of a split pot are lost.                          *)
ShareWithoutOddChips(h, rank, level, seat) ==
    IF seat \in SegmentWinners(h, rank, level)
    THEN SegmentAmount(h, level) \div Count(SegmentWinners(h, rank, level))
    ELSE 0

SegmentShare(h, rank, level, seat) ==
    LET winners == SegmentWinners(h, rank, level)
        amount == SegmentAmount(h, level)
    IN  IF seat \notin winners THEN 0
        ELSE amount \div Count(winners)
             + IF seat = FirstAfter(winners, h.button) THEN amount % Count(winners) ELSE 0

Payout(h, rank, seat) ==
    SeatSum([s \in Seats |-> IF OpensLevel(h, s)
                             THEN SegmentShare(h, rank, h.total_invested[s], seat)
                             ELSE 0])

-----------------------------------------------------------------------------
(* Ending a hand.                                                          *)

Terminal(h, winner) ==
    [h EXCEPT !.pot = 0,
              !.winner_seat = winner,
              !.is_terminal = TRUE,
              !.street = "terminal",
              !.acting_seat = None,
              !.to_call = 0]

AwardEntirePot(h, winner) == [Terminal(h, winner) EXCEPT !.stack[winner] = @ + h.pot]

Showdown(h, rank) ==
    LET payout == [s \in Seats |-> Payout(h, rank, s)]
        paid == {s \in Seats : payout[s] > 0}
        winner == IF Count(paid) = 1 THEN CHOOSE s \in paid : TRUE ELSE None
    IN  [Terminal(h, winner) EXCEPT !.stack = [s \in Seats |-> h.stack[s] + payout[s]],
                                    !.showdown_reached = TRUE]

-----------------------------------------------------------------------------
(* Streets.                                                                *)

NextStreet == [pre_flop |-> "flop", flop |-> "turn", turn |-> "river"]
(* Mutant: a burnt card is put on the board.                               *)
BoardWithBurn == [pre_flop |-> 0, flop |-> 3, turn |-> 4, river |-> 6]
BoardOn == [pre_flop |-> 0, flop |-> 3, turn |-> 4, river |-> 5]

(* Mutant: the all-in flags are cleared with the street's bets.            *)
OpenStreetForAll(h, street) ==
    [h EXCEPT !.invested = [s \in Seats |-> 0],
              !.current_bet = 0,
              !.to_call = 0,
              !.min_raise_to = BigBlind,
              !.acted = {},
              !.all_in = {},
              !.street = street,
              !.board = BoardOn[street],
              !.acting_seat = FirstActiveSeatAfter(h, h.button)]

(* The part of _advance_street_or_showdown that opens a new betting round. *)
OpenStreet(h, street) ==
    [h EXCEPT !.invested = [s \in Seats |-> 0],
              !.current_bet = 0,
              !.to_call = 0,
              !.min_raise_to = BigBlind,
              !.acted = {},
              !.street = street,
              !.board = BoardOn[street],
              !.acting_seat = FirstActiveSeatAfter(h, h.button)]

AdvanceStreetOrShowdown(h, rank) ==
    IF h.street = "river" THEN Showdown(RefundUncalled(h), rank)
    ELSE OpenStreet(h, NextStreet[h.street])

(* Mutant: everybody is all in and the board is not dealt out.             *)
ShowdownAtOnce(h, rank) == Showdown(RefundUncalled(h), rank)

(* The loop over the remaining streets ends on the river with the whole    *)
(* board dealt; nothing in between depends on the street it started from.  *)
RunoutAndShowdown(h, rank) ==
    LET onRiver == IF h.street = "river" THEN h ELSE OpenStreet(h, "river")
    IN  Showdown(RefundUncalled(onRiver), rank)

(* Mutant: the last seat to speak is not waited for.                       *)
RoundOverEarly(h, nextSeat) ==
    ToCall(h, nextSeat) = 0 /\ Count(h.acted) + 1 >= Count(CanBet(h))

RoundOver(h, nextSeat) ==
    ToCall(h, nextSeat) = 0 /\ Count(h.acted) >= Count(CanBet(h))

ResolveAfterAction(h, rank) ==
    LET active == Active(h)
        next == CanBet(h) \ {h.acting_seat}
        nextSeat == FirstAfter(next, h.acting_seat)
    IN  IF Count(active) = 1
        THEN AwardEntirePot(h, CHOOSE s \in active : TRUE)
        ELSE IF next = {} \/ (active \subseteq h.all_in /\ AllBetsMatched(h))
        THEN RunoutAndShowdown(RefundUncalled(h), rank)
        ELSE IF RoundOver(h, nextSeat)
        THEN AdvanceStreetOrShowdown(h, rank)
        ELSE [h EXCEPT !.acting_seat = nextSeat, !.to_call = ToCall(h, nextSeat)]

-----------------------------------------------------------------------------
(* apply_action: what it accepts, and what each accepted action does.      *)

ActionTypes == {"fold", "check", "call", "bet", "raise", "all_in"}

CanAct(h) ==
    /\ ~h.is_terminal
    /\ h.acting_seat # None
    /\ h.acting_seat \notin h.folded \cup h.all_in

(* The chips the acting seat would have in front of it if it pushed all.   *)
Shove(h) == h.invested[h.acting_seat] + h.stack[h.acting_seat]

RaiseAccepted(h, raise_to) ==
    /\ raise_to >= h.min_raise_to
    /\ raise_to > h.invested[h.acting_seat]
    /\ raise_to <= Shove(h)

Accepts(h, type, amount) ==
    /\ CanAct(h)
    /\ LET to_call == ToCall(h, h.acting_seat)
       IN  \/ type = "fold"
           \/ type = "check" /\ to_call = 0
           \/ type = "call" /\ to_call > 0
           \/ /\ type = "bet"
              /\ to_call = 0
              /\ amount >= BigBlind
              /\ RaiseAccepted(h, Least(Shove(h), amount))
           \/ /\ type = "raise"
              /\ to_call > 0
              /\ amount > h.current_bet
              /\ RaiseAccepted(h, amount)
           \/ type = "all_in" /\ h.stack[h.acting_seat] > 0

RaiseTo(h, rank, raise_to) ==
    LET seat == h.acting_seat
        raised == Commit(h, seat, raise_to - h.invested[seat])
        new_bet == raised.invested[seat]
        full_raise_size == new_bet - h.current_bet
    IN  ResolveAfterAction(
            [raised EXCEPT !.current_bet = new_bet,
                           !.min_raise_to = IF full_raise_size > 0
                                            THEN new_bet + full_raise_size ELSE @,
                           !.acted = {seat}],
            rank)

(* Check, call, and an all-in that does not exceed the current bet.        *)
PutIn(h, rank, amount) ==
    ResolveAfterAction([Commit(h, h.acting_seat, amount) EXCEPT !.acted = @ \cup {h.acting_seat}],
                       rank)

ApplyFold(h, rank) == ResolveAfterAction([h EXCEPT !.folded = @ \cup {h.acting_seat}], rank)
(* Mutant: a check does not count as having acted.                         *)
CheckForgotten(h, rank) == ResolveAfterAction(h, rank)
ApplyCheck(h, rank) ==
    ResolveAfterAction([h EXCEPT !.acted = @ \cup {h.acting_seat}], rank)
ApplyCall(h, rank) == PutIn(h, rank, ToCall(h, h.acting_seat))
ApplyBet(h, rank, amount) == RaiseTo(h, rank, Least(Shove(h), amount))
ApplyRaise(h, rank, amount) == RaiseTo(h, rank, amount)
ApplyAllIn(h, rank) ==
    IF Shove(h) <= h.current_bet THEN PutIn(h, rank, h.stack[h.acting_seat])
    ELSE RaiseTo(h, rank, Shove(h))

ApplyAction(h, rank, type, amount) ==
    CASE type = "fold" -> ApplyFold(h, rank)
      [] type = "check" -> ApplyCheck(h, rank)
      [] type = "call" -> ApplyCall(h, rank)
      [] type = "bet" -> ApplyBet(h, rank, amount)
      [] type = "raise" -> ApplyRaise(h, rank, amount)
      [] type = "all_in" -> ApplyAllIn(h, rank)

LegalActions(h) ==
    IF ~CanAct(h) THEN {}
    ELSE LET stack == h.stack[h.acting_seat]
             to_call == ToCall(h, h.acting_seat)
         IN  {"fold"}
             \cup (IF to_call = 0 THEN {"check"} ELSE {"call"})
             \cup (IF to_call = 0 /\ stack > 0 THEN {"bet", "all_in"} ELSE {})
             \cup (IF to_call > 0 /\ stack > to_call THEN {"raise", "all_in"} ELSE {})

StartNewHand(stacks, button) ==
    LET fresh == [street |-> "pre_flop", board |-> 0, button |-> button,
                  pot |-> 0, to_call |-> 0, current_bet |-> 0, min_raise_to |-> 2 * BigBlind,
                  acting_seat |-> None, winner_seat |-> None,
                  is_terminal |-> FALSE, showdown_reached |-> FALSE,
                  stack |-> stacks,
                  invested |-> [s \in Seats |-> 0], total_invested |-> [s \in Seats |-> 0],
                  folded |-> {}, all_in |-> {}, acted |-> {}]
        sb == IF NumSeats = 2 THEN button ELSE NextSeat(button)
        bb == NextSeat(sb)
        first == NextSeat(bb)
        posted == Commit(Commit(fresh, sb, SmallBlind), bb, BigBlind)
        bet == Least(BigBlind, posted.invested[bb])
    IN  [posted EXCEPT !.current_bet = bet,
                       !.acting_seat = first,
                       !.to_call = Greatest(0, bet - posted.invested[first]),
                       !.min_raise_to = bet + BigBlind]

-----------------------------------------------------------------------------
(* The specification: one hand and the players who act on it.              *)

VARIABLES
    hand,            \* HandRuntime.state
    initial_stacks   \* HandRuntime.initial_stacks

vars == <<hand, initial_stacks>>

Init ==
    /\ initial_stacks \in StackVectors
    /\ \E button \in Seats : hand = StartNewHand(initial_stacks, button)

Fold ==
    /\ Accepts(hand, "fold", 0)
    /\ \E rank \in Rankings : hand' = ApplyFold(hand, rank)
    /\ UNCHANGED initial_stacks

Check ==
    /\ Accepts(hand, "check", 0)
    /\ \E rank \in Rankings : hand' = ApplyCheck(hand, rank)
    /\ UNCHANGED initial_stacks

Call ==
    /\ Accepts(hand, "call", 0)
    /\ \E rank \in Rankings : hand' = ApplyCall(hand, rank)
    /\ UNCHANGED initial_stacks

Bet ==
    /\ \E amount \in 0 .. MaxAmount, rank \in Rankings :
          /\ Accepts(hand, "bet", amount)
          /\ hand' = ApplyBet(hand, rank, amount)
    /\ UNCHANGED initial_stacks

Raise ==
    /\ \E amount \in 0 .. MaxAmount, rank \in Rankings :
          /\ Accepts(hand, "raise", amount)
          /\ hand' = ApplyRaise(hand, rank, amount)
    /\ UNCHANGED initial_stacks

AllIn ==
    /\ Accepts(hand, "all_in", 0)
    /\ \E rank \in Rankings : hand' = ApplyAllIn(hand, rank)
    /\ UNCHANGED initial_stacks

(* A finished hand stays as it is; any other state without a step is a     *)
(* hand nobody can act on, which TLC reports as a deadlock.                *)
Finished == hand.is_terminal /\ UNCHANGED vars

Next == Fold \/ Check \/ Call \/ Bet \/ Raise \/ AllIn \/ Finished

Spec == Init /\ [][Next]_vars

(* The callers that drive a hand keep acting until it is terminal          *)
(* (GameOrchestrator.play_hand_to_completion, SessionRunner).              *)
FairSpec == Spec /\ WF_vars(Next)

-----------------------------------------------------------------------------
(* replay_hand: rows of actions on a fresh runtime, one by one; ok turns   *)
(* false when the engine refuses a row and the replay fails.               *)

ReplayRow(run, rank, row) ==
    IF run.ok /\ Accepts(run.hand, row.type, row.amount)
    THEN [run EXCEPT !.hand = ApplyAction(@, rank, row.type, row.amount)]
    ELSE [run EXCEPT !.ok = FALSE]

ReplayRows(fresh, rows, rank) ==
    FoldLeft(LAMBDA run, row : ReplayRow(run, rank, row), [hand |-> fresh, ok |-> TRUE], rows)

(* The hand a replay starts from: the stored stacks and button again.      *)
FreshHand == StartNewHand(initial_stacks, hand.button)

-----------------------------------------------------------------------------
(* Properties.                                                             *)

Hand == [street : {"pre_flop", "flop", "turn", "river", "terminal"},
         board : 0 .. 5,
         button : Seats,
         pot : Int,
         to_call : Int,
         current_bet : Int,
         min_raise_to : Int,
         acting_seat : Seats \cup {None},
         winner_seat : Seats \cup {None},
         is_terminal : BOOLEAN,
         showdown_reached : BOOLEAN,
         stack : [Seats -> Int],
         invested : [Seats -> Int],
         total_invested : [Seats -> Int],
         folded : SUBSET Seats,
         all_in : SUBSET Seats,
         acted : SUBSET Seats]

(* The hand is a HandState and the stacks it started with are known.       *)
TypeOK == hand \in Hand /\ initial_stacks \in [Seats -> Nat]

(* validate_invariants and _commit: until the hand ends, the pot is what   *)
(* the seats have invested, across commits, refunds and new streets.       *)
PotIsInvestments == ~hand.is_terminal => hand.pot = SeatSum(hand.total_invested)

(* Until the hand ends no chip of a seat is anywhere but in its stack or   *)
(* in its investment: a call, a raise, a short all-in and a new street     *)
(* move no chip between seats.                                             *)
SeatLedger ==
    ~hand.is_terminal =>
        \A s \in Seats : hand.stack[s] + hand.total_invested[s] = initial_stacks[s]

(* validate_invariants and docs/architecture/data-model.md: the chips on   *)
(* the table, stacks and pot, are those the hand started with, also after  *)
(* refunds, side pots, split pots and odd chips are paid.                  *)
ChipConservation == SeatSum(hand.stack) + hand.pot = SeatSum(initial_stacks)

(* No stack and no investment is ever negative, and the pot is empty once  *)
(* the hand is over.                                                       *)
NoNegativeChips ==
    /\ \A s \in Seats : hand.stack[s] >= 0 /\ hand.invested[s] >= 0
                                           /\ hand.total_invested[s] >= hand.invested[s]
    /\ hand.is_terminal => hand.pot = 0

(* At a showdown a seat wins from each other seat at most what it brought  *)
(* to the table itself: the side pots cap an all-in player, whatever the   *)
(* cards and however the pot is split.                                     *)
SidePotsCap ==
    hand.showdown_reached => \A s \in Seats :
        hand.stack[s] <= SeatSum([t \in Seats |-> Least(initial_stacks[t], initial_stacks[s])])

(* A seat that folded gets nothing back: at the end of the hand it has     *)
(* what it did not invest, whatever was refunded or split among others.    *)
FoldedNeverPaid ==
    \A s \in hand.folded : hand.stack[s] + hand.total_invested[s] = initial_stacks[s]

(* data-model.md, "Terminal State": a hand ends by showdown over the whole *)
(* board between at least two seats, or with a winner who alone is left.   *)
EndsProperly ==
    hand.is_terminal =>
        IF hand.showdown_reached
        THEN hand.board = 5 /\ Count(Active(hand)) >= 2
        ELSE hand.winner_seat # None /\ Active(hand) = {hand.winner_seat}

(* tests/property/test_engine_properties.py, property 5: while the hand    *)
(* runs, the seat it waits for has a legal action.                         *)
SomeoneCanAct == ~hand.is_terminal => LegalActions(hand) # {}

(* A hand plays out and pays what is in the pot, but for what the code     *)
(* gets wrong: a folded seat that had invested more than every seat left   *)
(* loses what nobody can win; and the hand waits for ever for the button   *)
(* of a heads-up hand whose small blind put it all in, or for any seat but *)
(* the button when the button alone has chips left to bet.                 *)
PlaysOut ==
    /\ (\A s \in hand.folded :
             \E t \in Active(hand) : hand.total_invested[s] <= hand.total_invested[t])
           => ChipConservation
    /\ \/ SomeoneCanAct
       \/ CanBet(hand) = {hand.button} /\ hand.acted = {}
       \/ /\ NumSeats = 2 /\ hand.street = "pre_flop" /\ hand.acting_seat = hand.button
          /\ initial_stacks[hand.button] <= SmallBlind

(* A betting round that leaves two seats with chips to bet closes only     *)
(* when every seat that can still bet has acted in it and owes nothing,    *)
(* unless a seat has gone all in in it: acted_this_street counts that seat *)
(* against those that can still bet, and one of them is passed over.       *)
RoundClosesFairly ==
    [][ /\ hand'.street # hand.street
        /\ Count(CanBet(hand')) >= 2
        /\ hand'.all_in \cap (hand.acted \cup {hand.acting_seat}) = {}
        => \A s \in CanBet(hand) \ (hand'.folded \cup {hand.acting_seat}) :
               s \in hand.acted /\ ToCall(hand, s) = 0 ]_vars

(* What is settled stays settled: a fold and an all-in are not taken back, *)
(* a street is not replayed, nobody's chips come back before the end, and  *)
(* a finished hand does not change.                                        *)
OnlyForward ==
    [][ /\ hand.folded \subseteq hand'.folded
        /\ hand.all_in \subseteq hand'.all_in
        /\ hand.board <= hand'.board
        /\ ~hand'.is_terminal => \A s \in Seats : hand'.stack[s] <= hand.stack[s]
        /\ hand.is_terminal => hand' = hand ]_vars

(* The hand as an implementation of the chip ledger: the stakes are the    *)
(* total investments until the hand is over.                               *)
Staked == IF hand.is_terminal THEN [s \in Seats |-> 0] ELSE hand.total_invested

Ledger == INSTANCE ChipLedger WITH
              chips <- hand.stack,
              staked <- Staked,
              out <- hand.folded,
              open <- ~hand.is_terminal

(* Every call of start_new_hand and apply_action is a move of the ledger:  *)
(* chips move from a stack to its own stake, and the end of the hand, with *)
(* its refunds, side pots, splits and odd chips, pays the stakes out in    *)
(* full and only to players who did not fold.                              *)
ImplementsLedger == Ledger!Spec

(* Players who keep acting get to the end of the hand, or to a seat that   *)
(* has no legal action (the only other way to stop): raises are bounded by *)
(* the stacks and every round of checks closes.                            *)
HandTerminates == <>(hand.is_terminal \/ LegalActions(hand) = {})
=============================================================================
