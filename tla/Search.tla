-------------------------------- MODULE Search --------------------------------
(***************************************************************************)
(* How the agents that search look ahead: they play the hand again from    *)
(* its recorded actions and try an action in the copy.                     *)
(*                                                                         *)
(* CFRTrainer does it for every legal action of a node (_clone_and_act),   *)
(* ISMCTSAgent once for each simulation (_determinize), which then walks   *)
(* down the tree of what it has tried (_simulate).                         *)
(***************************************************************************)
EXTENDS Agents, SequencesExt

CONSTANT MaxSimulations   \* num_simulations

VARIABLES
    actions,   \* HandState.actions: the type and the recorded amount of each
    tree       \* the root: its visits and those of its children, in their order

searchVars == <<hand, initial_stacks, actions, tree>>

(* legal_actions as a list.                                                *)
InOrder(h) ==
    SelectSeq(<<"fold", "check", "call", "bet", "raise", "all_in">>,
              LAMBDA type : type \in LegalActions(h))

Event(type, amount) == [type |-> type, amount |-> amount]
Blind(event) == event.type \in {"post_small_blind", "post_big_blind"}
NoTree == [simulations |-> 0, visits |-> 0, children |-> <<>>]

(* Both blinds are recorded like the actions of the players.               *)
SearchInit ==
    /\ Init
    /\ actions = <<Event("post_small_blind", SmallBlind), Event("post_big_blind", BigBlind)>>
    /\ tree = NoTree

(* What _append_action records: the chips put in, not the amount asked.    *)
Recorded(h, type, amount) ==
    LET before == h.invested[h.acting_seat]
    IN  CASE type \in {"fold", "check"} -> 0
          [] type = "call" -> Least(Price(h), Stack(h))
          [] type = "bet" -> Least(Shove(h), amount) - before
          [] type = "raise" -> amount - before
          [] type = "all_in" -> Stack(h)

(* The hand goes on; the next decision starts from an empty tree.          *)
Play ==
    /\ \E type \in LegalActions(hand), rank \in Rankings :
          LET amount == SizeAction(hand, type)
          IN  /\ Accepts(hand, type, amount)
              /\ hand' = ApplyAction(hand, rank, type, amount)
              /\ actions' = Append(actions, Event(type, Recorded(hand, type, amount)))
    /\ tree' = NoTree
    /\ UNCHANGED initial_stacks

-----------------------------------------------------------------------------
(* The replay on a new hand, with cards that rank the seats.  An event     *)
(* that is refused raises, which both answer with None.                    *)

Replayed(rank, events) ==
    FoldLeft(LAMBDA copy, event :
                 IF copy = None THEN None
                 ELSE IF copy.is_terminal THEN copy
                 ELSE IF Accepts(copy, event.type, event.amount)
                 THEN ApplyAction(copy, rank, event.type, event.amount)
                 ELSE None,
             StartNewHand(initial_stacks, hand.button), events)

CloneAndAct(rank, type) ==
    LET copy == Replayed(rank, actions)
        amount == SizeAction(hand, type)
    IN  IF copy = None THEN None
        ELSE IF Accepts(copy, type, amount) THEN ApplyAction(copy, rank, type, amount)
        ELSE None

Determinize(rank) ==
    LET copy == Replayed(rank, SelectSeq(actions, LAMBDA event : ~Blind(event)))
    IN  IF copy = None THEN None
        ELSE IF copy.is_terminal THEN None ELSE copy

-----------------------------------------------------------------------------
(* One simulation of ISMCTSAgent.search.                                   *)

Unvisited(t) == {i \in DOMAIN t.children : t.children[i].visits = 0}

(* best_child: an unvisited child scores infinity and the first wins.  The *)
(* others are chosen by their values.                                      *)
BestChildren(t) ==
    IF Unvisited(t) = {} THEN DOMAIN t.children
    ELSE {i \in Unvisited(t) : \A j \in Unvisited(t) : i <= j}

Expanded(t, h) ==
    [t EXCEPT !.visits = @ + 1,
              !.children = [i \in DOMAIN InOrder(h) |-> [type |-> InOrder(h)[i], visits |-> 0]]]

(* A child counts what goes on below it: nothing when the hand is over, or *)
(* when nobody can act.                                                    *)
Descended(t, h, rank, i) ==
    LET type == t.children[i].type
        amount == SizeAction(h, type)
        counts == /\ Accepts(h, type, amount)
                  /\ LegalActions(ApplyAction(h, rank, type, amount)) # {}
    IN  [t EXCEPT !.visits = @ + 1,
                  !.children[i].visits = IF counts THEN @ + 1 ELSE @]

Simulate ==
    /\ tree.simulations < MaxSimulations /\ LegalActions(hand) # {}
    /\ \E rank \in Rankings :
          LET copy == Determinize(rank)
              next == [tree EXCEPT !.simulations = @ + 1]
          IN  IF copy = None THEN tree' = next
              ELSE IF tree.children = <<>> THEN tree' = Expanded(next, copy)
              ELSE \E i \in BestChildren(tree) : tree' = Descended(next, copy, rank, i)
    /\ UNCHANGED <<hand, initial_stacks, actions>>

SearchNext == Play \/ Simulate
SearchSpec == SearchInit /\ [][SearchNext]_searchVars

-----------------------------------------------------------------------------
(* What the docstrings say.                                                *)

(* _clone_and_act gives None only for what the engine would refuse.        *)
ClonesWhatIsLegal ==
    \A type \in LegalActions(hand), rank \in Rankings :
        Accepts(hand, type, SizeAction(hand, type)) => CloneAndAct(rank, type) # None

(* The answer of search rests on visits: once the root has been visited    *)
(* more often than it has children, one of them has been visited, unless   *)
(* each of them ends the hand.                                             *)
GoesOnAfter(type) ==
    LET amount == SizeAction(hand, type)
    IN  /\ Accepts(hand, type, amount)
        /\ \A rank \in Rankings : LegalActions(ApplyAction(hand, rank, type, amount)) # {}

AnswersByVisits ==
    /\ tree.visits > Len(tree.children)
    /\ \E i \in DOMAIN tree.children : GoesOnAfter(tree.children[i].type)
    => Unvisited(tree) # DOMAIN tree.children

-----------------------------------------------------------------------------
(* Values for TLC: a heads-up hand as the trainers start it, and cards     *)
(* that rank the seats either way.                                         *)
EqualStacks == {[s \in Seats |-> 12]}
EitherWins == {[s \in Seats |-> s], [s \in Seats |-> 1 - s]}
=============================================================================
