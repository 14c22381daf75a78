----------------------------- MODULE Orchestrator -----------------------------
(***************************************************************************)
(* One hand played by agents: GameOrchestrator.play_hand_to_completion,    *)
(* which stores what it does, and the loop of MatchHarness.run, which      *)
(* does not.                                                               *)
(*                                                                         *)
(* The loop is a single thread; what makes it several steps is that each   *)
(* turn decides, applies in memory, appends the action and appends the     *)
(* trace, and each of these may raise and leave the others done.           *)
(***************************************************************************)
EXTENDS Agents

CONSTANT MaxActions   \* max_actions, 200 in the code

ASSUME CapAssumption == MaxActions \in Nat \ {0}

VARIABLES
    driver,    \* "orchestrator" or "match"
    agent,     \* agent[s]: the kind of the agent that decides for seat s
    deck,      \* how the cards of the runtime's deck rank the seats
    seen,      \* runtime.state.actions, as an adaptive agent counts them
    applied,   \* the latest decision the engine applied
    log,       \* the rows of action_log
    traces,    \* the rows of decision_traces
    final,     \* the snapshot labelled "final", or None
    turn,      \* what the loop does next
    outcome    \* "playing", "done" or "raised"

playVars == <<hand, initial_stacks, driver, agent, deck, seen, applied, log, traces, final, turn, outcome>>
table == <<initial_stacks, driver, agent, deck>>

(* start_new_hand; create_hand stores it, with its stacks and its seed.    *)
(* The orchestrator asks one agent for every seat.                         *)
PlayInit ==
    /\ initial_stacks \in StackVectors
    /\ \E button \in Seats : hand = StartNewHand(initial_stacks, button)
    /\ deck \in Rankings
    /\ driver \in {"orchestrator", "match"}
    /\ agent \in [Seats -> AgentKinds]
    /\ driver = "orchestrator" => \A s, t \in Seats : agent[s] = agent[t]
    /\ seen = Unseen /\ applied = None /\ log = <<>> /\ traces = <<>>
    /\ final = None
    /\ turn = "decide"
    /\ outcome = "playing"

Options == Decisions(agent[hand.acting_seat], hand, seen)

(* Nobody else looks at the actions so far.                                *)
Adapts == \E s \in Seats : agent[s] = "adaptive"

(* The while condition; the cap counts the turns that are stored.          *)
GoesOn ==
    /\ ~hand.is_terminal
    /\ driver = "orchestrator" => Len(traces) < MaxActions

(* decide_and_apply: the agent decides and the engine applies.             *)
DecideAndApply ==
    /\ outcome = "playing" /\ turn = "decide" /\ GoesOn
    /\ \E d \in Options :
          /\ Accepts(hand, d.type, d.amount)
          /\ hand' = ApplyAction(hand, deck, d.type, d.amount)
          /\ seen' = IF Adapts THEN Observe(seen, hand.acting_seat, d.type) ELSE seen
          /\ applied' = [seat |-> hand.acting_seat, type |-> d.type, amount |-> d.amount]
    /\ turn' = IF driver = "orchestrator" THEN "append_action" ELSE "decide"
    /\ UNCHANGED <<table, log, traces, final, outcome>>

(* The engine refuses the decision, or there is nothing to decide on:      *)
(* nothing catches the error.                                              *)
DecisionRefused ==
    /\ outcome = "playing" /\ turn = "decide" /\ GoesOn
    /\ Options = {} \/ \E d \in Options : ~Accepts(hand, d.type, d.amount)
    /\ outcome' = "raised"
    /\ UNCHANGED <<hand, table, seen, applied, log, traces, final, turn>>

(* Mutant: the action that ends the hand is not stored any more.           *)
AppendUnlessOver ==
    /\ outcome = "playing" /\ turn = "append_action"
    /\ log' = IF hand.is_terminal THEN log ELSE Append(log, applied)
    /\ turn' = "append_trace"
    /\ UNCHANGED <<hand, table, seen, applied, traces, final, outcome>>

AppendAction ==
    /\ outcome = "playing" /\ turn = "append_action"
    /\ log' = Append(log, applied)
    /\ turn' = "append_trace"
    /\ UNCHANGED <<hand, table, seen, applied, traces, final, outcome>>

AppendTrace ==
    /\ outcome = "playing" /\ turn = "append_trace"
    /\ traces' = Append(traces, applied)
    /\ turn' = "decide"
    /\ UNCHANGED <<hand, table, seen, applied, log, final, outcome>>

(* A statement of the store raises.                                        *)
StoreRaises ==
    /\ outcome = "playing" /\ driver = "orchestrator"
    /\ turn # "decide" \/ ~GoesOn
    /\ outcome' = "raised"
    /\ UNCHANGED <<hand, table, seen, applied, log, traces, final, turn>>

(* After the loop, also when the cap has ended it before the hand is over. *)
Finish ==
    /\ outcome = "playing" /\ turn = "decide" /\ ~GoesOn
    /\ final' = IF driver = "orchestrator" THEN hand ELSE None
    /\ outcome' = "done"
    /\ UNCHANGED <<hand, table, seen, applied, log, traces, turn>>

(* What has ended stays; a loop that could do nothing would be a deadlock. *)
PlayOver == outcome # "playing" /\ UNCHANGED playVars

PlayNext ==
    \/ DecideAndApply \/ DecisionRefused \/ AppendAction \/ AppendTrace
    \/ StoreRaises \/ Finish \/ PlayOver

PlaySpec == PlayInit /\ [][PlayNext]_playVars

(* The caller's thread runs the loop until it returns or raises.  This is  *)
(* WF_playVars(PlayNext) where some step can be taken until then, which is *)
(* what the deadlock check says.                                           *)
PlayFairness == []<>(outcome # "playing") \/ []<><<TRUE>>_playVars
PlayFairSpec == PlaySpec /\ PlayFairness

-----------------------------------------------------------------------------
(* Properties.                                                             *)

(* replay_hand over the rows of the hand.                                  *)
ReplayHand(rows) == ReplayRows(FreshHand, rows, deck)

(* A seat whose whole stack makes at least the least raise.                *)
CanMakeRaise(h) == Shove(h) >= h.min_raise_to

(* The engine takes what an agent decides, whatever the agent has read in  *)
(* the cards and whatever its table predicts, as long as the seat has the  *)
(* chips for a raise; an agent that samples must also not bet on a street  *)
(* with a bet (the big blind's option), which it sizes as an opening bet.  *)
(* The rules never fold a hand that they could check.                      *)
DecisionsAccepted ==
    GoesOn /\ CanAct(hand) =>
        LET kind == agent[hand.acting_seat]
        IN  \A d \in Options :
                /\ \/ Accepts(hand, d.type, d.amount)
                   \/ ~CanMakeRaise(hand)
                   \/ kind = "sampling" /\ d.type = "bet" /\ hand.current_bet > 0
                /\ kind \in {"baseline", "adaptive"} /\ d.type = "fold" => Price(hand) > 0

(* Whatever raised in between, the stored rows are accepted again in their *)
(* order, and once the last applied action is stored they rebuild the hand *)
(* itself: the amounts that were asked for are enough to play it again.    *)
(* The final snapshot, if there is one, is what they rebuild.              *)
LogReplays ==
    driver = "orchestrator" =>
        LET replay == ReplayHand(log)
        IN  /\ replay.ok
            /\ turn # "append_action" => replay.hand = hand
            /\ final # None => final = replay.hand

(* The loop ends: with the hand, at its cap, or with an error.             *)
PlayEnds == <>(outcome # "playing")
=============================================================================
