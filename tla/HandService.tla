---------------------------- MODULE HandService -----------------------------
(***************************************************************************)
(* The /v1/hands API over the engine and the SQLite hand store, for one    *)
(* hand: apps/api/routers/hands.py, packages/persistence/sqlite_store.py   *)
(* and services/replay_service/service.py.                                 *)
(*                                                                         *)
(* The handlers are plain functions that FastAPI runs in a pool of         *)
(* threads; nothing locks container.runtimes, and every method of the      *)
(* store opens a connection of its own.  A request is therefore a process  *)
(* with a program counter, and a step is what no other request can         *)
(* interrupt: a read of the runtime, a call of apply_action, one SQL       *)
(* statement that commits by itself.  append_action is two such steps,     *)
(* because sqlite3 opens a transaction at the INSERT and not at the SELECT *)
(* before it.  A statement may also fail (a locked database, a full disk): *)
(* its exception leaves the handler, nothing of what the handler did is    *)
(* undone, and the process serves on.  A crash of the process empties      *)
(* container.runtimes and keeps the committed rows.                        *)
(*                                                                         *)
(* The engine's variables are the live runtime (hand) and the stacks_json  *)
(* of the row in hands (initial_stacks).                                   *)
(***************************************************************************)
EXTENDS Engine, FiniteSets

CONSTANTS
    Clients,    \* concurrent requests
    Requests,   \* [type, amount] bodies a client may post
    Seeded,     \* the hand was started with a seed: a replay deals the same cards
    StoreFails, \* a statement of the store may raise
    Crashes     \* the process may crash

ASSUME RequestsAssumption == Requests \subseteq [type : ActionTypes, amount : 0 .. MaxAmount]

VARIABLES
    deck,      \* how the cards of the runtime's deck rank the seats
    alive,     \* container.runtimes holds the hand
    stored,    \* the row of table hands is committed
    log,       \* rows of action_log, in the order they were inserted
    snaps,     \* rows of snapshots, in the order they were inserted
    pc,        \* pc[c]: the next step of the request of client c
    req,       \* req[c]: the local variables of that request
    applied,   \* history: the requests apply_action accepted, in order
    acked,     \* history: those answered with status 200, by their place in applied
    lost       \* history: those whose row the store refused, answered 500

store == <<log, snaps>>
history == <<applied, acked, lost>>
svars == <<hand, initial_stacks, deck, alive, stored, log, snaps, pc, req, applied, acked, lost>>

NoRequest == [type |-> "none", amount |-> 0, seat |-> None, id |-> 0, order |-> 0]

Goto(c, label) == pc' = [pc EXCEPT ![c] = label]

(* COALESCE(MAX(order), -1) + 1 over the rows of the hand.                 *)
NextOrder(rows) == MaxOf({-1} \cup {rows[i].order : i \in DOMAIN rows}) + 1

-----------------------------------------------------------------------------
(* Replay: the rows of the log read back ORDER BY action_order; the index  *)
(* on (hand_id, action_order) yields equal orders by rowid.                *)

UpTo(rows, i) ==
    {j \in DOMAIN rows : \/ rows[j].order < rows[i].order
                         \/ rows[j].order = rows[i].order /\ j <= i}
InOrder(rows) ==
    [n \in DOMAIN rows |->
        rows[CHOOSE i \in DOMAIN rows : Cardinality(UpTo(rows, i)) = n]]

Replay(rows, rank) == ReplayRows(FreshHand, InOrder(rows), rank)

(* get_latest_snapshot: the greatest snapshot_order, the last of equals.   *)
LatestSnapshot ==
    CHOOSE row \in ToSet(snaps) :
        \E i \in DOMAIN snaps :
            /\ snaps[i] = row
            /\ \A j \in DOMAIN snaps :
                   \/ snaps[j].order < row.order
                   \/ snaps[j].order = row.order /\ j <= i

-----------------------------------------------------------------------------
(* POST /v1/hands/new                                                      *)

(* The runtime is started and registered before anything is stored; the    *)
(* other clients learn the hand's id from the response.                    *)
NewHand(c) ==
    /\ pc[c] = "idle" /\ ~alive /\ ~stored
    /\ initial_stacks' \in StackVectors
    /\ \E button \in Seats : hand' = StartNewHand(initial_stacks', button)
    /\ deck' \in Rankings
    /\ alive' = TRUE
    /\ Goto(c, "create_hand")
    /\ UNCHANGED <<stored, store, req, history>>

(* One transaction: the hand and its snapshot number 0.                    *)
CreateHand(c) ==
    /\ pc[c] = "create_hand"
    /\ stored' = TRUE
    /\ snaps' = <<[order |-> 0, hand |-> hand, upto |-> 0]>>
    /\ Goto(c, "idle")
    /\ UNCHANGED <<hand, initial_stacks, deck, alive, log, req, history>>

-----------------------------------------------------------------------------
(* POST /v1/hands/{id}/actions and /auto                                   *)

(* act: the runtime is found and its acting seat read.                     *)
Act(c) ==
    /\ pc[c] = "idle" /\ alive /\ stored
    /\ \E r \in Requests :
          req' = [req EXCEPT ![c] = [NoRequest EXCEPT !.type = r.type, !.amount = r.amount,
                                                      !.seat = hand.acting_seat]]
    /\ Goto(c, "apply")
    /\ UNCHANGED <<hand, initial_stacks, deck, alive, stored, store, history>>

(* auto_act: the agent decides on an action the engine would accept now;   *)
(* the acting seat is read afterwards.                                     *)
Decide(c) ==
    /\ pc[c] = "idle" /\ alive /\ stored
    /\ \E r \in Requests :
          /\ Accepts(hand, r.type, r.amount)
          /\ req' = [req EXCEPT ![c] = [NoRequest EXCEPT !.type = r.type, !.amount = r.amount]]
    /\ Goto(c, "read_seat")
    /\ UNCHANGED <<hand, initial_stacks, deck, alive, stored, store, history>>

ReadSeat(c) ==
    /\ pc[c] = "read_seat"
    /\ req' = [req EXCEPT ![c].seat = hand.acting_seat]
    /\ Goto(c, "apply")
    /\ UNCHANGED <<hand, initial_stacks, deck, alive, stored, store, history>>

(* Mutant: the log is left to the snapshot.                                *)
ApplyUnlogged(c) ==
    /\ pc[c] = "apply" /\ Accepts(hand, req[c].type, req[c].amount)
    /\ hand' = ApplyAction(hand, deck, req[c].type, req[c].amount)
    /\ applied' = Append(applied, [type |-> req[c].type, amount |-> req[c].amount,
                                   seat |-> hand.acting_seat])
    /\ req' = [req EXCEPT ![c].id = Len(applied) + 1]
    /\ Goto(c, "snapshot")
    /\ UNCHANGED <<initial_stacks, deck, alive, stored, store, acked, lost>>

(* apply_action accepts the request, or raises and the answer is 400.      *)
Apply(c) ==
    /\ pc[c] = "apply"
    /\ IF Accepts(hand, req[c].type, req[c].amount)
       THEN /\ hand' = ApplyAction(hand, deck, req[c].type, req[c].amount)
            /\ applied' = Append(applied, [type |-> req[c].type, amount |-> req[c].amount,
                                           seat |-> hand.acting_seat])
            /\ req' = [req EXCEPT ![c].id = Len(applied) + 1]
            /\ Goto(c, "select_order")
       ELSE /\ req' = [req EXCEPT ![c] = NoRequest]
            /\ Goto(c, "idle")
            /\ UNCHANGED <<hand, applied>>
    /\ UNCHANGED <<initial_stacks, deck, alive, stored, store, acked, lost>>

(* append_action: SELECT MAX(action_order), then INSERT.                   *)
SelectOrder(c) ==
    /\ pc[c] = "select_order"
    /\ req' = [req EXCEPT ![c].order = NextOrder(log)]
    /\ Goto(c, "insert_action")
    /\ UNCHANGED <<hand, initial_stacks, deck, alive, stored, store, history>>

(* Mutant: the seat is read after the action.                              *)
InsertNextSeat(c) ==
    /\ pc[c] = "insert_action"
    /\ log' = Append(log, [req[c] EXCEPT !.seat = hand.acting_seat])
    /\ Goto(c, "snapshot")
    /\ UNCHANGED <<hand, initial_stacks, deck, alive, stored, snaps, req, history>>

(* Mutant: the amount of a bet is left out of the row.                     *)
InsertAmountless(c) ==
    /\ pc[c] = "insert_action"
    /\ log' = Append(log, [req[c] EXCEPT !.amount = 0])
    /\ Goto(c, "snapshot")
    /\ UNCHANGED <<hand, initial_stacks, deck, alive, stored, snaps, req, history>>

InsertAction(c) ==
    /\ pc[c] = "insert_action"
    /\ log' = Append(log, req[c])
    /\ Goto(c, "snapshot")
    /\ UNCHANGED <<hand, initial_stacks, deck, alive, stored, snaps, req, history>>

(* state_snapshot of the runtime as it is now, and the SELECT of           *)
(* append_snapshot.                                                        *)
TakeSnapshot(c) ==
    /\ pc[c] = "snapshot"
    /\ req' = [req EXCEPT ![c] = [id |-> req[c].id, hand |-> hand, upto |-> Len(applied)]]
    /\ Goto(c, "select_snapshot")
    /\ UNCHANGED <<hand, initial_stacks, deck, alive, stored, store, history>>

SelectSnapshot(c) ==
    /\ pc[c] = "select_snapshot"
    /\ req' = [req EXCEPT ![c] = [id |-> @.id, hand |-> @.hand, upto |-> @.upto,
                                  order |-> NextOrder(snaps)]]
    /\ Goto(c, "insert_snapshot")
    /\ UNCHANGED <<hand, initial_stacks, deck, alive, stored, store, history>>

(* The request is answered, unless auto_act, which then reads the traces   *)
(* back, fails to.                                                         *)
InsertSnapshot(c) ==
    /\ pc[c] = "insert_snapshot"
    /\ snaps' = Append(snaps, [order |-> req[c].order, hand |-> req[c].hand,
                               upto |-> req[c].upto])
    /\ \/ acked' = acked \cup {req[c].id}
       \/ StoreFails /\ acked' = acked
    /\ req' = [req EXCEPT ![c] = NoRequest]
    /\ Goto(c, "idle")
    /\ UNCHANGED <<hand, initial_stacks, deck, alive, stored, log, applied, lost>>

(* A call of the store raises, append_decision_trace before the snapshot   *)
(* included: the answer is 500, and what the request has done stays.  An   *)
(* action whose row was refused is never stored; a hand that create_hand   *)
(* refused stays in container.runtimes, and no client knows its id.        *)
StoreRaises(c) ==
    /\ StoreFails
    /\ pc[c] \in {"create_hand", "select_order", "insert_action",
                  "snapshot", "select_snapshot", "insert_snapshot"}
    /\ lost' = IF pc[c] \in {"select_order", "insert_action"} THEN lost \cup {req[c].id}
               ELSE lost
    /\ req' = [req EXCEPT ![c] = NoRequest]
    /\ Goto(c, "idle")
    /\ UNCHANGED <<hand, initial_stacks, deck, alive, stored, store, applied, acked>>

-----------------------------------------------------------------------------
(* The process dies with every request in it; the database stays.          *)
Crash ==
    /\ Crashes /\ alive
    /\ alive' = FALSE
    /\ pc' = [c \in Clients |-> "idle"]
    /\ req' = [c \in Clients |-> NoRequest]
    /\ UNCHANGED <<hand, initial_stacks, deck, stored, store, history>>

ServiceInit ==
    /\ initial_stacks \in StackVectors
    /\ hand = StartNewHand(initial_stacks, 0)
    /\ deck \in Rankings
    /\ alive = FALSE /\ stored = FALSE
    /\ log = <<>> /\ snaps = <<>>
    /\ pc = [c \in Clients |-> "idle"]
    /\ req = [c \in Clients |-> NoRequest]
    /\ applied = <<>> /\ acked = {} /\ lost = {}

Handle(c) ==
    \/ CreateHand(c) \/ ReadSeat(c) \/ Apply(c)
    \/ SelectOrder(c) \/ InsertAction(c)
    \/ TakeSnapshot(c) \/ SelectSnapshot(c) \/ InsertSnapshot(c)
    \/ StoreRaises(c)

ServiceNext ==
    \/ \E c \in Clients : NewHand(c) \/ Act(c) \/ Decide(c) \/ Handle(c)
    \/ Crash

ServiceSpec == ServiceInit /\ [][ServiceNext]_svars

-----------------------------------------------------------------------------
(* Properties.                                                             *)

Labels == {"idle", "create_hand", "apply", "read_seat", "select_order", "insert_action",
           "snapshot", "select_snapshot", "insert_snapshot"}
Action == [type : ActionTypes, amount : 0 .. MaxAmount, seat : Seats]

(* The live hand is a HandState, the history holds accepted actions, and   *)
(* a request is answered only for an action it got accepted.               *)
ServiceTypeOK ==
    /\ TypeOK
    /\ pc \in [Clients -> Labels]
    /\ applied \in Seq(Action)
    /\ acked \subseteq DOMAIN applied
    /\ lost \subseteq DOMAIN applied

Quiet == alive /\ stored /\ \A c \in Clients : pc[c] = "idle"

(* docs/06_Test_Strategy.md and docs/14_Sprint_02: with no request under   *)
(* way, a replay from the stored stacks, button, seed and log rebuilds the *)
(* live hand exactly, and never fails.                                     *)
ReplayFaithful ==
    Quiet => \A rank \in IF Seeded THEN {deck} ELSE Rankings :
                 Replay(log, rank) = [hand |-> hand, ok |-> TRUE]

(* docs/architecture/data-model.md, "Action Ordering": no two actions of a *)
(* hand have the same place in the log.                                    *)
StrictOrder ==
    \A i, j \in DOMAIN log : log[i].order = log[j].order => i = j

(* The accepted actions that have a row.                                   *)
Ids == {log[i].id : i \in DOMAIN log}

(* Whatever the store refuses and whenever the process may die, what is    *)
(* left is in order: the rows are those of accepted actions, seat by seat  *)
(* and in the order the engine took them, no two with the same place; only *)
(* the actions the store refused are missing, and perhaps the last one;    *)
(* and the latest snapshot, which get_hand then serves, is behind by no    *)
(* action that was answered with 200.                                      *)
StoreInOrder ==
    /\ \A i \in DOMAIN log :
          [type |-> log[i].type, amount |-> log[i].amount, seat |-> log[i].seat]
          = applied[log[i].id]
    /\ \A i, j \in DOMAIN log : i < j => log[i].id < log[j].id
    /\ StrictOrder
    /\ \A n \in DOMAIN applied \ (Ids \cup lost) : n = Len(applied)
    /\ stored => \A n \in acked : LatestSnapshot.upto >= n

(* The latest snapshot is the replay of the log as far as it goes, unless  *)
(* the row of an action before it was refused.                             *)
SnapshotReplays ==
    stored /\ (\A n \in lost : n > LatestSnapshot.upto) =>
        Replay(SubSeq(log, 1, LatestSnapshot.upto), deck)
        = [hand |-> LatestSnapshot.hand, ok |-> TRUE]

(* However requests interleave, whatever the store refuses and whenever    *)
(* the process dies, an action answered with 200 is in the log for good    *)
(* and no action is in it twice; a refused one never gets there; and once  *)
(* all requests are answered, every accepted action is in the log but      *)
(* those that were answered with 500 because their row was refused.        *)
LoggedOnce ==
    /\ acked \subseteq Ids
    /\ \A i, j \in DOMAIN log : log[i].id = log[j].id => i = j
    /\ Ids \cap lost = {}
    /\ Quiet => Ids = DOMAIN applied \ lost
=============================================================================
